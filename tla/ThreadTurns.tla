------------------------------ MODULE ThreadTurns ------------------------------
(* A turn from the user's message to its end, for one thread: the clients    *)
(* and the parking of ws.ts, the provider command reactor, the provider      *)
(* service with an agent's adapter (CursorAdapter), and the ingestion of the  *)
(* agent's events, all of which read the thread first and dispatch later.    *)
(* The thread itself is ThreadAggregate, whose commands are the only steps   *)
(* that change it.                                                           *)
(*                                                                           *)
(* Start n of the user is number n throughout; a turn it opens has its       *)
(* number as id. A failed call and the dispatch that reports it are two      *)
(* steps where the thread is read in between.                                *)
EXTENDS ThreadAggregate, Sequences

CONSTANTS
    MaxStarts,      \* messages the user sends
    MaxCalls,       \* interrupts, answers and stops the user asks for
    MaxRestarts,    \* restarts of the server
    MaxMishaps,     \* kinds of mishaps in one behaviour
    MaxMessages     \* messages, or pieces of them, the agent sends

ASSUME TurnsAssumption == MaxStarts \in Nat /\ Turns = 1 .. MaxStarts /\ NoTurn = 0

VARIABLES
    intents,    \* the reactor's queue of requested starts, stops, ...
    reactor,    \* what it is doing, and what it has read
    sends,      \* the forked sendTurn of each start
    agent,      \* the adapter's session of the thread
    feed,       \* the agent's events, not yet ingested
    ingest,     \* the write the ingestion has decided on
    park,       \* a settle or archive on its way through ws.ts
    asked,      \* how much of the bounds is used, and the mishaps so far
    spoken,     \* messages so far
    captures,   \* the checkpoint reactor's queue of turns that have ended
    capture     \* the checkpoint it is taking

vars == <<model, rows, history, intents, reactor, sends, agent, feed, ingest, park, asked,
          spoken, captures, capture>>
thread == <<model, rows, history>>
records == <<spoken, captures, capture>>

Starts == 1 .. MaxStarts

Idle == [pc |-> "idle"]
NoSend == [stage |-> "none", turn |-> NoTurn, steers |-> FALSE]

TurnsInit ==
    /\ Init
    /\ intents = <<>>
    /\ reactor = Idle
    /\ sends = [n \in Starts |-> NoSend]
    /\ agent = [alive |-> FALSE, bound |-> FALSE, turn |-> NoTurn,
                asks |-> [r \in Requests |-> "none"]]
    /\ feed = <<>>
    /\ ingest = Idle
    /\ park = Idle
    /\ asked = [starts |-> 0, calls |-> 0, restarts |-> 0, mishaps |-> {}]
    /\ spoken = 0 /\ captures = <<>> /\ capture = Idle

Mishaps(kinds) ==
    /\ Cardinality(asked.mishaps \cup kinds) <= MaxMishaps
    /\ asked' = [asked EXCEPT !.mishaps = @ \cup kinds]

-----------------------------------------------------------------------------
(* Clients.                                                                *)

(* Commands are admitted once the sessions are reconciled (ServerRestarts). *)
Admitted == reactor.pc # "reconcile"

UserStarts ==
    /\ Admitted /\ asked.starts < MaxStarts
    /\ asked' = [asked EXCEPT !.starts = @ + 1]
    /\ \E ahead \in BOOLEAN : StartTurn(ahead)
    /\ intents' = Append(intents, [kind |-> "start", start |-> asked.starts + 1])
    /\ UNCHANGED <<reactor, sends, agent, feed, ingest, park, records>>

Acts ==
    /\ Admitted /\ asked.calls < MaxCalls
    /\ asked' = [asked EXCEPT !.calls = @ + 1]

Calls(intent) ==
    /\ Acts
    /\ intents' = Append(intents, intent)
    /\ UNCHANGED <<reactor, sends, agent, feed, ingest, park, records>>

(* The client names the turn it shows as running.                           *)
UserInterrupts ==
    /\ rows.turn # NoTurn
    /\ InterruptTurn(rows.turn)
    /\ Calls([kind |-> "interrupt", turn |-> rows.turn])

UserAnswers ==
    \E r \in Requests :
        /\ rows.approvals[r] = "pending"
        /\ Respond(r)
        /\ Calls([kind |-> "answer", request |-> r])

UserStops ==
    /\ Calls([kind |-> "stop"])
    /\ UNCHANGED thread

UserTidies ==
    /\ \/ (Unsettle("user") \/ Snooze) /\ Acts
       \/ (Unarchive \/ Unsnooze) /\ Admitted /\ UNCHANGED asked
    /\ UNCHANGED <<intents, reactor, sends, agent, feed, ingest, park, records>>

(* ws.ts: whether a session is to be stopped is read before the command ... *)
ParkReads ==
    /\ park.pc = "idle"
    /\ Acts
    /\ \E kind \in {"settle", "archive"} :
          park' = [pc |-> "command", kind |-> kind,
                   stops |-> rows.status \notin {"none", "stopped"}]
    /\ UNCHANGED <<thread, intents, reactor, sends, agent, feed, ingest, records>>

(* ... which is then decided ...                                            *)
ParkCommand ==
    /\ park.pc = "command"
    /\ \/ /\ IF park.kind = "settle" THEN Settle ELSE Archive
          /\ park' = IF park.stops THEN [park EXCEPT !.pc = "stop"] ELSE Idle
       \/ /\ ~(IF park.kind = "settle" THEN CanSettle ELSE ~model.archived)
          /\ park' = Idle
          /\ UNCHANGED thread
    /\ UNCHANGED <<intents, reactor, sends, agent, feed, ingest, asked, records>>

(* ... and followed by a stop, after a settle only a conditional one.       *)
ParkStops ==
    /\ park.pc = "stop"
    /\ park' = Idle
    /\ intents' = IF park.kind = "settle" /\ ReEngaged THEN intents
                  ELSE Append(intents, [kind |-> "stop"])
    /\ UNCHANGED <<thread, reactor, sends, agent, feed, ingest, asked, records>>

-----------------------------------------------------------------------------
(* The agent's session. Prompts in flight are the sends of the session that *)
(* have begun; stopping the session fails them.                             *)

InFlight == {n \in Starts : sends[n].stage \in {"begun", "prompted"}}

Event(type) == [type |-> type]

FailedWith(set) ==
    [n \in Starts |-> IF n \in set THEN [sends[n] EXCEPT !.stage = "failed"] ELSE sends[n]]

(* A session stops: its questions are cancelled, and whether the agent's     *)
(* handlers still report that is a race with the closing of their scope.    *)
OpenAsks == {r \in Requests : agent.asks[r] \in {"open", "decided"}}
Exit(reported) ==
    (IF reported # {} /\ agent.alive
     THEN <<[type |-> "resolved", request |-> CHOOSE r \in reported : TRUE]>> ELSE <<>>)
    \o (IF agent.alive THEN <<Event("exited")>> ELSE <<>>)
AsksCancelled == [r \in Requests |-> IF agent.asks[r] = "none" THEN "none" ELSE "done"]

(* adapter.stopSession, nothing when there is no session.                   *)
AgentStops ==
    \E reported \in {{}} \cup {{r} : r \in OpenAsks} :
        /\ feed' = feed \o Exit(reported)
        /\ sends' = FailedWith(InFlight)
        /\ agent' = [agent EXCEPT !.alive = FALSE, !.turn = NoTurn, !.asks = AsksCancelled]

(* adapter.startSession: a session the thread still has is stopped first.   *)
AgentStarts ==
    \E reported \in {{}} \cup {{r} : r \in OpenAsks} :
        /\ feed' = feed \o Exit(reported)
                   \o <<Event("started"), Event("ready")>>
        /\ agent' = [alive |-> TRUE, bound |-> TRUE, turn |-> NoTurn, asks |-> AsksCancelled]

-----------------------------------------------------------------------------
(* The forked sendTurn of a start.                                         *)

SendStep(n, stage) == sends' = [sends EXCEPT ![n].stage = stage]

(* ProviderService routes to the session, recovers one from the resume      *)
(* cursor, or fails.                                                        *)
SendRoutes(n) ==
    /\ sends[n].stage = "forked"
    /\ IF agent.alive
       THEN LET steers == InFlight # {} /\ agent.turn # NoTurn
            IN  /\ sends' = [sends EXCEPT ![n] =
                      [stage |-> "begun", steers |-> steers,
                       turn |-> IF steers THEN agent.turn ELSE n]]
                /\ Mishaps({k \in {"overtaking"} : \E m \in Starts : sends[m].stage = "begun"})
       ELSE /\ SendStep(n, IF agent.bound THEN "recovering" ELSE "failed")
            /\ UNCHANGED asked
    /\ UNCHANGED <<thread, intents, reactor, agent, feed, ingest, park, records>>

SendRecovers(n) ==
    /\ sends[n].stage = "recovering"
    /\ \/ /\ AgentStarts
          /\ sends' = [FailedWith(InFlight) EXCEPT ![n].stage = "forked"]
          /\ Mishaps({"resurrected"})
       \/ /\ SendStep(n, "failed")
          /\ UNCHANGED <<agent, feed, asked>>
    /\ UNCHANGED <<thread, intents, reactor, ingest, park, records>>

(* The agent is configured and the turn opened, unless the message joins    *)
(* one.                                                                     *)
SendOpens(n) ==
    /\ sends[n].stage = "begun"
    /\ \/ /\ SendStep(n, "prompted")
          /\ agent' = [agent EXCEPT !.turn = sends[n].turn]
          /\ feed' = IF sends[n].steers THEN feed
                     ELSE Append(feed, [type |-> "turn.started", turn |-> sends[n].turn])
       \/ /\ SendStep(n, "failed")
          /\ UNCHANGED <<agent, feed>>
    /\ UNCHANGED <<thread, intents, reactor, ingest, park, asked, records>>

LastPrompt_Any(n) == TRUE            \* mutant: every prompt that ends completes the turn
LastPrompt(n) == InFlight = {n}

(* What comes to nothing is left out: outside a git workspace, for example,  *)
(* there is nothing to capture.                                              *)
ToCapture(item) == captures' \in {captures, Append(captures, item)}

(* The prompt ends, is cancelled or fails; the last one in flight ends the   *)
(* turn. Ingestion and checkpoint reactor each get the event, and the first  *)
(* completes the messages that are still streaming after it.                 *)
Message(turn, streaming) == [type |-> "message", turn |-> turn, streaming |-> streaming]

SendEnds(n) ==
    /\ sends[n].stage = "prompted"
    /\ OpenAsks = {}
    /\ \/ /\ SendStep(n, "done")
          /\ LastPrompt(n)
          /\ \E rest \in {<<>>} \cup {<<Message(sends[n].turn, FALSE)>> : s \in 1 .. spoken} :
                feed' = Append(feed, [type |-> "turn.completed", turn |-> sends[n].turn]) \o rest
          /\ \E status \in {"ready", "missing"} :
                ToCapture([turn |-> sends[n].turn, status |-> status, replaces |-> FALSE])
       \/ /\ SendStep(n, "done")
          /\ ~LastPrompt(n)
          /\ UNCHANGED <<feed, captures>>
       \/ /\ SendStep(n, "failed")
          /\ UNCHANGED <<feed, captures>>
    /\ UNCHANGED <<thread, intents, reactor, agent, ingest, park, asked, spoken, capture>>

(* A failed start is recorded on the session whatever the session is doing: *)
(* events of the agent may not be ingested yet ("outrun"), and another start *)
(* may be under way ("collateral").                                          *)
UnderWay == {n \in Starts : sends[n].stage \notin {"none", "done"}}
            \cup {n \in Starts : /\ reactor.pc \in {"start", "ensure", "bind", "failure"}
                                 /\ reactor.intent.start = n}

FailureMishaps(n) ==
    Mishaps({k \in {"outrun"} : feed # <<>> \/ ingest.pc # "idle"}
            \cup {k \in {"collateral"} : UnderWay # {n}})

(* What was read may be old when it is recorded.                            *)
RecordMishaps(n, status) ==
    Mishaps({k \in {"outrun"} : feed # <<>> \/ ingest.pc # "idle"}
            \cup {k \in {"collateral"} :
                      UnderWay # {n} \/ (status = "stopped" /\ rows.status # "stopped")})

SendFailureReads(n) ==
    /\ sends[n].stage = "failed"
    /\ SendStep(n, IF rows.status = "stopped" THEN "set stopped" ELSE "set error")
    /\ FailureMishaps(n)
    /\ UNCHANGED <<thread, intents, reactor, agent, feed, ingest, park, records>>

SendFailureSets(n) ==
    /\ sends[n].stage \in {"set stopped", "set error"}
    /\ \E newer \in BOOLEAN :
          SetSession(IF sends[n].stage = "set error" THEN "error" ELSE "stopped", NoTurn, newer)
    /\ SendStep(n, "done")
    /\ RecordMishaps(n, IF sends[n].stage = "set error" THEN "error" ELSE "stopped")
    /\ UNCHANGED <<intents, reactor, agent, feed, ingest, park, records>>

(* The agent asks during a turn, and reports what became of it.             *)
AgentAsks ==
    \E r \in Requests :
        /\ \E n \in Starts : sends[n].stage = "prompted"
        /\ agent.asks[r] = "none"
        /\ agent' = [agent EXCEPT !.asks[r] = "open"]
        /\ feed' = Append(feed, [type |-> "opened", request |-> r])
        /\ UNCHANGED <<thread, intents, reactor, sends, ingest, park, asked, records>>

(* It speaks during a turn: pieces of a message, and complete ones.          *)
AgentSpeaks ==
    \E streaming \in BOOLEAN :
        /\ \E n \in Starts : sends[n].stage = "prompted"
        /\ agent.turn # NoTurn
        /\ spoken < MaxMessages
        /\ spoken' = spoken + 1
        /\ feed' = Append(feed, Message(agent.turn, streaming))
        /\ UNCHANGED <<thread, intents, reactor, sends, agent, ingest, park, asked,
                       captures, capture>>

AgentReports ==
    \E r \in Requests :
        /\ agent.asks[r] = "decided"
        /\ agent' = [agent EXCEPT !.asks[r] = "done"]
        /\ feed' = Append(feed, [type |-> "resolved", request |-> r])
        /\ UNCHANGED <<thread, intents, reactor, sends, ingest, park, asked, records>>

-----------------------------------------------------------------------------
(* The provider command reactor.                                           *)

(* It takes an intent and reads the thread and the sessions.                *)
ReactorTakes ==
    /\ reactor.pc = "idle" /\ intents # <<>>
    /\ reactor' = [pc |-> Head(intents).kind, intent |-> Head(intents),
                   status |-> rows.status, alive |-> agent.alive]
    /\ intents' = Tail(intents)
    /\ UNCHANGED <<thread, sends, agent, feed, ingest, park, asked, records>>

ReactorGoes(pc) == reactor' = [reactor EXCEPT !.pc = pc]
ReactorSets(status) == \E newer \in BOOLEAN : SetSession(status, NoTurn, newer)

(* A start shows as "starting", unless the session was read as running.     *)
ReactorMarks ==
    /\ reactor.pc = "start"
    /\ IF reactor.status = "running" THEN UNCHANGED thread ELSE ReactorSets("starting")
    /\ ReactorGoes("ensure")
    /\ UNCHANGED <<intents, sends, agent, feed, ingest, park, asked, records>>

Fork == sends' = [sends EXCEPT ![reactor.intent.start].stage = "forked"]

(* The thread was read with a session that is not stopped.                  *)
HasSession_Busy == reactor.status \in Live     \* mutant: an idle session is none
HasSession == reactor.status \notin {"none", "stopped"}

(* The session the thread was read with is kept ...                         *)
ReactorKeepsSession ==
    /\ reactor.pc = "ensure"
    /\ reactor.alive /\ HasSession
    /\ Fork
    /\ reactor' = Idle
    /\ UNCHANGED <<thread, intents, agent, feed, ingest, park, asked, records>>

(* ... or one is started, also when the model or the mode has changed.      *)
ReactorStartsSession ==
    /\ reactor.pc = "ensure"
    /\ AgentStarts
    /\ sends' = FailedWith(InFlight)
    /\ ReactorGoes("bind")
    /\ UNCHANGED <<thread, intents, ingest, park, asked, records>>

ReactorBinds ==
    /\ reactor.pc = "bind"
    /\ ReactorSets("starting")
    /\ Fork
    /\ reactor' = Idle
    /\ UNCHANGED <<intents, agent, feed, ingest, park, asked, records>>

(* No session could be started; the thread is read again and set to that.   *)
ReactorStartFails ==
    /\ reactor.pc = "ensure"
    /\ \/ UNCHANGED <<sends, agent, feed>>
       \/ /\ agent.alive /\ AgentStops
    /\ reactor' = [reactor EXCEPT !.pc = "failure", !.status = rows.status]
    /\ FailureMishaps(reactor.intent.start)
    /\ UNCHANGED <<thread, intents, ingest, park, records>>

ReactorRecordsFailure ==
    /\ reactor.pc = "failure"
    /\ ReactorSets(IF reactor.status = "stopped" THEN "stopped" ELSE "error")
    /\ reactor' = Idle
    /\ RecordMishaps(reactor.intent.start, reactor.status)
    /\ UNCHANGED <<intents, sends, agent, feed, ingest, park, records>>

(* A stop; without a binding the call fails and with it the intent.         *)
ReactorStops ==
    /\ reactor.pc = "stop"
    /\ \/ ~HasSession /\ ReactorGoes("record stop") /\ UNCHANGED <<sends, agent, feed>>
       \/ HasSession /\ agent.bound /\ ReactorGoes("record stop") /\ AgentStops
       \/ HasSession /\ ~agent.bound /\ reactor' = Idle /\ UNCHANGED <<sends, agent, feed>>
    /\ Mishaps({k \in {"missed"} : reactor.status \in {"none", "stopped"} /\ agent.alive})
    /\ UNCHANGED <<thread, intents, ingest, park, records>>

ReactorRecordsStop ==
    /\ reactor.pc = "record stop"
    /\ ReactorSets("stopped")
    /\ reactor' = Idle
    /\ UNCHANGED <<intents, sends, agent, feed, ingest, park, asked, records>>

(* Interrupts and answers recover a session that is bound but not alive.    *)
ReactorRecovers ==
    /\ reactor.pc \in {"interrupt", "answer"}
    /\ HasSession /\ ~agent.alive /\ agent.bound
    /\ AgentStarts
    /\ sends' = FailedWith(InFlight)
    /\ Mishaps({"resurrected"})
    /\ UNCHANGED <<thread, intents, reactor, ingest, park, records>>

(* The agent is told to cancel, which cancels its questions too.            *)
ReactorInterrupts ==
    /\ reactor.pc = "interrupt"
    /\ HasSession => agent.alive
    /\ agent' = IF ~HasSession THEN agent
                ELSE [agent EXCEPT !.asks =
                        [r \in Requests |-> IF @[r] = "open" THEN "decided" ELSE @[r]]]
    /\ reactor' = Idle
    /\ UNCHANGED <<thread, intents, sends, feed, ingest, park, asked, records>>

(* An interrupt that fails stops the session, after another look at it ...  *)
Abandoned == rows.status \in {"none", "stopped", "ready"}
             \/ (rows.turn # NoTurn /\ rows.turn # reactor.intent.turn)

ReactorInterruptFails ==
    /\ reactor.pc = "interrupt"
    /\ HasSession /\ ~agent.alive
    /\ reactor' = IF Abandoned THEN Idle ELSE [reactor EXCEPT !.pc = "give up"]
    /\ UNCHANGED <<thread, intents, sends, agent, feed, ingest, park, asked, records>>

ReactorGivesUp ==
    /\ reactor.pc = "give up"
    /\ AgentStops
    /\ reactor' = IF Abandoned THEN Idle ELSE [reactor EXCEPT !.pc = "record stop"]
    /\ UNCHANGED <<thread, intents, ingest, park, asked, records>>

(* ... and an answer is given, or comes too late, or finds no session.      *)
ReactorAnswers ==
    /\ reactor.pc = "answer"
    /\ LET r == reactor.intent.request
           reaches == HasSession /\ agent.alive
       IN  \/ ~reaches /\ UNCHANGED <<thread, agent>>
           \/ /\ reaches /\ agent.asks[r] = "open"
              /\ agent' = [agent EXCEPT !.asks[r] = "decided"]
              /\ UNCHANGED thread
           \/ /\ reaches /\ agent.asks[r] # "open"
              /\ AppendStaleFailure(r)
              /\ UNCHANGED agent
    /\ reactor' = Idle
    /\ UNCHANGED <<intents, sends, feed, ingest, park, asked, records>>

-----------------------------------------------------------------------------
(* The ingestion of the agent's events.                                    *)

(* What a lifecycle event makes of the session it was read with; nothing    *)
(* when it is not accepted.                                                 *)
Verdict(event) ==
    LET starting == rows.pendingStart /\ rows.status = "starting"
        conflicts == rows.turn # NoTurn /\ event.turn # rows.turn
        writes(status, turn) == [pc |-> "write", status |-> status, turn |-> turn]
    IN  CASE event.type = "exited" -> writes("stopped", NoTurn)
          [] event.type = "ready" -> writes(IF starting THEN "starting" ELSE "ready", NoTurn)
          [] event.type = "started" ->
                writes(IF rows.turn # NoTurn THEN "running"
                       ELSE IF starting THEN "starting" ELSE "ready", rows.turn)
          [] event.type = "turn.started" /\ ~(conflicts
                  /\ ~(agent.turn = event.turn /\ rows.pendingStart)) ->
                writes("running", event.turn)
          [] event.type = "turn.completed" /\ ~conflicts -> writes("ready", NoTurn)
          [] OTHER -> Idle

IngestReads ==
    /\ ingest.pc = "idle" /\ feed # <<>>
    /\ Head(feed).type \notin {"opened", "resolved", "message"}
    /\ ingest' = Verdict(Head(feed))
    /\ feed' = Tail(feed)
    /\ UNCHANGED <<thread, intents, reactor, sends, agent, park, asked, records>>

IngestWrites ==
    /\ ingest.pc = "write"
    /\ \E newer \in BOOLEAN : SetSession(ingest.status, ingest.turn, newer)
    /\ ingest' = Idle
    /\ UNCHANGED <<intents, reactor, sends, agent, feed, park, asked, records>>

IngestAppends ==
    /\ ingest.pc = "idle" /\ feed # <<>>
    /\ \/ Head(feed).type = "opened" /\ AppendRequested(Head(feed).request)
       \/ Head(feed).type = "resolved" /\ AppendResolved(Head(feed).request)
       \/ Head(feed).type = "message" /\ MessageSent(Head(feed).turn, Head(feed).streaming)
    /\ feed' = Tail(feed)
    /\ UNCHANGED <<intents, reactor, sends, agent, ingest, park, asked, records>>

-----------------------------------------------------------------------------
(* The checkpoint reactor.                                                 *)

(* It reads the thread: a turn that has its checkpoint needs none, and while *)
(* a turn runs only that one is captured when it ends ...                    *)
CaptureWanted(item) ==
    /\ rows.checkpoints[item.turn] \notin {"ready", "error"}
    /\ item.replaces \/ rows.turn \in {NoTurn, item.turn}

CaptureReads ==
    /\ capture.pc = "idle" /\ captures # <<>>
    /\ capture' = IF CaptureWanted(Head(captures))
                  THEN [pc |-> "record", turn |-> Head(captures).turn,
                        status |-> Head(captures).status]
                  ELSE Idle
    /\ captures' = Tail(captures)
    /\ UNCHANGED <<thread, intents, reactor, sends, agent, feed, ingest, park, asked, spoken>>

(* ... works on the repository, which may fail, and records the checkpoint,  *)
(* by then perhaps of an earlier turn than the one that runs ("late"). One    *)
(* recorded as missing comes back to be replaced.                            *)
CaptureRecords ==
    /\ capture.pc = "record"
    /\ \/ /\ \E newer \in BOOLEAN : TurnDiffCompleted(capture.turn, capture.status, newer)
          /\ Mishaps({k \in {"late"} : rows.turn \notin {NoTurn, capture.turn}})
          /\ IF capture.status = "missing"
             THEN ToCapture([turn |-> capture.turn, status |-> "ready", replaces |-> TRUE])
             ELSE UNCHANGED captures
       \/ UNCHANGED <<thread, captures, asked>>
    /\ capture' = Idle
    /\ UNCHANGED <<intents, reactor, sends, agent, feed, ingest, park, spoken>>

-----------------------------------------------------------------------------
(* Time, and the server.                                                   *)

TimePasses ==
    /\ GraceExpires
    /\ UNCHANGED <<intents, reactor, sends, agent, feed, ingest, park, asked, records>>

(* The server dies and comes back: the queues, the fibers and the agents     *)
(* are gone, the rows and the resume cursor stay, and the read model is      *)
(* rebuilt. Then, before any command is admitted, a session that was alive  *)
(* is set to "error" (reconcileProviderSessions).                           *)
Orphaned_Running == rows.status = "running"    \* mutant: "starting" is forgotten
Orphaned == rows.status \in Live \/ rows.turn # NoTurn

ServerRestarts ==
    /\ asked.restarts < MaxRestarts
    /\ asked' = [asked EXCEPT !.restarts = @ + 1]
    /\ Rebuild
    /\ intents' = <<>> /\ feed' = <<>>
    /\ reactor' = [pc |-> "reconcile"] /\ ingest' = Idle /\ park' = Idle
    /\ captures' = <<>> /\ capture' = Idle /\ UNCHANGED spoken
    /\ sends' = [n \in Starts |-> NoSend]
    /\ agent' = [agent EXCEPT !.alive = FALSE, !.turn = NoTurn,
                              !.asks = [r \in Requests |->
                                  IF agent.asks[r] = "none" THEN "none" ELSE "done"]]

Reconcile ==
    /\ reactor.pc = "reconcile"
    /\ IF Orphaned THEN ReactorSets("error") ELSE UNCHANGED thread
    /\ reactor' = Idle
    /\ UNCHANGED <<intents, sends, agent, feed, ingest, park, asked, records>>

-----------------------------------------------------------------------------
Users == UserStarts \/ UserInterrupts \/ UserAnswers \/ UserStops \/ UserTidies
         \/ ParkReads \/ ParkCommand \/ ParkStops

Sends == \E n \in Starts :
            \/ SendRoutes(n) \/ SendRecovers(n) \/ SendOpens(n) \/ SendEnds(n)
            \/ SendFailureReads(n) \/ SendFailureSets(n)

Reactor ==
    \/ ReactorTakes \/ ReactorMarks \/ ReactorKeepsSession \/ ReactorStartsSession
    \/ ReactorBinds \/ ReactorStartFails \/ ReactorRecordsFailure
    \/ ReactorStops \/ ReactorRecordsStop
    \/ ReactorRecovers \/ ReactorInterrupts \/ ReactorInterruptFails \/ ReactorGivesUp
    \/ ReactorAnswers

Ingestion == IngestReads \/ IngestWrites \/ IngestAppends

Checkpoints == CaptureReads \/ CaptureRecords

TurnsNext ==
    \/ Users \/ Sends \/ Reactor \/ Ingestion \/ Checkpoints
    \/ AgentAsks \/ AgentReports \/ AgentSpeaks \/ TimePasses \/ ServerRestarts \/ Reconcile

TurnsSpec == TurnsInit /\ [][TurnsNext]_vars

-----------------------------------------------------------------------------
(* Properties.                                                             *)

(* Nothing is queued or on its way, but prompts the agent works on.         *)
Still ==
    /\ intents = <<>> /\ feed = <<>>
    /\ reactor.pc = "idle" /\ ingest.pc = "idle" /\ park.pc = "idle"
    /\ \A n \in Starts : sends[n].stage \in {"none", "done", "prompted"}

Except(kinds) == asked.mishaps \cap kinds = {}

(* A thread never shows work that nobody does: once everything on its way   *)
(* has arrived and the agent has no prompt, the session is neither starting  *)
(* nor running, which no later event would change. (The reactor, the forked  *)
(* sends and the ingestion each read the session and set it later. It fails   *)
(* when a prompt fails before its turn.started is ingested, which then sets   *)
(* the session running for good, or when two sends open their turns at once.) *)
NoStuckWork ==
    Still /\ InFlight = {} /\ Except({"overtaking", "outrun"}) => rows.status \notin Live

(* A thread shows the work that is done: while the agent works on a prompt   *)
(* and everything else has arrived, the session is starting or running.      *)
(* (It fails when the failure of one start is recorded while another one's    *)
(* prompt runs, when a send or an interrupt starts a session again after a    *)
(* stop, and when a stop takes a live agent for gone.)                        *)
BusyIsShown ==
    Still /\ InFlight # {} /\ Except({"collateral", "resurrected", "missed"})
        => rows.status \in Live

(* A thread that is shown as stopped has no agent left running: a stop stops  *)
(* it before it is recorded, and nothing that was on its way starts one again.*)
(* (The exceptions are those above: of reads that were old when acted upon.)  *)
StoppedMeansDead ==
    Still /\ rows.status = "stopped" /\ Except({"collateral", "resurrected", "missed"})
        => ~agent.alive

(* The latest turn: decider and clients have the same one, and while the     *)
(* session has a turn, that is the one. (Sessions and checkpoints move it on  *)
(* both sides, by different rules. It fails when the checkpoint of an ended   *)
(* turn is recorded after the next one has begun.)                            *)
LatestIsKnown ==
    Except({"late"}) =>
        /\ rows.latest = model.latest
        /\ rows.turn # NoTurn => rows.latest = rows.turn

(* No turn is shown as running that nobody works on: once everything on its  *)
(* way has arrived and no prompt is left, every turn has ended, for clients  *)
(* and decider, however its session ended, and whichever of sessions,        *)
(* messages, checkpoints and restarts came last. (It fails as NoStuckWork     *)
(* does, and when the failure of one start is recorded while the turn of      *)
(* another begins and the server then dies.)                                  *)
TurnsEnd ==
    /\ Still /\ InFlight = {} /\ captures = <<>> /\ capture.pc = "idle"
    /\ Except({"overtaking", "outrun", "collateral"})
    => /\ \A t \in Turns : rows.turns[t] # "running"
       /\ model.latestState # "running"

(* What clients are shown of the turns.                                      *)
TurnsAreShown == LatestIsKnown /\ TurnsEnd
=============================================================================
