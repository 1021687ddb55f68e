---------------------------- MODULE ThreadAggregate ----------------------------
(* One thread as the server keeps it: the decider's guards                  *)
(* (orchestration/decider.ts), the command read model the projector folds in *)
(* memory (orchestration/projector.ts) and the rows the projection pipeline  *)
(* writes for the user interface (orchestration/Layers/ProjectionPipeline).  *)
(*                                                                           *)
(* The engine decides one command at a time and applies the events of a      *)
(* command to both sides before the next (OrchestrationEngine), so a command *)
(* is one action. An event is an operator on the record it changes; where    *)
(* both sides treat it alike one operator serves both.                       *)
(*                                                                           *)
(* Abstracted: titles, models, pins, plans and reverts; of a checkpoint its    *)
(* status is kept, of an assistant message that it came. Time is *)
(* reduced to `queued`: the newest user message is newer than every stamp of *)
(* the latest turn and at most two minutes old. The stamps come from several *)
(* clocks, so whether a new stamp passes the message is the caller's choice. *)
EXTENDS Naturals, FiniteSets

CONSTANTS
    Turns,      \* turn ids
    NoTurn,     \* no active or latest turn
    Requests    \* ids of approval requests

ASSUME NoTurnAssumption == NoTurn \notin Turns

VARIABLES
    model,      \* the command read model of the thread
    rows,       \* its projection rows
    history     \* what the properties need of the past

aggregateVars == <<model, rows, history>>

Live == {"starting", "running"}
SessionStatuses == Live \cup {"none", "ready", "interrupted", "stopped", "error"}
TurnStates == {"running", "completed", "interrupted", "error"}
CheckpointStatuses == {"none", "missing", "ready", "error"}

(* Columns both sides have.                                                *)
Columns == {"status", "turn", "override", "snoozed", "archived"}

Model == [status : SessionStatuses, turn : Turns \cup {NoTurn},
          override : {"none", "settled", "active"},
          snoozed : BOOLEAN, archived : BOOLEAN,
          latest : Turns \cup {NoTurn}, latestState : TurnStates,
          checkpoints : [Turns -> CheckpointStatuses],
          open : SUBSET Requests, queued : BOOLEAN]

Rows == [status : SessionStatuses, turn : Turns \cup {NoTurn},
         override : {"none", "settled", "active"},
         snoozed : BOOLEAN, archived : BOOLEAN,
         latest : Turns \cup {NoTurn},
         turns : [Turns -> TurnStates \cup {"absent"}],
         checkpoints : [Turns -> CheckpointStatuses],
         pendingStart : BOOLEAN,
         approvals : [Requests -> {"absent", "pending", "resolved"}]]

History == [asked : SUBSET Requests,        \* requests ever opened
            answered : SUBSET Requests,     \* answered by the user
            forgotten : SUBSET Requests]    \* open when the server restarted

Init ==
    /\ model = [status |-> "none", turn |-> NoTurn, override |-> "none",
                snoozed |-> FALSE, archived |-> FALSE, latest |-> NoTurn,
                latestState |-> "completed",
                checkpoints |-> [t \in Turns |-> "none"],
                open |-> {}, queued |-> FALSE]
    /\ rows = [status |-> "none", turn |-> NoTurn, override |-> "none",
               snoozed |-> FALSE, archived |-> FALSE, latest |-> NoTurn,
               turns |-> [t \in Turns |-> "absent"],
               checkpoints |-> [t \in Turns |-> "none"], pendingStart |-> FALSE,
               approvals |-> [r \in Requests |-> "absent"]]
    /\ history = [asked |-> {}, answered |-> {}, forgotten |-> {}]

-----------------------------------------------------------------------------
(* Events.                                                                 *)

Settled(th) == [th EXCEPT !.override = "settled"]
Unsettled(th, reason) ==
    [th EXCEPT !.override = IF reason = "user" THEN "active" ELSE "none"]
Snoozed(th, until) == [th EXCEPT !.snoozed = until]
Archived(th, at) == [th EXCEPT !.archived = at]

(* Activity spends a settle, a keep-active pin and, for a message, a snooze. *)
Woken_SpendsPin(th) ==     \* mutant: a settle survives activity
    [th EXCEPT !.override = IF @ = "active" THEN "none" ELSE @]
Woken(th) == Unsettled(th, "activity")

SettledTurnState_Status(status) == status    \* mutant: copies the status
SettledTurnState(status) ==
    CASE status \in {"interrupted", "stopped"} -> "interrupted"
      [] status = "error" -> "error"
      [] OTHER -> "completed"

(* thread.session-set in memory. `newer` says that the newest user message  *)
(* is newer than the stamps this event leaves on the latest turn.           *)
SessionSetInModel(m, status, turn, newer) ==
    LET begins == status = "running" /\ turn # NoTurn
        ends == ~begins /\ status \notin Live
                /\ m.latest # NoTurn /\ m.latestState = "running"
    IN  [m EXCEPT !.status = status, !.turn = turn,
                  !.latest = IF begins THEN turn ELSE @,
                  !.latestState = IF begins THEN "running"
                                  ELSE IF ends THEN SettledTurnState(status) ELSE @,
                  !.queued = @ /\ (begins \/ ends => newer)]

(* The turns projection: a turn that is running is settled when the session *)
(* leaves "running", or completed when another turn takes over; a finished  *)
(* turn is not reopened.                                                    *)
TurnAfter_LeavesReady(was, t, status, begins, turn) ==   \* mutant: "ready" settles nothing
    CASE begins /\ t = turn /\ was \notin {"completed", "error"} -> "running"
      [] begins /\ t # turn /\ was = "running" -> "completed"
      [] ~begins /\ status \notin Live \cup {"ready"} /\ was = "running" ->
            SettledTurnState(status)
      [] OTHER -> was

TurnAfter(was, t, status, begins, turn) ==
    CASE begins /\ t = turn /\ was \notin {"completed", "error"} -> "running"
      [] begins /\ t # turn /\ was = "running" -> "completed"
      [] ~begins /\ status \notin Live /\ was = "running" -> SettledTurnState(status)
      [] OTHER -> was

(* thread.session-set in the rows: the sessions, turns and threads          *)
(* projections. A turn that begins adopts the pending start.                *)
SessionSetInRows(r, status, turn) ==
    LET begins == status = "running" /\ turn # NoTurn
    IN  [r EXCEPT !.status = status, !.turn = turn,
                  !.latest = IF turn = NoTurn THEN @ ELSE turn,
                  !.turns = [t \in Turns |-> TurnAfter(r.turns[t], t, status, begins, turn)],
                  !.pendingStart = @ /\ ~begins
                                     /\ status \notin {"error", "stopped", "interrupted"}]

StillRunning(th, turn) == th.status = "running" /\ th.turn = turn

(* thread.message-sent of the agent, which only the rows take for the turn:  *)
(* a complete message ends a turn its session does not run, and one that     *)
(* never began is shown from its first message on.                           *)
MessageSentInRows(r, turn, streaming) ==
    LET settles == ~streaming /\ ~StillRunning(r, turn)
    IN  [r EXCEPT !.turns[turn] =
            CASE settles /\ @ \notin {"interrupted", "error"} -> "completed"
              [] ~settles /\ @ = "absent" -> "running"
              [] OTHER -> @]

(* thread.turn-diff-completed: a checkpoint ends a turn its session does not *)
(* run, and makes it the latest one, whichever came after it. The two sides  *)
(* end it differently, and the rows take it for the latest in any case.      *)
TurnDiffCompletedInModel(m, turn, status, newer) ==
    IF status = "missing" /\ m.checkpoints[turn] \in {"ready", "error"} THEN m
    ELSE IF StillRunning(m, turn) THEN [m EXCEPT !.checkpoints[turn] = status]
    ELSE [m EXCEPT !.checkpoints[turn] = status, !.latest = turn,
                   !.latestState = CASE status = "error" -> "error"
                                     [] status = "missing" -> "interrupted"
                                     [] OTHER -> "completed",
                   !.queued = newer]

TurnDiffCompletedInRows(r, turn, status) ==
    LET ended == IF status = "error" THEN "error" ELSE "completed"
    IN  [r EXCEPT !.checkpoints[turn] = status, !.latest = turn,
                  !.turns[turn] = IF ~StillRunning(r, turn) THEN ended
                                  ELSE IF @ = "absent" THEN "running" ELSE @]

(* A response resolves the row at once, whatever becomes of it.             *)
ResponseRequestedInRows(r, request) == [r EXCEPT !.approvals[request] = "resolved"]

RequestedInRows(r, request) ==
    [r EXCEPT !.approvals[request] = IF @ = "resolved" THEN @ ELSE "pending"]
ResolvedInRows(r, request) == [r EXCEPT !.approvals[request] = "resolved"]
StaleFailureInRows(r, request) ==
    [r EXCEPT !.approvals[request] = IF @ = "pending" THEN "resolved" ELSE @]

-----------------------------------------------------------------------------
(* Guards of the decider.                                                  *)

HasOpenBlockingRequest == model.open # {}
HasQueuedTurnStart == model.status # "error" /\ model.queued

CanSettle ==
    /\ ~model.archived
    /\ model.status \notin Live
    /\ ~HasOpenBlockingRequest
    /\ ~HasQueuedTurnStart

(* The conditional stop that follows a settle is dropped when the thread    *)
(* was engaged again in between.                                            *)
ReEngaged == model.override # "settled" \/ model.status \in Live \/ HasQueuedTurnStart

-----------------------------------------------------------------------------
(* Commands.                                                               *)

Settle ==
    /\ CanSettle
    /\ model' = Snoozed(Settled(model), FALSE)
    /\ rows' = Snoozed(Settled(rows), FALSE)
    /\ UNCHANGED history

Unsettle(reason) ==
    /\ ~model.archived
    /\ model' = Unsettled(model, reason)
    /\ rows' = Unsettled(rows, reason)
    /\ UNCHANGED history

Snooze ==
    /\ ~model.archived /\ ~HasOpenBlockingRequest /\ ~HasQueuedTurnStart
    /\ model' = Snoozed(model, TRUE)
    /\ rows' = Snoozed(rows, TRUE)
    /\ UNCHANGED history

Unsnooze ==
    /\ ~model.archived
    /\ model' = Snoozed(model, FALSE)
    /\ rows' = Snoozed(rows, FALSE)
    /\ UNCHANGED history

Archive ==
    /\ ~model.archived
    /\ model' = Archived(model, TRUE)
    /\ rows' = Archived(rows, TRUE)
    /\ UNCHANGED history

Unarchive ==
    /\ model.archived
    /\ model' = Archived(model, FALSE)
    /\ rows' = Archived(rows, FALSE)
    /\ UNCHANGED history

(* thread.turn.start: unsettled, unsnoozed, the message and the request. An *)
(* archived thread accepts it. `ahead`: the client's clock stamps the       *)
(* message after the latest turn.                                           *)
StartTurn(ahead) ==
    /\ model' = [Snoozed(Woken(model), FALSE) EXCEPT !.queued = @ \/ ahead]
    /\ rows' = [Snoozed(Woken(rows), FALSE) EXCEPT !.pendingStart = TRUE]
    /\ UNCHANGED history

(* Only the rows record an interrupt.                                       *)
InterruptTurn(turn) ==
    /\ rows' = [rows EXCEPT !.turns[turn] = "interrupted"]
    /\ UNCHANGED <<model, history>>

(* Only the rows record a response.                                         *)
Respond(request) ==
    /\ request \in history.asked
    /\ rows' = ResponseRequestedInRows(rows, request)
    /\ history' = [history EXCEPT !.answered = @ \cup {request}]
    /\ UNCHANGED model

(* A session that comes alive wakes the thread.                             *)
SetSession(status, turn, newer) ==
    LET wakes == status \in Live
    IN  /\ model' = SessionSetInModel(IF wakes THEN Woken(model) ELSE model,
                                      status, turn, newer)
        /\ rows' = SessionSetInRows(IF wakes THEN Woken(rows) ELSE rows, status, turn)
        /\ UNCHANGED history

(* A message of the agent, or a piece of one that is still streaming.        *)
MessageSent(turn, streaming) ==
    /\ rows' = MessageSentInRows(rows, turn, streaming)
    /\ UNCHANGED <<model, history>>

(* thread.turn.diff.complete. An old turn that becomes the latest again has   *)
(* old stamps, so that the newest message may count as queued once more.     *)
TurnDiffCompleted(turn, status, newer) ==
    /\ model' = TurnDiffCompletedInModel(model, turn, status, newer)
    /\ rows' = TurnDiffCompletedInRows(rows, turn, status)
    /\ UNCHANGED history

(* approval.requested wakes the thread. Providers make request ids afresh.  *)
AppendRequested(request) ==
    /\ request \notin history.asked
    /\ model' = [Woken(model) EXCEPT !.open = @ \cup {request}]
    /\ rows' = RequestedInRows(Woken(rows), request)
    /\ history' = [history EXCEPT !.asked = @ \cup {request}]

AppendResolved_InRows(request) ==   \* mutant: the decider does not know this kind
    /\ rows' = ResolvedInRows(rows, request)
    /\ history' = [history EXCEPT !.asked = @ \cup {request}]
    /\ UNCHANGED model

AppendResolved(request) ==
    /\ model' = [model EXCEPT !.open = @ \ {request}]
    /\ rows' = ResolvedInRows(rows, request)
    /\ history' = [history EXCEPT !.asked = @ \cup {request}]

AppendStaleFailure(request) ==
    /\ model' = [model EXCEPT !.open = @ \ {request}]
    /\ rows' = StaleFailureInRows(rows, request)
    /\ UNCHANGED history

(* The two minutes pass.                                                    *)
GraceExpires ==
    /\ model.queued
    /\ model' = [model EXCEPT !.queued = FALSE]
    /\ UNCHANGED <<rows, history>>

(* The read model is rebuilt from the rows, but without messages, activities *)
(* and checkpoints.                                                          *)
Rebuilt ==
    LET known == rows.latest # NoTurn /\ rows.turns[rows.latest] # "absent"
    IN  [status |-> rows.status, turn |-> rows.turn, override |-> rows.override,
         snoozed |-> rows.snoozed, archived |-> rows.archived,
         latest |-> IF known THEN rows.latest ELSE NoTurn,
         latestState |-> IF known THEN rows.turns[rows.latest] ELSE "completed",
         checkpoints |-> [t \in Turns |-> "none"],
         open |-> {}, queued |-> FALSE]

Rebuild ==
    /\ model' = Rebuilt
    /\ history' = [history EXCEPT !.forgotten = @ \cup model.open]
    /\ UNCHANGED rows

-----------------------------------------------------------------------------
(* Commands in any order.                                                  *)
Next ==
    \/ Settle \/ \E reason \in {"user", "activity"} : Unsettle(reason)
    \/ Snooze \/ Unsnooze \/ Archive \/ Unarchive
    \/ \E ahead \in BOOLEAN : StartTurn(ahead)
    \/ \E t \in Turns : InterruptTurn(t)
    \/ \E r \in Requests : Respond(r)
    \/ \E s \in SessionStatuses \ {"none"}, t \in Turns \cup {NoTurn}, newer \in BOOLEAN :
          SetSession(s, t, newer)
    \/ \E t \in Turns, streaming \in BOOLEAN : MessageSent(t, streaming)
    \/ \E t \in Turns, status \in CheckpointStatuses \ {"none"}, newer \in BOOLEAN :
          TurnDiffCompleted(t, status, newer)
    \/ \E r \in Requests : AppendRequested(r) \/ AppendResolved(r) \/ AppendStaleFailure(r)
    \/ GraceExpires
    \/ Rebuild

Spec == Init /\ [][Next]_aggregateVars

-----------------------------------------------------------------------------
(* Properties.                                                             *)

(* The kinds of the variables.                                              *)
TypeOK == model \in Model /\ rows \in Rows /\ history \in History

(* The settled list shows threads at rest: a thread with the settled        *)
(* override has no session that is starting or running, no request the      *)
(* decider knows of, and shows no pending request but one that was open      *)
(* when the server restarted. (Settling is refused while any of them holds, *)
(* and whatever makes one of them hold wakes the thread.)                   *)
SettledIsAtRest ==
    rows.override = "settled" =>
        /\ rows.status \notin Live
        /\ model.open = {}
        /\ \A r \in Requests : rows.approvals[r] = "pending" => r \in history.forgotten

(* The decider and the user interface count the pending requests from       *)
(* different events. They agree on every request but the ones the user has  *)
(* answered, which the rows close before the provider does, and the ones     *)
(* forgotten by a restart, which stay pending in the rows.                  *)
FlagsAgree ==
    \A r \in Requests :
        /\ r \in model.open /\ rows.approvals[r] # "pending" => r \in history.answered
        /\ rows.approvals[r] = "pending" /\ r \notin model.open => r \in history.forgotten

(* What a command is decided on is what the rows say.                       *)
ColumnsAgree ==
    \A c \in Columns : model[c] = rows[c]
=============================================================================
