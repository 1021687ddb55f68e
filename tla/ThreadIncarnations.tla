--------------------------- MODULE ThreadIncarnations ---------------------------
(***************************************************************************)
(* One thread id that is created, deleted and created again.  A deleted    *)
(* thread keeps its row, so its id can be reused; the cleanup of the       *)
(* deletion (stop the provider session, close the terminals) is done later *)
(* and by thread id, in a queue worker of ThreadDeletionReactor.ts.  A     *)
(* creator waits for that cleanup before it uses the thread:               *)
(* ThreadTurnBootstrapDispatcher.ts and the thread.create path of ws.ts    *)
(* call drainThrough with the sequence of their thread.created event.      *)
(* Other clients learn of the thread from the event stream and wait for    *)
(* nothing.                                                                *)
(*                                                                         *)
(* An incarnation is the sequence of its thread.created event.  Provider   *)
(* sessions and terminals are represented by the claim they were started   *)
(* under.  The events come from EventFeed, one per command; the worker is  *)
(* DrainableWorker.                                                        *)
(***************************************************************************)
EXTENDS Integers, Sequences

CONSTANTS
    Clients,        \* clients of the server
    MaxLog,         \* bound: events of the thread
    MaxRestarts,    \* bound: restarts of the server
    MaxInterrupts   \* bound: cleanups that end in an interruption

ASSUME IncarnationAssumption ==
    /\ MaxLog \in Nat
    /\ MaxRestarts \in Nat
    /\ MaxInterrupts \in Nat

VARIABLES
    log,          \* the thread's events
    head,         \* latestSequence
    published,    \* sequence of the last published event
    taken,        \* last event the reactor's subscription has processed
    seen,         \* seenSequence
    queue,        \* the reactor's worker: DrainableWorker's variables, items
    active,       \*   being the sequences of thread.deleted events
    outstanding,
    alive,
    stage,        \* what the worker does next for the active item
    clients,      \* per client: where it is and its thread.created sequence
    reacted,      \* last event ProviderCommandReactor has processed
    starting,     \* the claim for which it is starting a session
    session,      \* the claim of the running provider session
    terminal,     \* the claim of the open terminals
    restarts,     \* restarts so far
    interrupts    \* interrupted cleanups so far

feed == <<log, head, published>>
reactor == <<taken, seen>>
worker == <<queue, active, outstanding, alive, stage>>
provider == <<reacted, starting, session>>
bounds == <<restarts, interrupts>>
vars == <<feed, reactor, worker, clients, provider, terminal, bounds>>

NoItem == 0
Feed == INSTANCE EventFeed WITH committed <- Len(log)
Worker == INSTANCE DrainableWorker

(* fenced: started by a client that waited for drainThrough.               *)
Claims == [inc : Nat, fenced : BOOLEAN]
NoClaim == [inc |-> 0, fenced |-> FALSE]

Events == [type : {"created", "deleted", "turn"}, claim : Claims]

(* The incarnation of the projected row after n events, or 0.              *)
Turns(n) == {i \in 1..n : log[i].type \in {"created", "deleted"}}
LiveIncarnation(n) ==
    IF \E i \in Turns(n) : log[i].type = "created" /\ \A j \in Turns(n) : j <= i
    THEN CHOOSE i \in Turns(n) : \A j \in Turns(n) : j <= i
    ELSE 0
Live == LiveIncarnation(Len(log))

Phases == {"idle", "dispatched", "waiting", "draining", "bootstrap", "owner"}
IdleClient == [phase |-> "idle", kind |-> "direct", fence |-> 0]
Move(c, p) == clients' = [clients EXCEPT ![c].phase = p]

Init ==
    /\ log = <<>>
    /\ Feed!FeedInit
    /\ Worker!WorkerInit
    /\ taken = 0
    /\ seen = 0
    /\ stage = "stop"
    /\ clients = [c \in Clients |-> IdleClient]
    /\ reacted = 0
    /\ starting = NoClaim
    /\ session = NoClaim
    /\ terminal = NoClaim
    /\ restarts = 0
    /\ interrupts = 0

-----------------------------------------------------------------------------
(* The engine: a command of the thread commits one event, which is then    *)
(* published.                                                              *)

Commit(type, claim) ==
    /\ Len(log) < MaxLog
    /\ log' = Append(log, [type |-> type, claim |-> claim])
    /\ Feed!CommitBatch

EngineStep ==
    /\ UNCHANGED log
    /\ Feed!AdvanceHead \/ Feed!PublishNext
    /\ UNCHANGED <<reactor, worker, clients, provider, terminal, bounds>>

-----------------------------------------------------------------------------
(* A client that creates the thread.                                       *)

(* thread.create, alone or as the first command of a bootstrap turn start. *)
(* Only a live row blocks it.                                              *)
Create(c, kind) ==
    /\ clients[c].phase = "idle"
    /\ Live = 0
    /\ Commit("created", NoClaim)
    /\ clients' = [clients EXCEPT ![c] =
                      [phase |-> "dispatched", kind |-> kind, fence |-> Len(log) + 1]]
    /\ UNCHANGED <<reactor, worker, provider, terminal, bounds>>

(* The engine answers when the event is published; drainThrough begins.    *)
CreateAnswered(c) ==
    /\ clients[c].phase = "dispatched"
    /\ published >= clients[c].fence
    /\ Move(c, "waiting")
    /\ UNCHANGED <<feed, reactor, worker, provider, terminal, bounds>>

(* drainThrough, first wait: the watermark has reached the fence.          *)
SeenThrough_Exclusive(n) ==      \* mutant: off by one, for the event before the create
    seen >= n - 2
SeenThrough(n) == seen >= n

FenceSeen(c) ==
    /\ clients[c].phase = "waiting"
    /\ SeenThrough(clients[c].fence)
    /\ Move(c, "draining")
    /\ UNCHANGED <<feed, reactor, worker, provider, terminal, bounds>>

(* drainThrough, second wait: the worker is drained.  A direct create      *)
(* returns to its client, a bootstrap goes on to prepare the worktree.     *)
FenceDrained(c) ==
    /\ clients[c].phase = "draining"
    /\ Worker!Drained
    /\ Move(c, IF clients[c].kind = "bootstrap" THEN "bootstrap" ELSE "owner")
    /\ UNCHANGED <<feed, reactor, worker, provider, terminal, bounds>>

(* runForThread opens a terminal for the setup script; so does a client    *)
(* that was handed the thread.                                             *)
OpenTerminal(c) ==
    /\ clients[c].phase \in {"bootstrap", "owner"}
    /\ terminal' = [inc |-> clients[c].fence, fenced |-> TRUE]
    /\ UNCHANGED <<feed, reactor, worker, clients, provider, bounds>>

(* The final turn start of a bootstrap, or the first of the client.        *)
StartTurn(c) ==
    /\ clients[c].phase \in {"bootstrap", "owner"}
    /\ Commit("turn", [inc |-> clients[c].fence, fenced |-> TRUE])
    /\ Move(c, "owner")
    /\ UNCHANGED <<reactor, worker, provider, terminal, bounds>>

(* A step of the bootstrap fails: the thread is deleted again.  Deleting   *)
(* needs a row, not a live one.                                            *)
BootstrapFails(c) ==
    /\ clients[c].phase = "bootstrap"
    /\ Commit("deleted", NoClaim)
    /\ clients' = [clients EXCEPT ![c] = IdleClient]
    /\ UNCHANGED <<reactor, worker, provider, terminal, bounds>>

(* That deletion fails too (logged), or the request is interrupted, which  *)
(* cleans nothing up; or an owner loses interest.                          *)
GiveUp(c) ==
    /\ clients[c].phase # "idle"
    /\ clients' = [clients EXCEPT ![c] = IdleClient]
    /\ UNCHANGED <<feed, reactor, worker, provider, terminal, bounds>>

-----------------------------------------------------------------------------
(* Any client, at any time.                                                *)

(* thread.delete: the row exists, deleted or not.                          *)
Delete ==
    /\ Len(log) > 0
    /\ Commit("deleted", NoClaim)
    /\ UNCHANGED <<reactor, worker, clients, provider, terminal, bounds>>

(* A client that sees the thread in its sidebar, once it is published.     *)
VisitorStartsTurn ==
    /\ Live # 0
    /\ published >= Live
    /\ Commit("turn", [inc |-> Live, fenced |-> FALSE])
    /\ UNCHANGED <<reactor, worker, clients, provider, terminal, bounds>>

VisitorOpensTerminal ==
    /\ Live # 0
    /\ published >= Live
    /\ terminal = NoClaim
    /\ terminal' = [inc |-> Live, fenced |-> FALSE]
    /\ UNCHANGED <<feed, reactor, worker, clients, provider, bounds>>

-----------------------------------------------------------------------------
(* ProviderCommandReactor: a turn start finds its message in the thread    *)
(* unless the thread was deleted or created again since, then starts or    *)
(* reuses the thread's provider session, later.                            *)

ResolveTurn ==
    /\ starting = NoClaim
    /\ reacted < published
    /\ reacted' = reacted + 1
    /\ starting' = IF /\ log[reacted + 1].type = "turn"
                      /\ Live # 0
                      /\ Live <= reacted
                   THEN log[reacted + 1].claim
                   ELSE NoClaim
    /\ UNCHANGED <<feed, reactor, worker, clients, session, terminal, bounds>>

StartSession ==
    /\ starting # NoClaim
    /\ session' = starting
    /\ starting' = NoClaim
    /\ UNCHANGED <<feed, reactor, worker, clients, reacted, terminal, bounds>>

-----------------------------------------------------------------------------
(* ThreadDeletionReactor.                                                  *)

(* The subscriber gets the next event and hands a deletion to the worker.  *)
HandEvent ==
    /\ seen = taken
    /\ taken < published
    /\ taken' = taken + 1
    /\ IF log[taken + 1].type = "deleted"
       THEN Worker!Enqueue(taken + 1)
       ELSE UNCHANGED <<queue, active, outstanding, alive>>
    /\ UNCHANGED <<feed, seen, stage, clients, provider, terminal, bounds>>

NoteSeen_Published ==            \* mutant: the watermark follows publication
    /\ seen < taken
    /\ seen' = published
    /\ UNCHANGED <<feed, taken, worker, clients, provider, terminal, bounds>>

(* Then it raises the watermark.                                           *)
NoteSeen ==
    /\ seen < taken
    /\ seen' = taken
    /\ UNCHANGED <<feed, taken, worker, clients, provider, terminal, bounds>>

TakeDeletion ==
    /\ Worker!TakeItem
    /\ stage' = "stop"
    /\ UNCHANGED <<feed, reactor, clients, provider, terminal, bounds>>

(* stopProviderSession: a failure is logged and the session stays.         *)
StopSession ==
    /\ active # NoItem
    /\ stage = "stop"
    /\ stage' = "close"
    /\ session' \in {session, NoClaim}
    /\ UNCHANGED <<feed, reactor, queue, active, outstanding, alive, clients,
                   reacted, starting, terminal, bounds>>

(* closeThreadTerminals, the same.                                         *)
CloseTerminals ==
    /\ active # NoItem
    /\ stage = "close"
    /\ stage' = "done"
    /\ terminal' \in {terminal, NoClaim}
    /\ UNCHANGED <<feed, reactor, queue, active, outstanding, alive, clients, provider, bounds>>

CleanupDone ==
    /\ stage = "done"
    /\ Worker!FinishItem
    /\ UNCHANGED <<feed, reactor, stage, clients, provider, terminal, bounds>>

(* A cleanup that ends in an interruption only is not logged but raised,   *)
(* and ends the worker's loop.                                             *)
CleanupInterrupted ==
    /\ interrupts < MaxInterrupts
    /\ interrupts' = interrupts + 1
    /\ Worker!ItemEndsLoop
    /\ UNCHANGED <<feed, reactor, stage, clients, provider, terminal, restarts>>

-----------------------------------------------------------------------------
(* The server dies and starts again: sessions, terminals, subscriptions    *)
(* and requests are gone, the log is not.  The reactor attaches and starts *)
(* its watermark at the head before the first command is accepted.         *)
Restart ==
    /\ restarts < MaxRestarts
    /\ restarts' = restarts + 1
    /\ UNCHANGED log
    /\ Feed!Restart
    /\ taken' = Len(log)
    /\ seen' = Len(log)
    /\ queue' = <<>>
    /\ active' = NoItem
    /\ outstanding' = 0
    /\ alive' = TRUE
    /\ stage' = "stop"
    /\ clients' = [c \in Clients |-> IdleClient]
    /\ reacted' = Len(log)
    /\ starting' = NoClaim
    /\ session' = NoClaim
    /\ terminal' = NoClaim
    /\ UNCHANGED interrupts

CreatorStep(c) ==
    \/ CreateAnswered(c)
    \/ FenceSeen(c)
    \/ FenceDrained(c)

ReactorStep ==
    \/ HandEvent \/ NoteSeen
    \/ TakeDeletion \/ StopSession \/ CloseTerminals \/ CleanupDone

Next ==
    \/ EngineStep
    \/ \E c \in Clients :
        \/ \E kind \in {"direct", "bootstrap"} : Create(c, kind)
        \/ CreatorStep(c)
        \/ OpenTerminal(c)
        \/ StartTurn(c)
        \/ BootstrapFails(c)
        \/ GiveUp(c)
    \/ Delete \/ VisitorStartsTurn \/ VisitorOpensTerminal
    \/ ResolveTurn \/ StartSession
    \/ ReactorStep \/ CleanupInterrupted
    \/ Restart

Spec == Init /\ [][Next]_vars

(* The runtime resumes every fiber that can go on: the engine's worker,    *)
(* the reactor's subscriber and worker, and waiting requests.              *)
FairSpec ==
    /\ Spec
    /\ WF_vars(EngineStep)
    /\ WF_vars(HandEvent \/ NoteSeen)
    /\ WF_vars(TakeDeletion \/ StopSession \/ CloseTerminals \/ CleanupDone)
    /\ \A c \in Clients : WF_vars(CreatorStep(c))

-----------------------------------------------------------------------------
(* Properties.                                                             *)

(* Every variable holds values of its type.                                *)
TypeOK ==
    /\ log \in Seq(Events)
    /\ head \in Nat
    /\ published \in Nat
    /\ taken \in Nat
    /\ seen \in Nat
    /\ queue \in Seq(Nat \ {0})
    /\ active \in Nat
    /\ outstanding \in Nat
    /\ alive \in BOOLEAN
    /\ stage \in {"stop", "close", "done"}
    /\ clients \in [Clients -> [phase : Phases, kind : {"direct", "bootstrap"}, fence : Nat]]
    /\ reacted \in Nat
    /\ starting \in Claims
    /\ session \in Claims
    /\ terminal \in Claims
    /\ restarts \in Nat
    /\ interrupts \in Nat

(* Deletions whose cleanup is still to come or not finished.               *)
Pending(d) ==
    \/ d > taken
    \/ \E i \in 1..Len(queue) : queue[i] = d
    \/ active = d

(* "Every delete for the prior incarnation committed before it.  Drain     *)
(* through that event": a client that was handed the thread has no         *)
(* deletion from before its creation left to be cleaned up.                *)
FenceHolds ==
    \A c \in Clients :
        clients[c].phase \in {"bootstrap", "owner"} =>
            \A d \in 1..clients[c].fence : log[d].type = "deleted" => ~Pending(d)

(* The worker's drain is worth waiting for, see DrainableWorker.           *)
DrainedMeansIdle == Worker!DrainedMeansIdle

(* The cleanup worker takes down what belongs to claim.                    *)
TakenDown(claim, newClaim) ==
    claim # NoClaim /\ newClaim = NoClaim /\ active # NoItem /\ active' = active

(* A cleanup never stops the session or closes the terminals of a client   *)
(* that waited at its fence, unless the thread was deleted after that      *)
(* client had created it.                                                  *)
OwnersUndisturbed ==
    [][ /\ TakenDown(session, session') /\ session.fenced => session.inc < active
        /\ TakenDown(terminal, terminal') /\ terminal.fenced => terminal.inc < active ]_vars

(* ThreadDeletionReactor's interface: "a successful thread.create sequence *)
(* is the fence callers use before the new incarnation can own runtime     *)
(* resources".  So no cleanup finds resources of a newer incarnation.      *)
NewIncarnationUndisturbed ==
    [][ /\ TakenDown(session, session') => session.inc < active
        /\ TakenDown(terminal, terminal') => terminal.inc < active ]_vars

(* A creator is not left waiting at the fence: deletions before, after and *)
(* during the wait only delay it, unless an interrupted cleanup has ended  *)
(* the worker.  It may give up, or the server restart.                     *)
AtFence(c) == clients[c].phase \in {"dispatched", "waiting", "draining"}
CreateReturns == \A c \in Clients : AtFence(c) ~> ~AtFence(c) \/ ~alive
=============================================================================
