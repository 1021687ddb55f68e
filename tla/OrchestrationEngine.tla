-------------------------- MODULE OrchestrationEngine --------------------------
(***************************************************************************)
(* The command engine of the server (apps/server/src/orchestration/        *)
(* Layers/OrchestrationEngine.ts): one worker fiber takes commands from a  *)
(* queue, answers a repeated command from its receipt, decides a new one   *)
(* against an in-memory read model, commits its events and its receipt in  *)
(* one SQLite transaction, publishes the events and resolves the caller's  *)
(* Deferred.  Storage may fail at every statement and the process may      *)
(* crash between any two steps; clients repeat commands whose answer they  *)
(* lost.                                                                   *)
(*                                                                         *)
(* The read model is represented by the events it reflects, which loses    *)
(* nothing: projector.ts is a fold.  It reflects them in two ways.  Those  *)
(* committed before the process started it has from the projection rows,   *)
(* whose threads are loaded with no messages, activities or checkpoints;   *)
(* those committed since were folded one by one.  The decider is given     *)
(* both parts and may tell them apart.  An event's sequence number is its  *)
(* position in the log, because AUTOINCREMENT is part of the transaction   *)
(* that a failure rolls back.                                              *)
(***************************************************************************)
EXTENDS Integers, Sequences

CONSTANTS
    Requests,      \* the commands clients submit (the whole command, not only its id)
    CommandIds,    \* values of command.commandId
    Aggregates,    \* projects and threads
    Bodies,        \* event payloads
    Decisions,     \* the payload sequences the decider may return
    IdOf,          \* IdOf[r]: the command id of r
    AggregateOf,   \* AggregateOf[r]: the aggregate r is aimed at
    Decide(_, _),  \* Decide(r, m): the decision on r in read model m, a record of the
                   \* events it has from rows and those folded; <<>> when refused
    Subscribers,   \* fibers reading streamDomainEvents
    ReplayLimit,   \* rows readFromSequence returns when no limit is given
    MaxCalls,      \* bound: calls of dispatch
    MaxCrashes     \* bound: process crashes

ASSUME ConstantsAssumption ==
    /\ IdOf \in [Requests -> CommandIds]
    /\ AggregateOf \in [Requests -> Aggregates]
    /\ Decisions \subseteq Seq(Bodies)
    /\ ReplayLimit \in Nat \ {0}
    /\ MaxCalls \in Nat
    /\ MaxCrashes \in Nat

VARIABLES
    log,          \* committed rows of orchestration_events
    receipts,     \* committed rows of orchestration_command_receipts
    txn,          \* events of the open transaction, then those just committed
    readModel,    \* the events commandReadModel reflects
    loaded,       \* how many of them it has from the projection rows
    queue,        \* commandQueue, as positions in calls
    calls,        \* one entry per dispatch: its command and its Deferred
    worker,       \* the worker fiber: phase, envelope and what it has computed
    outbox,       \* events the worker still has to publish
    feeds,        \* what each subscription has received, and from where
    crashes,      \* process crashes so far
    boots         \* history: the lengths the log had when a process started

vars == <<log, receipts, txn, readModel, loaded, queue, calls, worker, outbox, feeds, crashes,
          boots>>

Events == [seq : Nat \ {0}, req : Requests, body : Bodies]

NoReceipt == [status |-> "none"]
Receipts == {NoReceipt}
    \cup [status : {"accepted", "rejected"}, aggregate : Aggregates, seq : Nat]

Waiting == [kind |-> "waiting"]
Failures == {"invariant", "storage", "rejected", "conflict", "lost"}
Answers == {Waiting} \cup [kind : {"ok"}, seq : Nat] \cup [kind : Failures]

Phases == {"down", "idle", "lookup", "append", "committed", "publish",
           "reconcile", "republish", "record", "fail"}
IdleWorker == [phase |-> "idle", call |-> 0, start |-> 0, todo |-> <<>>, failure |-> "none"]

(* commandReadModel.snapshotSequence, the value latestSequence returns.    *)
SnapshotSequence(model) == IF model = <<>> THEN 0 ELSE model[Len(model)].seq

(* A read model that has the first n events from rows and folded the rest. *)
ReadModelOf(events, n) ==
    [rows   |-> SubSeq(events, 1, n),
     folded |-> SubSeq(events, n + 1, Len(events))]

(* commandReadModel as the decider sees it.                                *)
CommandReadModel == ReadModelOf(readModel, loaded)

(* The command of the envelope the worker holds.                           *)
CurrentRequest == calls[worker.call].req
CurrentReceipt == receipts[IdOf[CurrentRequest]]

-----------------------------------------------------------------------------
Init ==
    /\ log = <<>>
    /\ receipts = [id \in CommandIds |-> NoReceipt]
    /\ txn = <<>>
    /\ readModel = <<>>
    /\ loaded = 0
    /\ queue = <<>>
    /\ calls = <<>>
    /\ worker = IdleWorker
    /\ outbox = <<>>
    /\ feeds = [s \in Subscribers |-> [open |-> FALSE, from |-> 0, got |-> <<>>]]
    /\ crashes = 0
    /\ boots = {0}

(* dispatch: a new envelope with a fresh Deferred.  A client that lost an  *)
(* answer submits the same command again.                                  *)
Dispatch(r) ==
    /\ worker.phase # "down"
    /\ Len(calls) < MaxCalls
    /\ calls' = Append(calls, [req |-> r, answer |-> Waiting])
    /\ queue' = Append(queue, Len(calls) + 1)
    /\ UNCHANGED <<log, receipts, txn, readModel, worker, outbox, feeds, crashes, loaded, boots>>

(* streamDomainEvents: each access opens a subscription of its own, which  *)
(* sees what is published from now on.                                     *)
Subscribe(s) ==
    /\ worker.phase # "down"
    /\ ~feeds[s].open
    /\ feeds' = [feeds EXCEPT ![s] =
                    [open |-> TRUE, from |-> SnapshotSequence(readModel) - Len(outbox), got |-> <<>>]]
    /\ UNCHANGED <<log, receipts, txn, readModel, queue, calls, worker, outbox, crashes, loaded, boots>>

-----------------------------------------------------------------------------
(* processEnvelope.                                                        *)

TakeCommand ==
    /\ worker.phase = "idle"
    /\ queue # <<>>
    /\ queue' = Tail(queue)
    /\ worker' = [phase |-> "lookup", call |-> Head(queue), start |-> SnapshotSequence(readModel),
                  todo |-> <<>>, failure |-> "none"]
    /\ UNCHANGED <<log, receipts, txn, readModel, calls, outbox, feeds, crashes, loaded, boots>>

(* Deferred.succeed / Deferred.fail, after which the worker takes the next *)
(* envelope.                                                               *)
Answer_OkOnly(a) ==              \* mutant: a failed command leaves its Deferred pending
    /\ calls' = IF a.kind = "ok" THEN [calls EXCEPT ![worker.call].answer = a] ELSE calls
    /\ worker' = IdleWorker

Answer(a) ==
    /\ calls' = [calls EXCEPT ![worker.call].answer = a]
    /\ worker' = IdleWorker

(* Any failure but a repeated or conflicting command id goes through the   *)
(* reconciliation of the read model.                                       *)
FailWith(kind) == worker' = [worker EXCEPT !.phase = "reconcile", !.failure = kind]

(* A receipt answers its command, unless the command id was used for       *)
(* another aggregate.                                                      *)
ReceiptAnswer_AnyAggregate ==    \* mutant: the aggregate is not compared
    IF CurrentReceipt.status = "accepted"
    THEN [kind |-> "ok", seq |-> CurrentReceipt.seq]
    ELSE [kind |-> "rejected"]
ReceiptAnswer ==
    IF CurrentReceipt.aggregate # AggregateOf[CurrentRequest]
    THEN [kind |-> "conflict"]
    ELSE IF CurrentReceipt.status = "accepted"
         THEN [kind |-> "ok", seq |-> CurrentReceipt.seq]
         ELSE [kind |-> "rejected"]

(* The command was not handled before, as far as its receipt tells.        *)
Unhandled == CurrentReceipt = NoReceipt

AnswerFromReceipt ==
    /\ worker.phase = "lookup"
    /\ CurrentReceipt # NoReceipt
    /\ Answer(ReceiptAnswer)
    /\ UNCHANGED <<log, receipts, txn, readModel, queue, outbox, feeds, crashes, loaded, boots>>

(* No receipt: the decider runs on the read model.  A refusal and a        *)
(* decision without events both end in an invariant error.                 *)
DecideCommand ==
    /\ worker.phase = "lookup"
    /\ Unhandled
    /\ LET decision == Decide(CurrentRequest, CommandReadModel) IN
        /\ decision \in Decisions
        /\ IF decision = <<>>
           THEN FailWith("invariant")
           ELSE worker' = [worker EXCEPT !.phase = "append", !.todo = decision]
    /\ UNCHANGED <<log, receipts, txn, readModel, queue, calls, outbox, feeds, crashes, loaded, boots>>

(* The random source that makes event ids fails; the engine reports it as  *)
(* an invariant error of the command.                                      *)
EventIdFails ==
    /\ worker.phase = "lookup"
    /\ Unhandled
    /\ FailWith("invariant")
    /\ UNCHANGED <<log, receipts, txn, readModel, queue, calls, outbox, feeds, crashes, loaded, boots>>

(* One iteration of the loop in the transaction: the row is inserted and   *)
(* every projector runs, all inside the open transaction.                  *)
AppendEvent ==
    /\ worker.phase = "append"
    /\ worker.todo # <<>>
    /\ txn' = Append(txn, [seq  |-> Len(log) + Len(txn) + 1,
                           req  |-> CurrentRequest,
                           body |-> Head(worker.todo)])
    /\ worker' = [worker EXCEPT !.todo = Tail(@)]
    /\ UNCHANGED <<log, receipts, readModel, queue, calls, outbox, feeds, crashes, loaded, boots>>

(* The accepted receipt joins the transaction, which commits.              *)
CommitTransaction ==
    /\ worker.phase = "append"
    /\ worker.todo = <<>>
    /\ log' = log \o txn
    /\ receipts' = [receipts EXCEPT ![IdOf[CurrentRequest]] =
                        [status |-> "accepted",
                         aggregate |-> AggregateOf[CurrentRequest],
                         seq |-> SnapshotSequence(txn)]]
    /\ worker' = [worker EXCEPT !.phase = "committed"]
    /\ UNCHANGED <<txn, readModel, queue, calls, outbox, feeds, crashes, loaded, boots>>

StorageFails_KeepsModel ==       \* mutant: events are folded into the shared model as they are
    /\ worker.phase \in {"lookup", "append"}      \* appended, and a rollback leaves them there
    /\ readModel' = readModel \o txn
    /\ txn' = <<>>
    /\ worker' = [worker EXCEPT !.phase = "reconcile", !.failure = "storage", !.todo = <<>>]
    /\ UNCHANGED <<log, receipts, queue, calls, outbox, feeds, crashes, loaded, boots>>

StorageFails_NoTransaction ==    \* mutant: each row is committed by itself
    /\ worker.phase \in {"lookup", "append"}
    /\ log' = log \o txn
    /\ txn' = <<>>
    /\ worker' = [worker EXCEPT !.phase = "reconcile", !.failure = "storage", !.todo = <<>>]
    /\ UNCHANGED <<receipts, readModel, queue, calls, outbox, feeds, crashes, loaded, boots>>

(* The receipt lookup fails, or a statement, a projector or the COMMIT of  *)
(* the transaction fails: SQLite rolls everything back.                    *)
StorageFails ==
    /\ worker.phase \in {"lookup", "append"}
    /\ txn' = <<>>
    /\ worker' = [worker EXCEPT !.phase = "reconcile", !.failure = "storage", !.todo = <<>>]
    /\ UNCHANGED <<log, receipts, readModel, queue, calls, outbox, feeds, crashes, loaded, boots>>

(* The model computed inside the transaction.                              *)
NextReadModel_Dropped ==         \* mutant: the projected model is not installed
    readModel
NextReadModel == readModel \o txn

(* commandReadModel becomes the model computed inside the transaction.     *)
AdvanceReadModel ==
    /\ worker.phase = "committed"
    /\ readModel' = NextReadModel
    /\ outbox' = txn
    /\ txn' = <<>>
    /\ worker' = [worker EXCEPT !.phase = "publish"]
    /\ UNCHANGED <<log, receipts, queue, calls, feeds, crashes, loaded, boots>>

(* What is left to publish after the first event of the outbox.            *)
Unpublished_FirstOnly == <<>>    \* mutant: one event is published per command
Unpublished == Tail(outbox)

(* PubSub.publish: every open subscription gets the event.                 *)
PublishEvent ==
    /\ worker.phase \in {"publish", "republish"}
    /\ outbox # <<>>
    /\ outbox' = Unpublished
    /\ feeds' = [s \in Subscribers |->
                    IF feeds[s].open
                    THEN [feeds[s] EXCEPT !.got = Append(@, Head(outbox))]
                    ELSE feeds[s]]
    /\ UNCHANGED <<log, receipts, txn, readModel, queue, calls, worker, crashes, loaded, boots>>

AnswerAccepted_BeforePublishing ==  \* mutant: the answer does not wait for the publication
    /\ worker.phase = "publish"
    /\ Answer([kind |-> "ok", seq |-> SnapshotSequence(readModel)])
    /\ UNCHANGED <<log, receipts, txn, readModel, queue, outbox, feeds, crashes, loaded, boots>>

AnswerAccepted ==
    /\ worker.phase = "publish"
    /\ outbox = <<>>
    /\ Answer([kind |-> "ok", seq |-> SnapshotSequence(readModel)])
    /\ UNCHANGED <<log, receipts, txn, readModel, queue, outbox, feeds, crashes, loaded, boots>>

-----------------------------------------------------------------------------
(* The failure path of processEnvelope.                                    *)

(* The rows after n, as readFromSequence returns them.                     *)
PersistedAfter(n) ==
    SubSeq(log, n + 1, IF n + ReplayLimit < Len(log) THEN n + ReplayLimit ELSE Len(log))

(* reconcileReadModelAfterDispatchFailure: rows found after the sequence   *)
(* the envelope started from are folded and published.                     *)
Reconcile ==
    /\ worker.phase = "reconcile"
    /\ readModel' = readModel \o PersistedAfter(worker.start)
    /\ outbox' = PersistedAfter(worker.start)
    /\ worker' = [worker EXCEPT !.phase = "republish"]
    /\ UNCHANGED <<log, receipts, txn, queue, calls, feeds, crashes, loaded, boots>>

(* Reading the rows fails: a warning is logged, nothing else changes.      *)
ReconcileFails ==
    /\ worker.phase = "reconcile"
    /\ worker' = [worker EXCEPT !.phase = "republish"]
    /\ UNCHANGED <<log, receipts, txn, readModel, queue, calls, outbox, feeds, crashes, loaded, boots>>

RepublishDone ==
    /\ worker.phase = "republish"
    /\ outbox = <<>>
    /\ worker' = [worker EXCEPT !.phase = IF worker.failure = "invariant" THEN "record" ELSE "fail"]
    /\ UNCHANGED <<log, receipts, txn, readModel, queue, calls, outbox, feeds, crashes, loaded, boots>>

(* The upsert of the rejected receipt overwrites whatever the id has.      *)
RecordRejection ==
    /\ worker.phase = "record"
    /\ receipts' = [receipts EXCEPT ![IdOf[CurrentRequest]] =
                        [status |-> "rejected",
                         aggregate |-> AggregateOf[CurrentRequest],
                         seq |-> SnapshotSequence(readModel)]]
    /\ worker' = [worker EXCEPT !.phase = "fail"]
    /\ UNCHANGED <<log, txn, readModel, queue, calls, outbox, feeds, crashes, loaded, boots>>

(* The upsert fails and the failure is swallowed.                          *)
RejectionNotRecorded ==
    /\ worker.phase = "record"
    /\ worker' = [worker EXCEPT !.phase = "fail"]
    /\ UNCHANGED <<log, receipts, txn, readModel, queue, calls, outbox, feeds, crashes, loaded, boots>>

AnswerFailure ==
    /\ worker.phase = "fail"
    /\ Answer([kind |-> worker.failure])
    /\ UNCHANGED <<log, receipts, txn, readModel, queue, outbox, feeds, crashes, loaded, boots>>

-----------------------------------------------------------------------------
(* The process dies: the open transaction, the queue, every Deferred and   *)
(* every subscription go with it.                                          *)
Crash ==
    /\ worker.phase # "down"
    /\ crashes < MaxCrashes
    /\ crashes' = crashes + 1
    /\ worker' = [IdleWorker EXCEPT !.phase = "down"]
    /\ txn' = <<>>
    /\ queue' = <<>>
    /\ outbox' = <<>>
    /\ calls' = [c \in 1..Len(calls) |->
                    IF calls[c].answer = Waiting
                    THEN [calls[c] EXCEPT !.answer = [kind |-> "lost"]]
                    ELSE calls[c]]
    /\ feeds' = [s \in Subscribers |-> [open |-> FALSE, from |-> 0, got |-> <<>>]]
    /\ UNCHANGED <<log, receipts, readModel, loaded, boots>>

(* bootstrap brings the projections up to the log, getCommandReadModel     *)
(* loads their rows, and the worker is forked: nothing is folded yet.      *)
Boot ==
    /\ worker.phase = "down"
    /\ readModel' = log
    /\ loaded' = Len(log)
    /\ boots' = boots \cup {Len(log)}
    /\ worker' = IdleWorker
    /\ UNCHANGED <<log, receipts, txn, queue, calls, outbox, feeds, crashes>>

WorkerStep ==
    \/ TakeCommand \/ AnswerFromReceipt \/ DecideCommand \/ EventIdFails
    \/ AppendEvent \/ CommitTransaction \/ StorageFails
    \/ AdvanceReadModel \/ PublishEvent \/ AnswerAccepted
    \/ Reconcile \/ ReconcileFails \/ RepublishDone
    \/ RecordRejection \/ RejectionNotRecorded \/ AnswerFailure

Next ==
    \/ \E r \in Requests : Dispatch(r)
    \/ \E s \in Subscribers : Subscribe(s)
    \/ WorkerStep
    \/ Crash
    \/ Boot

Spec == Init /\ [][Next]_vars

(* The runtime always resumes the worker fiber, and the process is started *)
(* again after a crash.                                                    *)
FairSpec == Spec /\ WF_vars(WorkerStep) /\ WF_vars(Boot)

-----------------------------------------------------------------------------
(* Properties.                                                             *)

(* Every variable holds values of its type.                                *)
TypeOK ==
    /\ log \in Seq(Events)
    /\ receipts \in [CommandIds -> Receipts]
    /\ txn \in Seq(Events)
    /\ readModel \in Seq(Events)
    /\ loaded \in Nat
    /\ queue \in Seq(Nat \ {0})
    /\ calls \in Seq([req : Requests, answer : Answers])
    /\ worker \in [phase : Phases, call : Nat, start : Nat, todo : Seq(Bodies),
                   failure : {"none", "invariant", "storage"}]
    /\ outbox \in Seq(Events)
    /\ feeds \in [Subscribers -> [open : BOOLEAN, from : Int, got : Seq(Events)]]
    /\ crashes \in Nat
    /\ boots \subseteq Nat

(* The positions of the log that hold events of a command id.              *)
EventsOf(id) == {i \in 1..Len(log) : IdOf[log[i].req] = id}

(* A command id has events in the log exactly when its receipt says        *)
(* accepted, the receipt names the last of them, they are contiguous and   *)
(* come from one command: no crash, failed statement or repeated call      *)
(* leaves a half-written command or writes one twice.                      *)
ReceiptsMatchLog ==
    \A id \in CommandIds :
        IF receipts[id].status = "accepted"
        THEN /\ receipts[id].seq \in EventsOf(id)
             /\ \A i \in EventsOf(id) :
                    /\ i <= receipts[id].seq
                    /\ i..receipts[id].seq \subseteq EventsOf(id)
                    /\ log[i].req = log[receipts[id].seq].req
                    /\ AggregateOf[log[i].req] = receipts[id].aggregate
        ELSE EventsOf(id) = {}

(* The bodies of positions i to j of the log.                              *)
BodiesIn(i, j) == [k \in 1..(j - i + 1) |-> log[i + k - 1].body]

(* Serial equivalence: the events of an accepted command are the decision  *)
(* on exactly the events committed before them, of which those older than  *)
(* the start of the deciding process are known by their rows only and the  *)
(* others are all folded.  The decider never saw a stale model, one with   *)
(* rolled-back events, or one missing committed ones.                      *)
DecidedOnCommittedState ==
    \A i \in 1..Len(log) :
        LET id == IdOf[log[i].req]
            startsBatch == i = 1 \/ IdOf[log[i - 1].req] # id
        IN startsBatch =>
            \A b \in boots :
                (b < i /\ \A c \in boots : c < i => c <= b) =>
                    BodiesIn(i, receipts[id].seq) =
                        Decide(log[i].req, ReadModelOf(SubSeq(log, 1, i - 1), b))

(* What a caller is told is true: "ok" names the last event of a committed *)
(* command aimed at the caller's aggregate; "rejected", which says that    *)
(* the command was refused before, is only said of a command with no       *)
(* event; "conflict" only of an id that belongs to another aggregate.      *)
AnswersAreTruthful ==
    \A c \in 1..Len(calls) :
        LET r == calls[c].req
            receipt == receipts[IdOf[r]]
            answer == calls[c].answer
        IN /\ answer.kind = "ok" =>
                 receipt = [status |-> "accepted", aggregate |-> AggregateOf[r], seq |-> answer.seq]
           /\ answer.kind = "rejected" => receipt.status = "rejected"
           /\ answer.kind = "conflict" =>
                 receipt # NoReceipt /\ receipt.aggregate # AggregateOf[r]

(* The read model reflects the committed log, but for the batch just       *)
(* committed whose model the worker is about to install: "a plain property *)
(* read is a consistent, committed value".  It has from rows what was      *)
(* committed when this process started, and folded all that came after.    *)
ReadModelReflectsLog ==
    worker.phase # "down" =>
        /\ log = IF worker.phase = "committed" THEN readModel \o txn ELSE readModel
        /\ loaded \in boots
        /\ \A b \in boots : b <= loaded

(* streamDomainEvents delivers persisted events in dispatch order: a       *)
(* subscription has received every event published since it was opened,    *)
(* once, in log order and with nothing left out.                           *)
FeedComplete ==
    \A s \in Subscribers :
        feeds[s].open =>
            feeds[s].got = SubSeq(log, feeds[s].from + 1, SnapshotSequence(readModel) - Len(outbox))

(* The engine implements the feed its subscribers rely on.                 *)
Feed == INSTANCE EventFeed WITH
    committed <- Len(log),
    head      <- SnapshotSequence(readModel),
    published <- SnapshotSequence(readModel) - Len(outbox)

FeedSpec == Feed!FeedSpec

(* Every call of dispatch is answered, unless the process crashes first.   *)
CallsAreAnswered ==
    \A c \in 1..MaxCalls :
        (c <= Len(calls) /\ calls[c].answer = Waiting)
            ~> (c <= Len(calls) /\ calls[c].answer # Waiting)
=============================================================================
