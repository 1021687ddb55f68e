------------------------ MODULE OrchestrationEngineProofs ------------------------
(***************************************************************************)
(* Proofs about OrchestrationEngine, for every set of commands, decider,   *)
(* set of subscribers and bound.                                           *)
(***************************************************************************)
EXTENDS OrchestrationEngine, SequenceTheorems, TLAPS

(* The worker holds a call that exists whenever it is busy, the queue only *)
(* names calls that exist, and a failing envelope has a reason to give.    *)
EnvelopesExist ==
    /\ \A i \in 1..Len(queue) : queue[i] \in 1..Len(calls)
    /\ worker.phase \notin {"idle", "down"} => worker.call \in 1..Len(calls)
    /\ worker.phase \in {"reconcile", "republish", "record", "fail"} =>
            worker.failure \in {"invariant", "storage"}

TypeInv == TypeOK /\ EnvelopesExist

(* Initially every variable is empty, so of its type.                      *)
LEMMA InitTypeInv == Init => TypeInv
<1> SUFFICES ASSUME Init PROVE TypeInv
  OBVIOUS
<1>1. TypeOK
  BY DEF Init, TypeOK, IdleWorker, Phases, Receipts
<1>2. EnvelopesExist
  BY DEF Init, EnvelopesExist, IdleWorker
<1> QED BY <1>1, <1>2 DEF TypeInv

(* The request and the receipt of a busy worker have their types.          *)
LEMMA CurrentTypes ==
  ASSUME TypeInv, worker.phase \notin {"idle", "down"}
  PROVE  /\ CurrentRequest \in Requests
         /\ IdOf[CurrentRequest] \in CommandIds
         /\ AggregateOf[CurrentRequest] \in Aggregates
         /\ CurrentReceipt \in Receipts
<1>1. calls \in Seq([req : Requests, answer : Answers]) /\ worker.call \in 1..Len(calls)
  BY DEF TypeInv, TypeOK, EnvelopesExist
<1>2. calls[worker.call] \in [req : Requests, answer : Answers]
  BY <1>1, ElementOfSeq
<1>3. CurrentRequest \in Requests
  BY <1>2 DEF CurrentRequest
<1>4. IdOf[CurrentRequest] \in CommandIds /\ AggregateOf[CurrentRequest] \in Aggregates
  BY <1>3, ConstantsAssumption
<1>5. CurrentReceipt \in Receipts
  BY <1>4 DEF TypeInv, TypeOK, CurrentReceipt
<1> QED BY <1>3, <1>4, <1>5

(* The sequence number of a model is a natural number.                     *)
LEMMA SnapshotSequenceType ==
  ASSUME NEW model \in Seq(Events)
  PROVE  SnapshotSequence(model) \in Nat
<1>1. CASE model = <<>>
  BY <1>1 DEF SnapshotSequence
<1>2. CASE model # <<>>
  <2>1. Len(model) \in 1..Len(model)
    BY <1>2, EmptySeq
  <2>2. model[Len(model)] \in Events
    BY <2>1, ElementOfSeq
  <2> QED BY <1>2, <2>2 DEF SnapshotSequence, Events
<1> QED BY <1>1, <1>2

(* Answering a call keeps the calls and their number.                      *)
LEMMA AnswerTypes ==
  ASSUME TypeInv, worker.phase \notin {"idle", "down"},
         NEW a \in Answers, Answer(a)
  PROVE  /\ calls' \in Seq([req : Requests, answer : Answers])
         /\ Len(calls') = Len(calls)
         /\ worker' = IdleWorker
<1> DEFINE entry == [calls[worker.call] EXCEPT !.answer = a]
<1>1. worker.call \in 1..Len(calls)
  BY DEF TypeInv, EnvelopesExist
<1>2. calls \in Seq([req : Requests, answer : Answers])
  BY DEF TypeInv, TypeOK
<1>3. entry \in [req : Requests, answer : Answers]
  <2>1. calls[worker.call] \in [req : Requests, answer : Answers]
    BY <1>1, <1>2, ElementOfSeq
  <2> QED BY <2>1
<1>4. calls' = [calls EXCEPT ![worker.call] = entry]
  BY DEF Answer
<1> QED BY <1>1, <1>2, <1>3, <1>4, ExceptSeq DEF Answer

(* Rows read from the log are events.                                      *)
LEMMA PersistedAfterType ==
  ASSUME TypeInv, NEW n \in Nat
  PROVE  PersistedAfter(n) \in Seq(Events)
<1> DEFINE last == IF n + ReplayLimit < Len(log) THEN n + ReplayLimit ELSE Len(log)
<1>1. log \in Seq(Events) /\ Len(log) \in Nat /\ last \in Int
  BY ConstantsAssumption DEF TypeInv, TypeOK
<1>2. \A i \in n + 1 .. last : log[i] \in Events
  BY <1>1, ConstantsAssumption
<1>3. SubSeq(log, n + 1, last) \in Seq(Events)
  BY <1>1, <1>2, SubSeqProperties
<1> QED BY <1>3 DEF PersistedAfter

(* A function on 1..n is a sequence of length n.                           *)
LEMMA FunctionIsSeq ==
  ASSUME NEW S, NEW n \in Nat, NEW f \in [1..n -> S]
  PROVE  f \in Seq(S) /\ Len(f) = n
<1>1. f \in Seq(S)
  BY SeqDef
<1>2. DOMAIN f = 1..n /\ DOMAIN f = 1..Len(f) /\ Len(f) \in Nat
  BY <1>1, LenProperties
<1> QED BY <1>1, <1>2

(* Every action keeps the types: one step per action.                      *)
LEMMA NextTypeInv == TypeInv /\ [Next]_vars => TypeInv'
<1> SUFFICES ASSUME TypeInv, [Next]_vars PROVE TypeInv'
  OBVIOUS
<1> USE DEF TypeInv, TypeOK, EnvelopesExist
<1>1. ASSUME NEW r \in Requests, Dispatch(r) PROVE TypeInv'
  <2> DEFINE call == [req |-> r, answer |-> Waiting]
  <2>1. call \in [req : Requests, answer : Answers]
    BY DEF Answers
  <2>2. /\ calls' \in Seq([req : Requests, answer : Answers])
        /\ Len(calls') = Len(calls) + 1
    BY <1>1, <2>1, AppendProperties DEF Dispatch
  <2>3. Len(calls) + 1 \in Nat \ {0} /\ Len(calls) \in Nat
    OBVIOUS
  <2>4. /\ queue' \in Seq(Nat \ {0})
        /\ \A i \in 1..Len(queue') : queue'[i] \in 1..Len(calls')
    <3>1. queue' = Append(queue, Len(calls) + 1)
      BY <1>1 DEF Dispatch
    <3> QED BY SMTT(40), <2>2, <2>3, <3>1, AppendProperties
  <2> QED BY <1>1, <2>2, <2>3, <2>4 DEF Dispatch
<1>2. ASSUME NEW s \in Subscribers, Subscribe(s) PROVE TypeInv'
  <2>1. SnapshotSequence(readModel) - Len(outbox) \in Int /\ <<>> \in Seq(Events)
    BY SnapshotSequenceType
  <2> QED BY <1>2, <2>1 DEF Subscribe
<1>3. ASSUME TakeCommand PROVE TypeInv'
  <2>1. Tail(queue) \in Seq(Nat \ {0}) /\ Head(queue) \in 1..Len(calls)
    BY <1>3, HeadTailProperties DEF TakeCommand
  <2>2. \A i \in 1..Len(Tail(queue)) : Tail(queue)[i] \in 1..Len(calls)
    BY <1>3, HeadTailProperties DEF TakeCommand
  <2>3. SnapshotSequence(readModel) \in Nat
    BY SnapshotSequenceType
  <2> QED BY <1>3, <2>1, <2>2, <2>3 DEF TakeCommand, Phases
<1>4. ASSUME AnswerFromReceipt PROVE TypeInv'
  <2>1. ReceiptAnswer \in Answers
    BY <1>4, CurrentTypes DEF AnswerFromReceipt, ReceiptAnswer, Answers, Failures, Receipts, NoReceipt
  <2>2. /\ calls' \in Seq([req : Requests, answer : Answers])
        /\ Len(calls') = Len(calls) /\ worker' = IdleWorker
    BY <1>4, <2>1, AnswerTypes DEF AnswerFromReceipt
  <2> QED BY <1>4, <2>2 DEF AnswerFromReceipt, IdleWorker, Phases
<1>5. ASSUME DecideCommand PROVE TypeInv'
  <2>1. Decisions \subseteq Seq(Bodies)
    BY ConstantsAssumption
  <2> QED BY <1>5, <2>1 DEF DecideCommand, FailWith, Phases
<1>6. ASSUME EventIdFails PROVE TypeInv'
  BY <1>6 DEF EventIdFails, FailWith, Phases
<1>7. ASSUME AppendEvent PROVE TypeInv'
  <2> DEFINE event == [seq |-> Len(log) + Len(txn) + 1, req |-> CurrentRequest,
                       body |-> Head(worker.todo)]
  <2>1. Head(worker.todo) \in Bodies /\ Tail(worker.todo) \in Seq(Bodies)
    BY <1>7, HeadTailProperties DEF AppendEvent
  <2>2. event \in Events
    <3>1. CurrentRequest \in Requests
      BY <1>7, CurrentTypes DEF AppendEvent
    <3>2. Len(log) + Len(txn) + 1 \in Nat \ {0}
      OBVIOUS
    <3> QED BY <2>1, <3>1, <3>2 DEF Events
  <2>3. txn' \in Seq(Events)
    BY <1>7, <2>2, AppendProperties DEF AppendEvent
  <2> QED BY <1>7, <2>1, <2>3 DEF AppendEvent, Phases
<1>8. ASSUME CommitTransaction PROVE TypeInv'
  <2> DEFINE receipt == [status |-> "accepted", aggregate |-> AggregateOf[CurrentRequest],
                         seq |-> SnapshotSequence(txn)]
  <2>1. receipt \in Receipts
    BY <1>8, CurrentTypes, SnapshotSequenceType DEF CommitTransaction, Receipts
  <2>2. receipts' \in [CommandIds -> Receipts]
    BY <1>8, <2>1, CurrentTypes DEF CommitTransaction
  <2>3. log' \in Seq(Events)
    <3>1. log \in Seq(Events) /\ txn \in Seq(Events)
      OBVIOUS
    <3>2. log \o txn \in Seq(Events)
      BY <3>1, ConcatProperties
    <3> QED BY <1>8, <3>2 DEF CommitTransaction
  <2> QED BY <1>8, <2>2, <2>3 DEF CommitTransaction, Phases
<1>9. ASSUME StorageFails PROVE TypeInv'
  <2>1. <<>> \in Seq(Bodies) /\ <<>> \in Seq(Events)
    OBVIOUS
  <2>2. worker' \in [phase : Phases, call : Nat, start : Nat, todo : Seq(Bodies),
                     failure : {"none", "invariant", "storage"}]
    BY <1>9, <2>1 DEF StorageFails, Phases
  <2> QED BY <1>9, <2>1, <2>2 DEF StorageFails
<1>10. ASSUME AdvanceReadModel PROVE TypeInv'
  <2>1. readModel' \in Seq(Events)
    BY <1>10, ConcatProperties DEF AdvanceReadModel, NextReadModel
  <2>2. <<>> \in Seq(Events)
    OBVIOUS
  <2>3. worker' \in [phase : Phases, call : Nat, start : Nat, todo : Seq(Bodies),
                     failure : {"none", "invariant", "storage"}]
    BY <1>10 DEF AdvanceReadModel, Phases
  <2> QED BY <1>10, <2>1, <2>2, <2>3 DEF AdvanceReadModel
<1>11. ASSUME PublishEvent PROVE TypeInv'
  <2>1. Head(outbox) \in Events /\ Tail(outbox) \in Seq(Events)
    BY <1>11, HeadTailProperties DEF PublishEvent
  <2>2. \A s \in Subscribers : Append(feeds[s].got, Head(outbox)) \in Seq(Events)
    BY <2>1, AppendProperties
  <2>3. feeds' \in [Subscribers -> [open : BOOLEAN, from : Int, got : Seq(Events)]]
    BY <1>11, <2>2 DEF PublishEvent
  <2> QED BY <1>11, <2>1, <2>3 DEF PublishEvent, Unpublished
<1>12. ASSUME AnswerAccepted PROVE TypeInv'
  <2>1. [kind |-> "ok", seq |-> SnapshotSequence(readModel)] \in Answers
    BY SnapshotSequenceType DEF Answers
  <2>2. /\ calls' \in Seq([req : Requests, answer : Answers])
        /\ Len(calls') = Len(calls) /\ worker' = IdleWorker
    BY <1>12, <2>1, AnswerTypes DEF AnswerAccepted
  <2> QED BY <1>12, <2>2 DEF AnswerAccepted, IdleWorker, Phases
<1>13. ASSUME Reconcile PROVE TypeInv'
  <2>1. PersistedAfter(worker.start) \in Seq(Events)
    BY PersistedAfterType
  <2>2. readModel' \in Seq(Events) /\ outbox' \in Seq(Events)
    BY <1>13, <2>1, ConcatProperties DEF Reconcile
  <2> QED BY <1>13, <2>2 DEF Reconcile, Phases
<1>14. ASSUME ReconcileFails PROVE TypeInv'
  BY <1>14 DEF ReconcileFails, Phases
<1>15. ASSUME RepublishDone PROVE TypeInv'
  BY <1>15 DEF RepublishDone, Phases
<1>16. ASSUME RecordRejection PROVE TypeInv'
  <2> DEFINE receipt == [status |-> "rejected", aggregate |-> AggregateOf[CurrentRequest],
                         seq |-> SnapshotSequence(readModel)]
  <2>1. receipt \in Receipts
    BY <1>16, CurrentTypes, SnapshotSequenceType DEF RecordRejection, Receipts
  <2>2. receipts' \in [CommandIds -> Receipts]
    BY <1>16, <2>1, CurrentTypes DEF RecordRejection
  <2> QED BY <1>16, <2>2 DEF RecordRejection, Phases
<1>17. ASSUME RejectionNotRecorded PROVE TypeInv'
  BY <1>17 DEF RejectionNotRecorded, Phases
<1>18. ASSUME AnswerFailure PROVE TypeInv'
  <2>1. [kind |-> worker.failure] \in Answers
    BY <1>18 DEF AnswerFailure, Answers, Failures
  <2>2. /\ calls' \in Seq([req : Requests, answer : Answers])
        /\ Len(calls') = Len(calls) /\ worker' = IdleWorker
    BY <1>18, <2>1, AnswerTypes DEF AnswerFailure
  <2> QED BY <1>18, <2>2 DEF AnswerFailure, IdleWorker, Phases
<1>19. ASSUME Crash PROVE TypeInv'
  <2> DEFINE Entry == [req : Requests, answer : Answers]
             lost(c) == IF calls[c].answer = Waiting
                        THEN [calls[c] EXCEPT !.answer = [kind |-> "lost"]]
                        ELSE calls[c]
  <2>1. \A c \in 1..Len(calls) : calls[c] \in Entry
    BY ElementOfSeq
  <2>2. [kind |-> "lost"] \in Answers
    BY DEF Answers, Failures
  <2>3. \A c \in 1..Len(calls) : lost(c) \in Entry
    BY <2>1, <2>2
  <2>4. calls' = [c \in 1..Len(calls) |-> lost(c)] /\ Len(calls) \in Nat
    BY <1>19 DEF Crash
  <2>5. calls' \in Seq(Entry) /\ Len(calls') = Len(calls)
    <3> HIDE DEF lost, Entry, TypeInv, TypeOK, EnvelopesExist
    <3>1. calls' \in [1..Len(calls) -> Entry]
      BY <2>3, <2>4
    <3> QED BY <2>4, <3>1, FunctionIsSeq
  <2>6. <<>> \in Seq(Events) /\ <<>> \in Seq(Bodies) /\ <<>> \in Seq(Nat \ {0})
    OBVIOUS
  <2>7. feeds' \in [Subscribers -> [open : BOOLEAN, from : Int, got : Seq(Events)]]
    BY <1>19, <2>6 DEF Crash
  <2>8. worker' \in [phase : Phases, call : Nat, start : Nat, todo : Seq(Bodies),
                     failure : {"none", "invariant", "storage"}]
    BY <1>19, <2>6 DEF Crash, IdleWorker, Phases
  <2>9. TypeOK'
    <3>1. /\ txn' = <<>> /\ queue' = <<>> /\ outbox' = <<>>
          /\ log' = log /\ receipts' = receipts /\ readModel' = readModel
          /\ loaded' = loaded /\ boots' = boots
          /\ crashes' \in Nat
      BY <1>19 DEF Crash
    <3> QED BY <2>5, <2>6, <2>7, <2>8, <3>1
  <2>10. EnvelopesExist'
    <3>1. queue' = <<>> /\ worker'.phase = "down"
      BY <1>19 DEF Crash, IdleWorker
    <3>2. Len(queue') = 0
      BY <3>1
    <3> QED BY <3>1, <3>2
  <2> HIDE DEF TypeOK, EnvelopesExist
  <2> QED BY <2>9, <2>10
<1>20. ASSUME Boot PROVE TypeInv'
  <2>1. Len(log) \in Nat
    OBVIOUS
  <2>2. loaded' \in Nat /\ boots' \subseteq Nat
    BY <1>20, <2>1 DEF Boot
  <2> QED BY <1>20, <2>2 DEF Boot, IdleWorker, Phases
<1>21. ASSUME UNCHANGED vars PROVE TypeInv'
  BY <1>21 DEF vars, CurrentRequest
<1> QED
  BY <1>1, <1>2, <1>3, <1>4, <1>5, <1>6, <1>7, <1>8, <1>9, <1>10, <1>11, <1>12, <1>13,
     <1>14, <1>15, <1>16, <1>17, <1>18, <1>19, <1>20, <1>21 DEF Next, WorkerStep

(* Every variable always holds values of its type.                         *)
THEOREM TypeCorrect == Spec => []TypeOK
<1>1. TypeInv => TypeOK
  BY DEF TypeInv
<1> QED BY <1>1, InitTypeInv, NextTypeInv, PTL DEF Spec

-----------------------------------------------------------------------------
(* ReadModelReflectsLog is not inductive: that reconciliation adds nothing *)
(* to the read model rests on the sequence the envelope started from being *)
(* the end of the log, that an advance installs the committed batch rests  *)
(* on a transaction being open only between append and advance, and that a *)
(* boot is the latest one rests on the log never shrinking.                *)
ReadModelIsLog ==
    worker.phase # "down" =>
        log = IF worker.phase = "committed" THEN readModel \o txn ELSE readModel
LoadedAtBoot ==
    /\ loaded \in boots
    /\ \A b \in boots : b <= loaded /\ b <= Len(log)
TxnOnlyWhenWriting == worker.phase \notin {"append", "committed"} => txn = <<>>
LogNumbered == \A i \in 1..Len(log) : log[i].seq = i
TxnNumbered == \A i \in 1..Len(txn) : txn[i].seq = Len(readModel) + i
StartIsLogEnd == worker.phase \in {"lookup", "append", "reconcile"} => worker.start = Len(log)

ModelInv ==
    /\ TypeInv
    /\ ReadModelIsLog
    /\ LoadedAtBoot
    /\ TxnOnlyWhenWriting
    /\ LogNumbered
    /\ TxnNumbered
    /\ StartIsLogEnd

(* A subscription is open only while the server is up, what is left to     *)
(* publish is the end of the read model, and a subscription was opened no  *)
(* later than what has been published.                                     *)
Published == Len(readModel) - Len(outbox)
OutboxIsEnd ==
    worker.phase # "down" =>
        /\ Len(outbox) <= Len(readModel)
        /\ outbox = SubSeq(readModel, Published + 1, Len(readModel))
OutboxOnlyWhenPublishing == worker.phase \notin {"publish", "republish"} => outbox = <<>>
FeedsOpenWhenUp ==
    \A s \in Subscribers :
        feeds[s].open => /\ worker.phase # "down"
                         /\ feeds[s].from \in 0..Published

FeedInv ==
    /\ ModelInv
    /\ OutboxIsEnd
    /\ OutboxOnlyWhenPublishing
    /\ FeedsOpenWhenUp
    /\ FeedComplete

(* A log numbered from 1 has its length as its last sequence.              *)
LEMMA SnapshotOfNumbered ==
  ASSUME NEW model \in Seq(Events), \A i \in 1..Len(model) : model[i].seq = i
  PROVE  SnapshotSequence(model) = Len(model)
<1>1. CASE model = <<>>
  BY <1>1, EmptySeq DEF SnapshotSequence
<1>2. CASE model # <<>>
  <2>1. Len(model) \in 1..Len(model)
    BY <1>2, EmptySeq
  <2> QED BY <1>2, <2>1 DEF SnapshotSequence
<1> QED BY <1>1, <1>2

(* Nothing is persisted after the end of the log.                          *)
LEMMA NothingAfterEnd ==
  ASSUME log \in Seq(Events)
  PROVE  PersistedAfter(Len(log)) = <<>>
<1>1. Len(log) \in Nat /\ ReplayLimit \in Nat \ {0}
  BY ConstantsAssumption
<1>2. ~(Len(log) + ReplayLimit < Len(log))
  BY <1>1
<1> QED BY <1>1, <1>2, SubSeqEmpty DEF PersistedAfter

(* Initially nothing is written.                                           *)
LEMMA InitModelInv == Init => ModelInv
<1> SUFFICES ASSUME Init PROVE ModelInv
  OBVIOUS
<1>1. log = <<>> /\ txn = <<>> /\ readModel = <<>> /\ worker = IdleWorker
  BY DEF Init
<1>2. LoadedAtBoot
  BY DEF Init, LoadedAtBoot
<1> QED
  BY <1>1, <1>2, InitTypeInv DEF ModelInv, ReadModelIsLog, TxnOnlyWhenWriting, LogNumbered,
     TxnNumbered, StartIsLogEnd, IdleWorker

(* A step other than a boot keeps the boots and does not shorten the log.  *)
LEMMA NextLoadedAtBoot == TypeInv /\ LoadedAtBoot /\ [Next]_vars => LoadedAtBoot'
<1> SUFFICES ASSUME TypeInv, LoadedAtBoot, [Next]_vars PROVE LoadedAtBoot'
  OBVIOUS
<1>1. /\ log \in Seq(Events) /\ txn \in Seq(Events) /\ Len(log) \in Nat
      /\ loaded \in Nat /\ boots \subseteq Nat
  BY DEF TypeInv, TypeOK
<1>2. ASSUME UNCHANGED <<loaded, boots, log>> PROVE LoadedAtBoot'
  BY <1>2 DEF LoadedAtBoot
<1>3. CASE CommitTransaction
  <2>1. UNCHANGED <<loaded, boots>> /\ log' = log \o txn
    BY <1>3 DEF CommitTransaction
  <2>2. Len(log') \in Nat /\ Len(log) <= Len(log')
    BY <1>1, <2>1, ConcatProperties
  <2> QED BY <1>1, <2>1, <2>2 DEF LoadedAtBoot
<1>4. CASE Boot
  BY <1>1, <1>4 DEF Boot, LoadedAtBoot
<1>5. CASE \/ \E r \in Requests : Dispatch(r)
           \/ \E s \in Subscribers : Subscribe(s)
           \/ Crash
           \/ UNCHANGED vars
  BY <1>2, <1>5 DEF Dispatch, Subscribe, Crash, vars
<1>6. CASE \/ TakeCommand \/ AnswerFromReceipt \/ DecideCommand \/ EventIdFails
           \/ AppendEvent \/ StorageFails
  BY <1>2, <1>6
  DEF TakeCommand, AnswerFromReceipt, DecideCommand, EventIdFails, AppendEvent, StorageFails
<1>7. CASE \/ AdvanceReadModel \/ PublishEvent \/ AnswerAccepted
           \/ Reconcile \/ ReconcileFails \/ RepublishDone
           \/ RecordRejection \/ RejectionNotRecorded \/ AnswerFailure
  BY <1>2, <1>7
  DEF AdvanceReadModel, PublishEvent, AnswerAccepted, Reconcile, ReconcileFails, RepublishDone,
      RecordRejection, RejectionNotRecorded, AnswerFailure
<1> QED BY <1>3, <1>4, <1>5, <1>6, <1>7 DEF Next, WorkerStep

(* Every action keeps the relation between log, transaction and read model.*)
LEMMA NextModelInv == ModelInv /\ [Next]_vars => ModelInv'
<1> SUFFICES ASSUME ModelInv, [Next]_vars PROVE ModelInv'
  OBVIOUS
<1>1. TypeInv' /\ LoadedAtBoot'
  BY NextTypeInv, NextLoadedAtBoot DEF ModelInv
<1>2. /\ log \in Seq(Events) /\ txn \in Seq(Events) /\ readModel \in Seq(Events)
      /\ Len(log) \in Nat /\ Len(txn) \in Nat /\ Len(readModel) \in Nat
      /\ worker \in [phase : Phases, call : Nat, start : Nat, todo : Seq(Bodies),
                      failure : {"none", "invariant", "storage"}]
  BY DEF ModelInv, TypeInv, TypeOK
<1> USE DEF ModelInv, ReadModelIsLog, TxnOnlyWhenWriting, LogNumbered, TxnNumbered, StartIsLogEnd
<1>3. ASSUME UNCHANGED <<log, txn, readModel>>,
             worker'.phase = worker.phase \/ worker.phase \notin {"committed", "append", "down"},
             worker'.phase \notin {"committed", "append", "down", "lookup", "reconcile"}
               \/ (worker'.phase = worker.phase /\ worker'.start = worker.start)
      PROVE  ModelInv'
  BY <1>1, <1>2, <1>3
<1>4. ASSUME NEW r \in Requests, Dispatch(r) PROVE ModelInv'
  BY <1>1, <1>4 DEF Dispatch
<1>5. ASSUME NEW s \in Subscribers, Subscribe(s) PROVE ModelInv'
  BY <1>1, <1>5 DEF Subscribe
<1>6. ASSUME TakeCommand PROVE ModelInv'
  <2>1. log = readModel
    BY <1>6 DEF TakeCommand
  <2>2. SnapshotSequence(readModel) = Len(log)
    BY <1>2, <2>1, SnapshotOfNumbered
  <2> QED BY <1>1, <1>6, <2>2 DEF TakeCommand
<1>7. ASSUME AnswerFromReceipt PROVE ModelInv'
  BY <1>3, <1>7 DEF AnswerFromReceipt, Answer, IdleWorker
<1>8. ASSUME DecideCommand PROVE ModelInv'
  BY <1>1, <1>2, <1>8 DEF DecideCommand, FailWith
<1>9. ASSUME EventIdFails PROVE ModelInv'
  BY <1>1, <1>2, <1>9 DEF EventIdFails, FailWith
<1>10. ASSUME AppendEvent PROVE ModelInv'
  <2> DEFINE event == [seq |-> Len(log) + Len(txn) + 1, req |-> CurrentRequest,
                       body |-> Head(worker.todo)]
  <2>1. log = readModel /\ txn' = Append(txn, event)
    BY <1>10 DEF AppendEvent
  <2>2. event.seq = Len(readModel) + Len(txn) + 1
    BY <2>1
  <2>3. event \in Events
    <3>1. CurrentRequest \in Requests
      BY <1>10, CurrentTypes DEF AppendEvent
    <3>2. Head(worker.todo) \in Bodies
      BY <1>2, <1>10, HeadTailProperties DEF AppendEvent
    <3> QED BY <1>2, <3>1, <3>2 DEF Events
  <2>4. /\ Len(txn') = Len(txn) + 1
        /\ \A i \in 1..Len(txn) : txn'[i] = txn[i]
        /\ txn'[Len(txn) + 1] = event
    <3> HIDE DEF event
    <3> QED BY <1>2, <2>1, <2>3, AppendProperties
  <2>5. TxnNumbered'
    <3> SUFFICES ASSUME NEW i \in 1..Len(txn')
                 PROVE  txn'[i].seq = Len(readModel') + i
      OBVIOUS
    <3> HIDE DEF event
    <3>1. readModel' = readModel
      BY <1>10 DEF AppendEvent
    <3>2. CASE i \in 1..Len(txn)
      <4>1. txn'[i] = txn[i] /\ txn[i].seq = Len(readModel) + i
        BY <2>4, <3>2
      <4> QED BY <3>1, <4>1
    <3>3. CASE i = Len(txn) + 1
      BY <1>2, <2>2, <2>4, <3>1, <3>3
    <3> QED BY <1>2, <2>4, <3>2, <3>3
  <2> QED BY <1>1, <1>2, <1>10, <2>5 DEF AppendEvent
<1>11. ASSUME CommitTransaction PROVE ModelInv'
  <2>1. log = readModel /\ log' = log \o txn
    BY <1>11 DEF CommitTransaction
  <2>2. LogNumbered'
    <3>1. /\ Len(log') = Len(log) + Len(txn)
          /\ \A i \in 1..Len(log) + Len(txn) :
                log'[i] = IF i <= Len(log) THEN log[i] ELSE txn[i - Len(log)]
      BY <1>2, <2>1, ConcatProperties
    <3> SUFFICES ASSUME NEW i \in 1..Len(log) + Len(txn)
                 PROVE  log'[i].seq = i
      BY <1>2, <3>1
    <3>2. CASE i <= Len(log)
      <4>1. log'[i] = log[i] /\ log[i].seq = i
        BY <1>2, <3>1, <3>2
      <4> QED BY <4>1
    <3>3. CASE i > Len(log)
      <4>1. log'[i] = txn[i - Len(log)] /\ i - Len(log) \in 1..Len(txn)
        BY <1>2, <3>1, <3>3
      <4>2. txn[i - Len(log)].seq = Len(readModel) + (i - Len(log))
        BY <4>1
      <4> QED BY <1>2, <2>1, <4>1, <4>2
    <3> QED BY <1>2, <3>2, <3>3
  <2> QED BY <1>1, <1>2, <1>11, <2>1, <2>2 DEF CommitTransaction
<1>12. ASSUME StorageFails PROVE ModelInv'
  BY <1>1, <1>2, <1>12 DEF StorageFails
<1>13. ASSUME AdvanceReadModel PROVE ModelInv'
  BY <1>1, <1>2, <1>13 DEF AdvanceReadModel, NextReadModel
<1>14. ASSUME PublishEvent PROVE ModelInv'
  BY <1>1, <1>14 DEF PublishEvent
<1>15. ASSUME AnswerAccepted PROVE ModelInv'
  BY <1>3, <1>15 DEF AnswerAccepted, Answer, IdleWorker
<1>16. ASSUME Reconcile PROVE ModelInv'
  <2>1. PersistedAfter(worker.start) = <<>>
    BY <1>2, <1>16, NothingAfterEnd DEF Reconcile
  <2>2. readModel' = readModel
    BY <1>2, <1>16, <2>1, ConcatEmptySeq DEF Reconcile
  <2> QED BY <1>1, <1>2, <1>16, <2>2 DEF Reconcile
<1>17. ASSUME ReconcileFails PROVE ModelInv'
  BY <1>1, <1>2, <1>17 DEF ReconcileFails
<1>18. ASSUME RepublishDone PROVE ModelInv'
  BY <1>1, <1>2, <1>18 DEF RepublishDone
<1>19. ASSUME RecordRejection PROVE ModelInv'
  BY <1>1, <1>2, <1>19 DEF RecordRejection
<1>20. ASSUME RejectionNotRecorded PROVE ModelInv'
  BY <1>1, <1>2, <1>20 DEF RejectionNotRecorded
<1>21. ASSUME AnswerFailure PROVE ModelInv'
  BY <1>3, <1>21 DEF AnswerFailure, Answer, IdleWorker
<1>22. ASSUME Crash PROVE ModelInv'
  BY <1>1, <1>22 DEF Crash, IdleWorker
<1>23. ASSUME Boot PROVE ModelInv'
  BY <1>1, <1>2, <1>23 DEF Boot, IdleWorker
<1>24. ASSUME UNCHANGED vars PROVE ModelInv'
  BY <1>1, <1>24 DEF vars
<1> QED
  BY <1>4, <1>5, <1>6, <1>7, <1>8, <1>9, <1>10, <1>11, <1>12, <1>13, <1>14, <1>15, <1>16,
     <1>17, <1>18, <1>19, <1>20, <1>21, <1>22, <1>23, <1>24 DEF Next, WorkerStep

(* The read model reflects exactly what was committed, what came before    *)
(* the last start by its rows and what came after by folding it, whatever  *)
(* fails and whenever the process crashes.                                 *)
THEOREM ReadModelCorrect == Spec => []ReadModelReflectsLog
<1>1. ModelInv => ReadModelReflectsLog
  BY DEF ModelInv, ReadModelIsLog, LoadedAtBoot, ReadModelReflectsLog
<1> QED BY <1>1, InitModelInv, NextModelInv, PTL DEF Spec

-----------------------------------------------------------------------------
(* While the server is up the read model is a prefix of the log.           *)
LEMMA ReadModelIsPrefix ==
  ASSUME ModelInv, worker.phase # "down"
  PROVE  /\ Len(readModel) <= Len(log)
         /\ \A i \in 1..Len(readModel) : readModel[i] = log[i]
         /\ SnapshotSequence(readModel) = Len(readModel)
<1>1. /\ log \in Seq(Events) /\ txn \in Seq(Events) /\ readModel \in Seq(Events)
      /\ Len(log) \in Nat /\ Len(txn) \in Nat /\ Len(readModel) \in Nat
  BY DEF ModelInv, TypeInv, TypeOK
<1>2. log = readModel \/ log = readModel \o txn
  BY DEF ModelInv, ReadModelIsLog
<1>3. /\ Len(readModel) <= Len(log)
      /\ \A i \in 1..Len(readModel) : readModel[i] = log[i]
  BY <1>1, <1>2, ConcatProperties
<1>4. \A i \in 1..Len(readModel) : readModel[i].seq = i
  BY <1>1, <1>3 DEF ModelInv, LogNumbered
<1> QED BY <1>1, <1>3, <1>4, SnapshotOfNumbered

LEMMA InitFeedInv == Init => FeedInv
<1> SUFFICES ASSUME Init PROVE FeedInv
  OBVIOUS
<1>1. readModel = <<>> /\ outbox = <<>> /\ Len(outbox) = 0 /\ Len(readModel) = 0
  BY DEF Init
<1>2. \A s \in Subscribers : ~feeds[s].open
  BY DEF Init
<1>3. OutboxIsEnd
  BY <1>1, SubSeqEmpty DEF OutboxIsEnd, Published
<1> QED
  BY <1>1, <1>2, <1>3, InitModelInv
  DEF FeedInv, OutboxOnlyWhenPublishing, FeedsOpenWhenUp, FeedComplete

(* A step that leaves feeds, read model and outbox alone keeps the         *)
(* invariant if the part of the log already published stays the same.      *)
LEMMA QuietStep ==
  ASSUME FeedInv, ModelInv', UNCHANGED <<feeds, readModel, outbox>>,
         worker.phase # "down", worker'.phase # "down",
         worker'.phase \in {"publish", "republish"} \/ outbox = <<>>,
         log' = log \/ log' = log \o txn
  PROVE  FeedInv'
<1> USE DEF FeedInv
<1>1. /\ log \in Seq(Events) /\ txn \in Seq(Events) /\ readModel \in Seq(Events)
      /\ outbox \in Seq(Events) /\ Len(outbox) \in Nat
      /\ Len(log) \in Nat /\ Len(txn) \in Nat /\ Len(readModel) \in Nat
  BY SMTT(40) DEF ModelInv, TypeInv, TypeOK
<1>2. Published \in Nat /\ Published <= Len(log)
  BY <1>1, ReadModelIsPrefix DEF Published, OutboxIsEnd
<1>3. FeedComplete'
  <2> SUFFICES ASSUME NEW s \in Subscribers, feeds[s].open
               PROVE  feeds[s].got = SubSeq(log', feeds[s].from + 1, Published)
    BY <1>1, ReadModelIsPrefix DEF FeedComplete, Published
  <2>1. feeds[s].from \in 0..Published
    BY DEF FeedsOpenWhenUp
  <2>2. feeds[s].got = SubSeq(log, feeds[s].from + 1, Published)
    BY ReadModelIsPrefix DEF FeedComplete, Published
  <2>3. SubSeq(log', feeds[s].from + 1, Published) = SubSeq(log, feeds[s].from + 1, Published)
    <3>1. CASE log' = log
      BY <3>1
    <3>2. CASE log' = log \o txn /\ feeds[s].from = Published
      BY <1>2, <3>2, SubSeqEmpty
    <3>3. CASE log' = log \o txn /\ feeds[s].from # Published
      <4>1. feeds[s].from + 1 \in 1..Len(log) /\ Published \in 1..Len(log)
        BY <1>1, <1>2, <2>1, <3>3
      <4> QED BY <1>1, <3>3, <4>1, SubSeqOfConcat1
    <3> QED BY <3>1, <3>2, <3>3
  <2> QED BY <2>2, <2>3
<1>4. OutboxIsEnd' /\ OutboxOnlyWhenPublishing' /\ FeedsOpenWhenUp'
  BY DEF OutboxIsEnd, OutboxOnlyWhenPublishing, FeedsOpenWhenUp, Published
<1> QED BY <1>3, <1>4

(* Publishing moves the head of the outbox, the next event of the log, to  *)
(* the end of every open feed.                                             *)
LEMMA PublishStep == FeedInv /\ ModelInv' /\ PublishEvent => FeedInv'
<1> SUFFICES ASSUME FeedInv, ModelInv', PublishEvent PROVE FeedInv'
  OBVIOUS
<1> USE DEF FeedInv
<1>1. /\ log \in Seq(Events) /\ readModel \in Seq(Events) /\ outbox \in Seq(Events)
      /\ Len(log) \in Nat /\ Len(readModel) \in Nat /\ Len(outbox) \in Nat
      /\ feeds \in [Subscribers -> [open : BOOLEAN, from : Int, got : Seq(Events)]]
  <2>1. TypeOK
    BY DEF ModelInv, TypeInv
  <2> QED BY <2>1 DEF TypeOK
<1>2. /\ log = readModel /\ log' = log /\ readModel' = readModel
      /\ outbox # <<>> /\ outbox' = Tail(outbox) /\ worker' = worker
      /\ worker.phase \in {"publish", "republish"}
  BY DEF PublishEvent, Unpublished, ModelInv, ReadModelIsLog
<1>3. Len(outbox') = Len(outbox) - 1 /\ Len(outbox) >= 1
  BY <1>1, <1>2, HeadTailProperties, EmptySeq
<1>4. /\ Published \in Nat /\ Published + 1 \in 1..Len(log)
      /\ Published' = Published + 1
      /\ outbox = SubSeq(log, Published + 1, Len(log))
  BY <1>1, <1>2, <1>3 DEF Published, OutboxIsEnd
<1>5. Head(outbox) = log[Published + 1] /\ Tail(outbox) = SubSeq(log, Published + 2, Len(log))
  <2>1. Len(log) \in Published + 1 .. Len(log) /\ Published + 1 + 1 = Published + 2
    BY <1>1, <1>4
  <2> QED BY <1>1, <1>4, <2>1, HeadTailOfSubSeq
<1>6. OutboxIsEnd'
  <2>1. Published' + 1 = Published + 2 /\ Len(outbox') <= Len(readModel')
    BY <1>1, <1>2, <1>3, <1>4 DEF Published
  <2> QED BY <1>2, <1>5, <2>1 DEF OutboxIsEnd
<1>7. FeedsOpenWhenUp' /\ OutboxOnlyWhenPublishing'
  <2>1. \A s \in Subscribers : feeds'[s].open = feeds[s].open /\ feeds'[s].from = feeds[s].from
    BY <1>1 DEF PublishEvent
  <2>2. OutboxOnlyWhenPublishing'
    BY <1>2 DEF OutboxOnlyWhenPublishing
  <2>3. \A s \in Subscribers : feeds[s].open => feeds[s].from \in 0..Published'
    BY <1>4 DEF FeedsOpenWhenUp
  <2> QED BY <1>2, <2>1, <2>2, <2>3 DEF FeedsOpenWhenUp
<1>8. FeedComplete'
  <2> SUFFICES ASSUME NEW s \in Subscribers, feeds'[s].open
               PROVE  feeds'[s].got = SubSeq(log, feeds'[s].from + 1, Published + 1)
    BY <1>2, <1>4, ReadModelIsPrefix DEF FeedComplete, Published
  <2>1. /\ feeds[s].open /\ feeds'[s].from = feeds[s].from
        /\ feeds'[s].got = Append(feeds[s].got, log[Published + 1])
    BY <1>1, <1>5 DEF PublishEvent
  <2>2. feeds[s].from \in 0..Published
    BY <2>1 DEF FeedsOpenWhenUp
  <2>3. feeds[s].got = SubSeq(log, feeds[s].from + 1, Published)
    BY <1>2, <2>1, ReadModelIsPrefix DEF FeedComplete, Published
  <2>4. /\ feeds[s].from + 1 \in 1..Len(log)
        /\ Published + 1 \in feeds[s].from + 1 .. Len(log)
        /\ (Published + 1) - 1 = Published
    BY <1>1, <1>4, <2>2
  <2>5. SubSeq(log, feeds[s].from + 1, Published + 1)
            = SubSeq(log, feeds[s].from + 1, Published) \o <<log[Published + 1]>>
    BY <1>1, <2>4, SubSeqRecursiveSecond
  <2>6. feeds[s].got \in Seq(Events) /\ log[Published + 1] \in Events
    BY <1>1, <1>4, ElementOfSeq
  <2> QED BY ZenonT(60), <2>1, <2>3, <2>5, <2>6, AppendIsConcat
<1> QED BY <1>6, <1>7, <1>8

(* The invariant is kept by every action.                                  *)
LEMMA NextFeedInv == FeedInv /\ [Next]_vars => FeedInv'
<1> SUFFICES ASSUME FeedInv, [Next]_vars PROVE FeedInv'
  OBVIOUS
<1>1. ModelInv /\ ModelInv' /\ TypeInv
  BY NextModelInv DEF FeedInv, ModelInv
<1>2. /\ log \in Seq(Events) /\ txn \in Seq(Events) /\ readModel \in Seq(Events)
      /\ Len(log) \in Nat /\ Len(txn) \in Nat /\ Len(readModel) \in Nat
      /\ worker \in [phase : Phases, call : Nat, start : Nat, todo : Seq(Bodies),
                      failure : {"none", "invariant", "storage"}]
      /\ feeds \in [Subscribers -> [open : BOOLEAN, from : Int, got : Seq(Events)]]
  BY <1>1 DEF TypeInv, TypeOK
<1>3. worker.phase \notin {"publish", "republish"} => outbox = <<>>
  BY DEF FeedInv, OutboxOnlyWhenPublishing
<1>4. ASSUME NEW r \in Requests, Dispatch(r) PROVE FeedInv'
  BY <1>1, <1>3, <1>4, QuietStep DEF Dispatch
<1>5. ASSUME NEW s \in Subscribers, Subscribe(s) PROVE FeedInv'
  <2>1. /\ UNCHANGED <<log, readModel, outbox, worker>> /\ worker.phase # "down"
        /\ SnapshotSequence(readModel) = Len(readModel)
    BY <1>1, <1>5, ReadModelIsPrefix DEF Subscribe
  <2>2. Published \in Nat
    BY <1>2, <1>1, <2>1 DEF FeedInv, OutboxIsEnd, Published, TypeInv, TypeOK
  <2>3. /\ feeds'[s] = [open |-> TRUE, from |-> Published, got |-> <<>>]
        /\ \A t \in Subscribers \ {s} : feeds'[t] = feeds[t]
    BY <1>2, <1>5, <2>1 DEF Subscribe, Published
  <2>4. FeedsOpenWhenUp'
    BY <2>1, <2>2, <2>3 DEF FeedInv, FeedsOpenWhenUp, Published
  <2>5. SubSeq(log, Published + 1, Published) = <<>>
    BY <2>2, SubSeqEmpty
  <2>6. FeedComplete'
    <3>0. SnapshotSequence(readModel') - Len(outbox') = Published /\ log' = log
      BY <2>1 DEF Published
    <3> SUFFICES ASSUME NEW t \in Subscribers, feeds'[t].open
                 PROVE  feeds'[t].got = SubSeq(log, feeds'[t].from + 1, Published)
      BY <2>1, <3>0 DEF FeedComplete
    <3>1. CASE t = s
      <4>1. feeds'[t].from = Published /\ feeds'[t].got = <<>>
        BY <2>3, <3>1
      <4> QED BY <2>5, <4>1
    <3>2. CASE t # s
      <4>1. feeds'[t] = feeds[t] /\ feeds[t].open
        BY <2>3, <3>2
      <4>2. feeds[t].got = SubSeq(log, feeds[t].from + 1, Published)
        BY <2>1, <4>1 DEF FeedInv, FeedComplete, Published
      <4> QED BY <4>1, <4>2
    <3> QED BY <3>1, <3>2
  <2> QED
    BY <1>1, <2>1, <2>4, <2>6 DEF FeedInv, OutboxIsEnd, OutboxOnlyWhenPublishing, Published
<1>6. ASSUME TakeCommand PROVE FeedInv'
  BY <1>1, <1>3, <1>6, QuietStep DEF TakeCommand
<1>7. ASSUME AnswerFromReceipt PROVE FeedInv'
  BY <1>1, <1>3, <1>7, QuietStep DEF AnswerFromReceipt, Answer, IdleWorker
<1>8. ASSUME DecideCommand PROVE FeedInv'
  BY <1>1, <1>2, <1>3, <1>8, QuietStep DEF DecideCommand, FailWith
<1>9. ASSUME EventIdFails PROVE FeedInv'
  BY <1>1, <1>2, <1>3, <1>9, QuietStep DEF EventIdFails, FailWith
<1>10. ASSUME AppendEvent PROVE FeedInv'
  BY <1>1, <1>2, <1>3, <1>10, QuietStep DEF AppendEvent
<1>11. ASSUME CommitTransaction PROVE FeedInv'
  BY <1>1, <1>2, <1>3, <1>11, QuietStep DEF CommitTransaction
<1>12. ASSUME StorageFails PROVE FeedInv'
  BY <1>1, <1>2, <1>3, <1>12, QuietStep DEF StorageFails
<1>13. ASSUME AdvanceReadModel PROVE FeedInv'
  <2>1. /\ outbox = <<>> /\ Len(outbox) = 0 /\ log = readModel \o txn
        /\ log' = log /\ readModel' = log /\ outbox' = txn /\ feeds' = feeds
        /\ worker.phase = "committed" /\ worker'.phase = "publish"
    BY <1>1, <1>2, <1>3, <1>13 DEF AdvanceReadModel, NextReadModel, ModelInv, ReadModelIsLog
  <2>2. Len(log) = Len(readModel) + Len(txn)
    BY <1>2, <2>1, ConcatProperties
  <2>3. Published' = Published /\ Published = Len(readModel)
    BY <1>2, <2>1, <2>2 DEF Published
  <2>4. txn = SubSeq(log, Len(readModel) + 1, Len(log))
    <3>1. CASE txn = <<>>
      <4>1. Len(log) < Len(readModel) + 1
        BY <1>2, <2>2, <3>1
      <4> QED BY <1>2, <3>1, <4>1, SubSeqEmpty
    <3>2. CASE txn # <<>>
      <4>1. Len(txn) >= 1
        BY <1>2, <3>2, EmptySeq
      <4>2. /\ Len(readModel) + 1 \in Len(readModel) + 1 .. Len(readModel) + Len(txn)
            /\ Len(log) \in Len(readModel) + 1 .. Len(readModel) + Len(txn)
            /\ Len(readModel) + 1 - Len(readModel) = 1
            /\ Len(log) - Len(readModel) = Len(txn)
        BY <1>2, <2>2, <4>1
      <4>3. SubSeq(readModel \o txn, Len(readModel) + 1, Len(log)) = SubSeq(txn, 1, Len(txn))
        BY <1>2, <4>2, SubSeqOfConcat2
      <4> QED BY <1>2, <2>1, <4>3, SubSeqFull
    <3> QED BY <3>1, <3>2
  <2>5. OutboxIsEnd'
    BY SMTT(40), <1>2, <2>1, <2>2, <2>3, <2>4 DEF OutboxIsEnd
  <2>6. FeedsOpenWhenUp'
    BY <2>1, <2>3 DEF FeedInv, FeedsOpenWhenUp
  <2>7. SnapshotSequence(readModel)' - Len(outbox)' = Published
    <3>1. SnapshotSequence(readModel') = Len(readModel')
      BY <1>1, <1>2, <2>1, SnapshotOfNumbered DEF ModelInv, LogNumbered
    <3> QED BY <2>1, <2>3, <3>1 DEF Published, SnapshotSequence
  <2>8. FeedComplete'
    BY <1>1, <2>1, <2>7, ReadModelIsPrefix DEF FeedInv, FeedComplete, Published
  <2> QED BY <1>1, <2>1, <2>5, <2>6, <2>8 DEF FeedInv, OutboxOnlyWhenPublishing
<1>14. ASSUME PublishEvent PROVE FeedInv'
  BY <1>1, <1>14, PublishStep
<1>15. ASSUME AnswerAccepted PROVE FeedInv'
  BY <1>1, <1>15, QuietStep DEF AnswerAccepted, Answer, IdleWorker
<1>16. ASSUME Reconcile PROVE FeedInv'
  <2>1. PersistedAfter(worker.start) = <<>>
    BY <1>1, <1>2, <1>16, NothingAfterEnd DEF Reconcile, ModelInv, StartIsLogEnd
  <2>2. readModel' = readModel /\ outbox' = <<>>
    BY <1>2, <1>16, <2>1, ConcatEmptySeq DEF Reconcile
  <2> QED BY <1>1, <1>2, <1>3, <1>16, <2>2, QuietStep DEF Reconcile
<1>17. ASSUME ReconcileFails PROVE FeedInv'
  BY <1>1, <1>2, <1>3, <1>17, QuietStep DEF ReconcileFails
<1>18. ASSUME RepublishDone PROVE FeedInv'
  BY <1>1, <1>2, <1>18, QuietStep DEF RepublishDone
<1>19. ASSUME RecordRejection PROVE FeedInv'
  BY <1>1, <1>2, <1>3, <1>19, QuietStep DEF RecordRejection
<1>20. ASSUME RejectionNotRecorded PROVE FeedInv'
  BY <1>1, <1>2, <1>3, <1>20, QuietStep DEF RejectionNotRecorded
<1>21. ASSUME AnswerFailure PROVE FeedInv'
  BY <1>1, <1>3, <1>21, QuietStep DEF AnswerFailure, Answer, IdleWorker
<1>22. ASSUME Crash PROVE FeedInv'
  <2>1. /\ \A s \in Subscribers : ~feeds'[s].open
        /\ worker'.phase = "down" /\ outbox' = <<>>
    BY <1>22 DEF Crash, IdleWorker
  <2> QED
    BY <1>1, <2>1
    DEF FeedInv, OutboxIsEnd, OutboxOnlyWhenPublishing, FeedsOpenWhenUp, FeedComplete
<1>23. ASSUME Boot PROVE FeedInv'
  <2>1. outbox' = <<>> /\ readModel' = log /\ worker'.phase = "idle" /\ feeds' = feeds
    BY <1>3, <1>23 DEF Boot, IdleWorker
  <2>2. \A s \in Subscribers : ~feeds'[s].open
    BY <1>23, <2>1 DEF FeedInv, FeedsOpenWhenUp, Boot
  <2>3. OutboxIsEnd'
    <3>1. /\ Len(outbox') = 0 /\ Published' = Len(log) /\ Len(readModel') = Len(log)
          /\ Len(log) < Len(log) + 1
      BY <1>2, <2>1 DEF Published
    <3>2. SubSeq(readModel', Published' + 1, Len(readModel')) = <<>>
      BY <1>2, <3>1, SubSeqEmpty
    <3> QED BY <1>2, <2>1, <3>1, <3>2 DEF OutboxIsEnd
  <2> QED
    BY <1>1, <2>1, <2>2, <2>3
    DEF FeedInv, OutboxOnlyWhenPublishing, FeedsOpenWhenUp, FeedComplete
<1>24. ASSUME UNCHANGED vars PROVE FeedInv'
  BY <1>1, <1>24
  DEF vars, FeedInv, OutboxIsEnd, OutboxOnlyWhenPublishing, FeedsOpenWhenUp, FeedComplete,
      Published
<1> QED
  BY <1>4, <1>5, <1>6, <1>7, <1>8, <1>9, <1>10, <1>11, <1>12, <1>13, <1>14, <1>15, <1>16,
     <1>17, <1>18, <1>19, <1>20, <1>21, <1>22, <1>23, <1>24 DEF Next, WorkerStep

(* Every subscription has received every event published since it was      *)
(* opened, once and in log order.                                          *)
THEOREM FeedsComplete == Spec => []FeedComplete
<1>1. FeedInv => FeedComplete
  BY DEF FeedInv
<1> QED BY <1>1, InitFeedInv, NextFeedInv, PTL DEF Spec

-----------------------------------------------------------------------------
(* The refinement of EventFeed.                                            *)

LEMMA InitFeed == Init => Feed!FeedInit
<1> SUFFICES ASSUME Init PROVE Feed!FeedInit
  OBVIOUS
<1>1. log = <<>> /\ readModel = <<>> /\ outbox = <<>>
  BY DEF Init
<1>2. Len(log) = 0 /\ Len(outbox) = 0 /\ SnapshotSequence(readModel) = 0
  BY <1>1 DEF SnapshotSequence
<1> QED BY <1>2 DEF Feed!FeedInit

(* The values the engine gives to the variables of the feed.               *)
LEMMA FeedValues ==
  ASSUME FeedInv, worker.phase # "down"
  PROVE  /\ SnapshotSequence(readModel) = Len(readModel)
         /\ Len(readModel) \in Nat /\ Len(log) \in Nat /\ Len(outbox) \in Nat
         /\ worker.phase # "committed" => Len(log) = Len(readModel)
         /\ worker.phase \notin {"publish", "republish"} => Len(outbox) = 0
<1>1. TypeOK /\ ModelInv
  BY DEF FeedInv, ModelInv, TypeInv
<1>2. SnapshotSequence(readModel) = Len(readModel)
  BY <1>1, ReadModelIsPrefix
<1>3. worker.phase # "committed" => log = readModel
  BY <1>1 DEF ModelInv, ReadModelIsLog
<1>4. worker.phase \notin {"publish", "republish"} => outbox = <<>>
  BY DEF FeedInv, OutboxOnlyWhenPublishing
<1> QED BY <1>1, <1>2, <1>3, <1>4 DEF TypeOK

(* Every step of the engine is a step of the feed or leaves it as it is.   *)
LEMMA NextFeed == FeedInv /\ [Next]_vars => [Feed!FeedNext]_(Feed!feedVars)
<1> SUFFICES ASSUME FeedInv, [Next]_vars PROVE [Feed!FeedNext]_(Feed!feedVars)
  OBVIOUS
<1>0. FeedInv' /\ ModelInv /\ TypeOK
  BY NextFeedInv DEF FeedInv, ModelInv, TypeInv
<1>1. ASSUME UNCHANGED <<log, readModel, outbox>> PROVE UNCHANGED Feed!feedVars
  BY <1>1 DEF Feed!feedVars, SnapshotSequence
<1>2. CASE \E r \in Requests : Dispatch(r)
  BY <1>1, <1>2 DEF Dispatch
<1>3. CASE \E s \in Subscribers : Subscribe(s)
  BY <1>1, <1>3 DEF Subscribe
<1>4. CASE TakeCommand \/ AnswerFromReceipt \/ DecideCommand \/ EventIdFails \/ AppendEvent
  BY <1>1, <1>4 DEF TakeCommand, AnswerFromReceipt, DecideCommand, EventIdFails, AppendEvent
<1>5. CASE StorageFails \/ AnswerAccepted \/ ReconcileFails \/ RepublishDone
  BY <1>1, <1>5 DEF StorageFails, AnswerAccepted, ReconcileFails, RepublishDone
<1>6. CASE RecordRejection \/ RejectionNotRecorded \/ AnswerFailure
  BY <1>1, <1>6 DEF RecordRejection, RejectionNotRecorded, AnswerFailure
<1>7. CASE CommitTransaction
  <2>1. /\ SnapshotSequence(readModel) = Len(log) /\ Len(outbox) = 0 /\ Len(log) \in Nat
        /\ UNCHANGED <<readModel, outbox>> /\ log' = log \o txn
    BY <1>7, FeedValues DEF CommitTransaction
  <2>2. Len(log') = Len(log) + Len(txn) /\ Len(txn) \in Nat
    BY <1>0, <2>1, ConcatProperties DEF TypeOK
  <2>3. CASE Len(txn) = 0
    BY <2>1, <2>2, <2>3 DEF Feed!feedVars, SnapshotSequence
  <2>4. CASE Len(txn) > 0
    BY <2>1, <2>2, <2>4 DEF Feed!FeedNext, Feed!CommitBatch, SnapshotSequence
  <2> QED BY <2>2, <2>3, <2>4
<1>8. CASE AdvanceReadModel
  <2>1. /\ worker.phase = "committed" /\ worker'.phase = "publish"
        /\ log = readModel \o txn /\ readModel' = log /\ outbox' = txn /\ log' = log
    BY <1>0, <1>8 DEF AdvanceReadModel, NextReadModel, ModelInv, ReadModelIsLog, TypeOK
  <2>2. /\ SnapshotSequence(readModel) = Len(readModel) /\ Len(outbox) = 0
        /\ Len(readModel) \in Nat /\ Len(txn) \in Nat
    BY <1>0, <2>1, FeedValues DEF TypeOK
  <2>3. Len(log) = Len(readModel) + Len(txn)
    BY <1>0, <2>1, ConcatProperties DEF TypeOK
  <2>4. SnapshotSequence(readModel') = Len(log)
    BY <1>0, <2>1, SnapshotOfNumbered DEF ModelInv, LogNumbered, TypeOK
  <2>5. Len(log) - Len(txn) = Len(readModel)
    BY <2>2, <2>3
  <2>6. CASE Len(txn) = 0
    BY <2>1, <2>2, <2>3, <2>4, <2>5, <2>6 DEF Feed!feedVars, SnapshotSequence
  <2>7. CASE Len(txn) > 0
    BY <2>1, <2>2, <2>3, <2>4, <2>5, <2>7 DEF Feed!FeedNext, Feed!AdvanceHead, SnapshotSequence
  <2> QED BY <2>2, <2>6, <2>7
<1>9. CASE PublishEvent
  <2>1. /\ UNCHANGED <<log, readModel>> /\ outbox # <<>> /\ outbox' = Tail(outbox)
        /\ worker.phase \in {"publish", "republish"}
    BY <1>9 DEF PublishEvent, Unpublished
  <2>2. Len(outbox) \in Nat \ {0} /\ Len(outbox') = Len(outbox) - 1
    BY <1>0, <2>1, HeadTailProperties, EmptySeq DEF TypeOK
  <2>3. SnapshotSequence(readModel) = Len(readModel) /\ Len(readModel) \in Nat
    BY <2>1, FeedValues
  <2>4. SnapshotSequence(readModel') = SnapshotSequence(readModel)
    BY <2>1
  <2> QED BY <2>1, <2>2, <2>3, <2>4 DEF Feed!FeedNext, Feed!PublishNext
<1>10. CASE Reconcile
  <2>1. PersistedAfter(worker.start) = <<>>
    BY <1>0, <1>10, NothingAfterEnd DEF Reconcile, ModelInv, StartIsLogEnd, TypeOK
  <2>2. UNCHANGED <<log, readModel, outbox>>
    <3>1. readModel' = readModel
      BY <1>0, <1>10, <2>1, ConcatEmptySeq DEF Reconcile, TypeOK
    <3>2. outbox = <<>>
      BY <1>10 DEF Reconcile, FeedInv, OutboxOnlyWhenPublishing
    <3> QED BY <1>10, <2>1, <3>1, <3>2 DEF Reconcile
  <2> QED BY <1>1, <2>2
<1>11. CASE Crash
  <2>1. /\ UNCHANGED <<log, readModel>> /\ outbox' = <<>>
        /\ SnapshotSequence(readModel) \in Nat
    BY <1>11, FeedValues DEF Crash
  <2>2. SnapshotSequence(readModel') = SnapshotSequence(readModel) /\ Len(outbox') = 0
    BY <2>1
  <2> QED BY <2>1, <2>2 DEF Feed!FeedNext, Feed!Stop
<1>12. CASE Boot
  <2>1. UNCHANGED <<log, outbox>> /\ readModel' = log /\ outbox = <<>>
    BY <1>12 DEF Boot, FeedInv, OutboxOnlyWhenPublishing
  <2>2. SnapshotSequence(readModel') = Len(log) /\ Len(log) \in Nat
    <3>1. log \in Seq(Events) /\ \A i \in 1..Len(log) : log[i].seq = i
      BY <1>0 DEF ModelInv, LogNumbered, TypeOK
    <3>2. SnapshotSequence(log) = Len(log)
      BY <3>1, SnapshotOfNumbered
    <3> QED BY <2>1, <3>1, <3>2
  <2>3. Len(outbox') = 0
    BY <2>1
  <2> QED BY <2>1, <2>2, <2>3 DEF Feed!FeedNext, Feed!Restart
<1>13. CASE UNCHANGED vars
  BY <1>1, <1>13 DEF vars
<1> QED
  BY <1>1, <1>2, <1>3, <1>4, <1>5, <1>6, <1>7, <1>8, <1>9, <1>10, <1>11, <1>12, <1>13
  DEF Next, WorkerStep

(* The engine implements the feed that the subscriptions are built on.     *)
THEOREM EngineImplementsFeed == Spec => FeedSpec
<1> QED
  BY InitFeedInv, NextFeedInv, InitFeed, NextFeed, PTL DEF Spec, FeedSpec, Feed!FeedSpec

-----------------------------------------------------------------------------
(* Receipts and answers.  That the receipt written at the commit is the    *)
(* only one of its id, and that its events are the decision on the log,    *)
(* rests on what the worker knows while it handles an envelope: from the   *)
(* lookup to the commit or the rejection the id has no receipt, and what   *)
(* it has appended is the beginning of its decision.                       *)
Decision == Decide(CurrentRequest, ReadModelOf(log, loaded))

WorkerWrites ==
    worker.phase = "append" =>
        /\ CurrentReceipt = NoReceipt
        /\ Decision \in Decisions \ {<<>>}
        /\ Len(txn) + Len(worker.todo) = Len(Decision)
        /\ \A i \in 1..Len(txn) : txn[i].req = CurrentRequest /\ txn[i].body = Decision[i]
        /\ \A i \in 1..Len(worker.todo) : worker.todo[i] = Decision[Len(txn) + i]

WorkerWrote ==
    worker.phase \in {"committed", "publish"} =>
        CurrentReceipt = [status |-> "accepted", aggregate |-> AggregateOf[CurrentRequest],
                          seq |-> Len(log)]

RefusedHasNoReceipt ==
    \/ worker.phase = "record"
    \/ worker.phase \in {"reconcile", "republish"} /\ worker.failure = "invariant"
    => CurrentReceipt = NoReceipt

WorkerInv == WorkerWrites /\ WorkerWrote /\ RefusedHasNoReceipt

ReceiptInv ==
    /\ ModelInv
    /\ WorkerInv
    /\ ReceiptsMatchLog
    /\ DecidedOnCommittedState
    /\ AnswersAreTruthful

LEMMA InitReceiptInv == Init => ReceiptInv
<1> SUFFICES ASSUME Init PROVE ReceiptInv
  OBVIOUS
<1>1. /\ log = <<>> /\ Len(log) = 0 /\ calls = <<>> /\ Len(calls) = 0
      /\ worker.phase = "idle"
      /\ \A id \in CommandIds : receipts[id].status = "none"
  BY DEF Init, IdleWorker, NoReceipt
<1>2. ReceiptsMatchLog
  BY <1>1 DEF ReceiptsMatchLog, EventsOf
<1> QED
  BY <1>1, <1>2, InitModelInv
  DEF ReceiptInv, WorkerInv, WorkerWrites, WorkerWrote, RefusedHasNoReceipt,
      DecidedOnCommittedState, AnswersAreTruthful

(* The types used below.                                                   *)
LEMMA LogTypes ==
  ASSUME ModelInv
  PROVE  /\ log \in Seq(Events) /\ txn \in Seq(Events) /\ readModel \in Seq(Events)
         /\ Len(log) \in Nat /\ Len(txn) \in Nat /\ Len(readModel) \in Nat
         /\ receipts \in [CommandIds -> Receipts]
         /\ calls \in Seq([req : Requests, answer : Answers]) /\ Len(calls) \in Nat
         /\ worker \in [phase : Phases, call : Nat, start : Nat, todo : Seq(Bodies),
                        failure : {"none", "invariant", "storage"}]
         /\ \A i \in 1..Len(log) :
                log[i] \in Events /\ log[i].req \in Requests /\ IdOf[log[i].req] \in CommandIds
<1>1. log \in Seq(Events)
  BY DEF ModelInv, TypeInv, TypeOK
<1>2. \A i \in 1..Len(log) :
          log[i] \in Events /\ log[i].req \in Requests /\ IdOf[log[i].req] \in CommandIds
  <2> SUFFICES ASSUME NEW i \in 1..Len(log)
               PROVE  log[i] \in Events /\ log[i].req \in Requests
                      /\ IdOf[log[i].req] \in CommandIds
    OBVIOUS
  <2>1. log[i] \in Events
    BY <1>1, ElementOfSeq
  <2>2. log[i].req \in Requests
    BY <2>1 DEF Events
  <2> QED BY <2>1, <2>2, ConstantsAssumption
<1> QED BY <1>1, <1>2 DEF ModelInv, TypeInv, TypeOK

(* Submitting a command leaves the one the worker holds as it is.          *)
LEMMA DispatchKeepsCurrent ==
  ASSUME ModelInv, NEW r \in Requests, Dispatch(r), worker.phase \notin {"idle", "down"}
  PROVE  CurrentRequest' = CurrentRequest /\ CurrentReceipt' = CurrentReceipt
<1> DEFINE call == [req |-> r, answer |-> Waiting]
<1>1. call \in [req : Requests, answer : Answers]
  BY DEF Answers
<1>2. calls \in Seq([req : Requests, answer : Answers]) /\ worker.call \in 1..Len(calls)
  BY DEF ModelInv, TypeInv, TypeOK, EnvelopesExist
<1>3. calls' = Append(calls, call) /\ worker' = worker /\ receipts' = receipts
  BY DEF Dispatch
<1>4. calls'[worker.call] = calls[worker.call]
  <2> HIDE DEF call
  <2> QED BY <1>1, <1>2, <1>3, AppendProperties
<1> QED BY <1>3, <1>4 DEF CurrentRequest, CurrentReceipt

(* The events of the transaction are numbered after the log, and the       *)
(* receipt names the last of them.                                         *)
LEMMA CommitNumbers ==
  ASSUME ModelInv, WorkerInv, CommitTransaction
  PROVE  /\ log = readModel
         /\ Len(txn) = Len(Decision) /\ Len(txn) > 0
         /\ SnapshotSequence(txn) = Len(log) + Len(txn)
         /\ Len(log') = Len(log) + Len(txn)
         /\ \A i \in 1..Len(log) : log'[i] = log[i]
         /\ \A i \in 1..Len(txn) :
                /\ log'[Len(log) + i].req = CurrentRequest
                /\ log'[Len(log) + i].body = Decision[i]
<1>1. /\ worker.phase = "append" /\ worker.todo = <<>> /\ log' = log \o txn
      /\ log \in Seq(Events) /\ txn \in Seq(Events)
      /\ Len(log) \in Nat /\ Len(txn) \in Nat
  BY LogTypes DEF CommitTransaction
<1>2. log = readModel
  BY <1>1 DEF ModelInv, ReadModelIsLog
<1>3. /\ Decision \in Decisions /\ Decision # <<>>
      /\ Len(txn) + Len(worker.todo) = Len(Decision)
      /\ \A i \in 1..Len(txn) : txn[i].req = CurrentRequest /\ txn[i].body = Decision[i]
  BY <1>1 DEF WorkerInv, WorkerWrites
<1>4. Len(txn) = Len(Decision) /\ Len(txn) > 0
  <2>1. Decision \in Seq(Bodies)
    BY <1>3, ConstantsAssumption
  <2>2. Len(Decision) \in Nat \ {0}
    BY <1>3, <2>1, EmptySeq
  <2>3. Len(worker.todo) = 0
    BY <1>1
  <2> QED BY <1>1, <1>3, <2>2, <2>3
<1>5. SnapshotSequence(txn) = Len(log) + Len(txn)
  <2>1. txn # <<>> /\ Len(txn) \in 1..Len(txn)
    BY <1>1, <1>4
  <2> QED BY <1>2, <2>1 DEF SnapshotSequence, ModelInv, TxnNumbered
<1>6. /\ Len(log') = Len(log) + Len(txn)
      /\ \A i \in 1..Len(log) + Len(txn) :
             log'[i] = IF i <= Len(log) THEN log[i] ELSE txn[i - Len(log)]
  BY <1>1, ConcatProperties
<1>7. \A i \in 1..Len(log) : log'[i] = log[i]
  BY <1>1, <1>6
<1>8. \A i \in 1..Len(txn) : log'[Len(log) + i] = txn[i]
  BY <1>1, <1>6
<1> QED BY <1>2, <1>3, <1>4, <1>5, <1>6, <1>7, <1>8

(* The next event of the decision joins the transaction.                   *)
LEMMA AppendKeepsDecision ==
  ASSUME ModelInv, WorkerInv, AppendEvent
  PROVE  WorkerInv'
<1> DEFINE event == [seq |-> Len(log) + Len(txn) + 1, req |-> CurrentRequest,
                     body |-> Head(worker.todo)]
<1>1. /\ worker.phase = "append" /\ worker.todo # <<>>
      /\ txn' = Append(txn, event) /\ worker' = [worker EXCEPT !.todo = Tail(@)]
      /\ UNCHANGED <<log, receipts, calls, loaded>>
      /\ worker.todo \in Seq(Bodies) /\ txn \in Seq(Events)
      /\ Len(txn) \in Nat /\ Len(worker.todo) \in Nat
  BY LogTypes DEF AppendEvent
<1>0. Len(txn) \in Nat /\ Len(worker.todo) \in Nat
  BY <1>1
<1>2. /\ worker'.phase = "append" /\ worker'.todo = Tail(worker.todo)
      /\ CurrentRequest' = CurrentRequest /\ CurrentReceipt' = CurrentReceipt
      /\ Decision' = Decision
  BY <1>1, LogTypes DEF CurrentRequest, CurrentReceipt, Decision
<1>3. /\ Head(worker.todo) = worker.todo[1] /\ Len(worker.todo) > 0
      /\ Len(Tail(worker.todo)) = Len(worker.todo) - 1
      /\ \A i \in 1..Len(worker.todo) - 1 : Tail(worker.todo)[i] = worker.todo[i + 1]
  <2>1. /\ Len(Tail(worker.todo)) = Len(worker.todo) - 1
        /\ \A i \in 1..Len(Tail(worker.todo)) : Tail(worker.todo)[i] = worker.todo[i + 1]
    BY <1>1, HeadTailProperties
  <2>2. Len(worker.todo) > 0
    BY <1>1, EmptySeq
  <2> QED BY <1>1, <2>1, <2>2
<1>4. event \in Events
  <2>1. CurrentRequest \in Requests
    BY <1>1, CurrentTypes DEF ModelInv
  <2>2. Head(worker.todo) \in Bodies
    BY <1>1, HeadTailProperties
  <2>3. Len(log) + Len(txn) + 1 \in Nat \ {0}
    BY LogTypes
  <2> QED BY <2>1, <2>2, <2>3 DEF Events
<1>5. /\ Len(txn') = Len(txn) + 1
      /\ \A i \in 1..Len(txn) : txn'[i] = txn[i]
      /\ txn'[Len(txn) + 1] = event
  <2> HIDE DEF event
  <2> QED BY <1>1, <1>4, AppendProperties
<1>6. /\ CurrentReceipt = NoReceipt /\ Decision \in Decisions \ {<<>>}
      /\ Len(txn) + Len(worker.todo) = Len(Decision)
      /\ \A i \in 1..Len(txn) : txn[i].req = CurrentRequest /\ txn[i].body = Decision[i]
      /\ \A i \in 1..Len(worker.todo) : worker.todo[i] = Decision[Len(txn) + i]
  BY <1>1 DEF WorkerInv, WorkerWrites
<1>7. event.req = CurrentRequest /\ event.body = Decision[Len(txn) + 1]
  <2>1. 1 \in 1..Len(worker.todo)
    BY <1>1, <1>3
  <2> QED BY <1>3, <1>6, <2>1
<1> HIDE DEF event
<1>8. \A i \in 1..Len(txn') : txn'[i].req = CurrentRequest /\ txn'[i].body = Decision[i]
  <2> SUFFICES ASSUME NEW i \in 1..Len(txn) + 1
               PROVE  txn'[i].req = CurrentRequest /\ txn'[i].body = Decision[i]
    BY <1>5
  <2>1. CASE i \in 1..Len(txn)
    BY <1>5, <1>6, <2>1
  <2>2. CASE i = Len(txn) + 1
    BY <1>5, <1>7, <2>2
  <2> QED BY <1>1, <2>1, <2>2
<1>9. \A i \in 1..Len(worker'.todo) : worker'.todo[i] = Decision[Len(txn') + i]
  <2> SUFFICES ASSUME NEW i \in 1..Len(worker.todo) - 1
               PROVE  Tail(worker.todo)[i] = Decision[Len(txn) + 1 + i]
    BY <1>2, <1>3, <1>5
  <2>1. i + 1 \in 1..Len(worker.todo) /\ Len(txn) + (i + 1) = Len(txn) + 1 + i
    BY <1>0
  <2> QED BY <1>3, <1>6, <2>1
<1>10. Len(txn') + Len(worker'.todo) = Len(Decision)
  <2>1. Len(txn') = Len(txn) + 1 /\ Len(worker'.todo) = Len(worker.todo) - 1
    BY <1>2, <1>3, <1>5
  <2>2. \A m, n \in Nat : (m + 1) + (n - 1) = m + n
    OBVIOUS
  <2> QED BY <1>0, <1>6, <2>1, <2>2, Zenon
<1>11. WorkerWrites'
  BY <1>2, <1>6, <1>8, <1>9, <1>10 DEF WorkerWrites
<1> QED BY <1>2, <1>11 DEF WorkerInv, WorkerWrote, RefusedHasNoReceipt

(* What the worker knows about its envelope stays true: one step per       *)
(* action that goes on with the envelope.                                  *)
LEMMA NextWorkerInv == ModelInv /\ WorkerInv /\ [Next]_vars => WorkerInv'
<1> SUFFICES ASSUME ModelInv, WorkerInv, [Next]_vars PROVE WorkerInv'
  OBVIOUS
<1>1. /\ worker \in [phase : Phases, call : Nat, start : Nat, todo : Seq(Bodies),
                     failure : {"none", "invariant", "storage"}]
      /\ receipts \in [CommandIds -> Receipts]
  BY LogTypes
<1>2. ASSUME worker'.phase \notin {"append", "committed", "publish", "reconcile", "republish", "record"}
      PROVE  WorkerInv'
  BY <1>2 DEF WorkerInv, WorkerWrites, WorkerWrote, RefusedHasNoReceipt
<1>3. ASSUME UNCHANGED <<log, receipts, txn, calls, worker, loaded>> PROVE WorkerInv'
  BY <1>3
  DEF WorkerInv, WorkerWrites, WorkerWrote, RefusedHasNoReceipt, CurrentReceipt, CurrentRequest,
      Decision
<1>4. ASSUME UNCHANGED <<calls, receipts>>, worker'.call = worker.call
      PROVE  CurrentRequest' = CurrentRequest /\ CurrentReceipt' = CurrentReceipt
  BY <1>4 DEF CurrentRequest, CurrentReceipt
<1>5. ASSUME UNCHANGED <<calls, receipts>>, worker'.call = worker.call,
             worker'.phase \in {"reconcile", "republish", "record"},
             worker'.phase = "record" \/ worker'.failure = "invariant" => CurrentReceipt = NoReceipt
      PROVE  WorkerInv'
  BY <1>4, <1>5 DEF WorkerInv, WorkerWrites, WorkerWrote, RefusedHasNoReceipt
<1>6. ASSUME NEW r \in Requests, Dispatch(r) PROVE WorkerInv'
  <2>1. UNCHANGED <<log, receipts, txn, worker, loaded>>
    BY <1>6 DEF Dispatch
  <2>2. CASE worker.phase \in {"idle", "down"}
    BY <1>2, <2>1, <2>2
  <2>3. CASE worker.phase \notin {"idle", "down"}
    <3>1. CurrentRequest' = CurrentRequest /\ CurrentReceipt' = CurrentReceipt
      BY <1>6, <2>3, DispatchKeepsCurrent
    <3>2. Decision' = Decision
      BY <2>1, <3>1 DEF Decision
    <3> QED
      BY <2>1, <3>1, <3>2 DEF WorkerInv, WorkerWrites, WorkerWrote, RefusedHasNoReceipt
  <2> QED BY <2>2, <2>3
<1>7. ASSUME NEW s \in Subscribers, Subscribe(s) PROVE WorkerInv'
  BY <1>3, <1>7 DEF Subscribe
<1>8. ASSUME TakeCommand PROVE WorkerInv'
  BY <1>2, <1>8 DEF TakeCommand
<1>9. ASSUME AnswerFromReceipt \/ AnswerAccepted \/ AnswerFailure PROVE WorkerInv'
  BY <1>2, <1>9 DEF AnswerFromReceipt, AnswerAccepted, AnswerFailure, Answer, IdleWorker
<1>10. ASSUME DecideCommand PROVE WorkerInv'
  <2>1. /\ worker.phase = "lookup" /\ CurrentReceipt = NoReceipt
        /\ UNCHANGED <<log, receipts, txn, calls, loaded>>
    BY <1>10 DEF DecideCommand, Unhandled
  <2>2. log = readModel /\ txn = <<>> /\ Len(txn) = 0
    BY <2>1 DEF ModelInv, ReadModelIsLog, TxnOnlyWhenWriting
  <2>3. Decision = Decide(CurrentRequest, CommandReadModel) /\ Decision \in Decisions
    BY <1>10, <2>2 DEF DecideCommand, Decision, CommandReadModel
  <2>4. CASE Decision = <<>>
    <3>1. worker'.call = worker.call /\ worker'.phase = "reconcile"
      BY <1>1, <1>10, <2>3, <2>4 DEF DecideCommand, FailWith
    <3> QED BY <1>5, <2>1, <3>1
  <2>5. CASE Decision # <<>>
    <3>1. worker'.call = worker.call /\ worker'.phase = "append" /\ worker'.todo = Decision
      BY <1>1, <1>10, <2>3, <2>5 DEF DecideCommand
    <3>2. CurrentRequest' = CurrentRequest /\ CurrentReceipt' = CurrentReceipt
      BY <1>4, <2>1, <3>1
    <3>3. Decision' = Decision
      BY <2>1, <3>2 DEF Decision
    <3>4. Len(Decision) \in Nat
      BY <2>3, ConstantsAssumption
    <3>5. /\ txn' = <<>> /\ Len(txn') = 0 /\ 0 + Len(Decision) = Len(Decision)
          /\ \A i \in 1..Len(Decision) : 0 + i = i
      BY <2>1, <2>2, <3>4
    <3>6. WorkerWrites'
      BY <2>1, <2>3, <2>5, <3>1, <3>2, <3>3, <3>5 DEF WorkerWrites
    <3> QED BY <3>1, <3>6 DEF WorkerInv, WorkerWrote, RefusedHasNoReceipt
  <2> QED BY <2>4, <2>5
<1>11. ASSUME EventIdFails PROVE WorkerInv'
  BY <1>1, <1>5, <1>11 DEF EventIdFails, FailWith, Unhandled
<1>12. ASSUME AppendEvent PROVE WorkerInv'
  BY <1>12, AppendKeepsDecision
<1>13. ASSUME CommitTransaction PROVE WorkerInv'
  <2>1. /\ worker.phase = "append" /\ worker'.phase = "committed" /\ worker'.call = worker.call
        /\ UNCHANGED calls
        /\ receipts' = [receipts EXCEPT ![IdOf[CurrentRequest]] =
                            [status |-> "accepted", aggregate |-> AggregateOf[CurrentRequest],
                             seq |-> SnapshotSequence(txn)]]
    BY <1>1, <1>13 DEF CommitTransaction
  <2>2. IdOf[CurrentRequest] \in CommandIds
    BY <2>1, CurrentTypes DEF ModelInv
  <2>3. CurrentRequest' = CurrentRequest
    BY <2>1 DEF CurrentRequest
  <2>4. SnapshotSequence(txn) = Len(log')
    BY <1>13, CommitNumbers
  <2>5. CurrentReceipt' = [status |-> "accepted", aggregate |-> AggregateOf[CurrentRequest],
                           seq |-> SnapshotSequence(txn)]
    BY <1>1, <2>1, <2>2, <2>3 DEF CurrentReceipt
  <2> QED
    BY <2>1, <2>3, <2>4, <2>5 DEF WorkerInv, WorkerWrites, WorkerWrote, RefusedHasNoReceipt
<1>14. ASSUME StorageFails PROVE WorkerInv'
  BY <1>1, <1>5, <1>14 DEF StorageFails
<1>15. ASSUME AdvanceReadModel PROVE WorkerInv'
  <2>1. /\ worker.phase = "committed" /\ worker'.phase = "publish" /\ worker'.call = worker.call
        /\ UNCHANGED <<log, receipts, calls>>
    BY <1>1, <1>15 DEF AdvanceReadModel
  <2>2. CurrentRequest' = CurrentRequest /\ CurrentReceipt' = CurrentReceipt
    BY <1>4, <2>1
  <2> QED BY <2>1, <2>2 DEF WorkerInv, WorkerWrites, WorkerWrote, RefusedHasNoReceipt
<1>16. ASSUME PublishEvent PROVE WorkerInv'
  BY <1>3, <1>16 DEF PublishEvent, WorkerInv, WorkerWrites
<1>17. ASSUME Reconcile \/ ReconcileFails PROVE WorkerInv'
  <2>1. /\ worker.phase = "reconcile" /\ worker' = [worker EXCEPT !.phase = "republish"]
        /\ UNCHANGED <<receipts, calls>>
    BY <1>17 DEF Reconcile, ReconcileFails
  <2> QED BY <1>1, <1>5, <2>1 DEF WorkerInv, RefusedHasNoReceipt
<1>18. ASSUME RepublishDone PROVE WorkerInv'
  <2>1. /\ worker.phase = "republish" /\ UNCHANGED <<receipts, calls>>
        /\ worker' = [worker EXCEPT !.phase = IF worker.failure = "invariant" THEN "record" ELSE "fail"]
    BY <1>18 DEF RepublishDone
  <2>2. CASE worker.failure = "invariant"
    BY <1>1, <1>5, <2>1, <2>2 DEF WorkerInv, RefusedHasNoReceipt
  <2>3. CASE worker.failure # "invariant"
    BY <1>1, <1>2, <2>1, <2>3
  <2> QED BY <2>2, <2>3
<1>19. ASSUME RecordRejection \/ RejectionNotRecorded PROVE WorkerInv'
  <2>1. worker'.phase = "fail"
    BY <1>1, <1>19 DEF RecordRejection, RejectionNotRecorded
  <2> QED BY <1>2, <2>1
<1>20. ASSUME Crash \/ Boot PROVE WorkerInv'
  BY <1>2, <1>20 DEF Crash, Boot, IdleWorker
<1>21. ASSUME UNCHANGED vars PROVE WorkerInv'
  BY <1>3, <1>21 DEF vars
<1> QED
  BY <1>6, <1>7, <1>8, <1>9, <1>10, <1>11, <1>12, <1>13, <1>14, <1>15, <1>16, <1>17, <1>18,
     <1>19, <1>20, <1>21 DEF Next, WorkerStep

(* Only a commit and a rejection write receipts, both for an id that has   *)
(* none, and only a commit writes to the log.                              *)
LEMMA WhatIsWritten ==
  ASSUME ModelInv, WorkerInv, [Next]_vars
  PROVE  \/ UNCHANGED <<log, receipts>>
         \/ CommitTransaction /\ CurrentReceipt = NoReceipt
         \/ RecordRejection /\ CurrentReceipt = NoReceipt
<1>1. CASE CommitTransaction
  BY <1>1 DEF CommitTransaction, WorkerInv, WorkerWrites
<1>2. CASE RecordRejection
  BY <1>2 DEF RecordRejection, WorkerInv, RefusedHasNoReceipt
<1>3. CASE \E r \in Requests : Dispatch(r)
  BY <1>3 DEF Dispatch
<1>4. CASE \E s \in Subscribers : Subscribe(s)
  BY <1>4 DEF Subscribe
<1>5. CASE WorkerStep /\ ~CommitTransaction /\ ~RecordRejection
  BY <1>5
  DEF WorkerStep, TakeCommand, AnswerFromReceipt, DecideCommand, EventIdFails, AppendEvent,
      StorageFails, AdvanceReadModel, PublishEvent, AnswerAccepted, Reconcile, ReconcileFails,
      RepublishDone, RejectionNotRecorded, AnswerFailure
<1>6. CASE Crash \/ Boot \/ UNCHANGED vars
  BY <1>6 DEF Crash, Boot, vars
<1> QED BY <1>1, <1>2, <1>3, <1>4, <1>5, <1>6 DEF Next

(* A receipt once written is never written again.                          *)
LEMMA ReceiptsStay ==
  ASSUME ModelInv, WorkerInv, [Next]_vars
  PROVE  \A id \in CommandIds : receipts[id] # NoReceipt => receipts'[id] = receipts[id]
<1>1. receipts \in [CommandIds -> Receipts]
  BY LogTypes
<1>2. CASE UNCHANGED <<log, receipts>>
  BY <1>2
<1>3. CASE CommitTransaction /\ CurrentReceipt = NoReceipt
  BY <1>1, <1>3 DEF CommitTransaction, CurrentReceipt
<1>4. CASE RecordRejection /\ CurrentReceipt = NoReceipt
  BY <1>1, <1>4 DEF RecordRejection, CurrentReceipt
<1> QED BY <1>2, <1>3, <1>4, WhatIsWritten

(* A commit gives its id all the new events and only those; a rejection    *)
(* goes to an id without events.                                           *)
LEMMA NextReceiptsMatchLog ==
  ASSUME ModelInv, WorkerInv, ReceiptsMatchLog, [Next]_vars
  PROVE  ReceiptsMatchLog'
<1>1. /\ receipts \in [CommandIds -> Receipts] /\ Len(log) \in Nat /\ Len(txn) \in Nat
      /\ \A i \in 1..Len(log) : IdOf[log[i].req] \in CommandIds
  BY LogTypes
<1>2. CASE UNCHANGED <<log, receipts>>
  BY <1>2 DEF ReceiptsMatchLog, EventsOf
<1>3. CASE CommitTransaction /\ CurrentReceipt = NoReceipt
  <2> DEFINE n == Len(log)
             m == Len(txn)
  <2>0. CurrentRequest \in Requests /\ IdOf[CurrentRequest] \in CommandIds
    BY <1>3, CurrentTypes DEF CommitTransaction, ModelInv
  <2>1. PICK current \in CommandIds : current = IdOf[CurrentRequest]
    BY <2>0
  <2>2. /\ receipts'[current] = [status |-> "accepted", aggregate |-> AggregateOf[CurrentRequest],
                                 seq |-> n + m]
        /\ \A id \in CommandIds \ {current} : receipts'[id] = receipts[id]
    BY <1>1, <1>3, <2>1, CommitNumbers DEF CommitTransaction
  <2>3. /\ Len(log') = n + m /\ m > 0
        /\ \A i \in 1..n : log'[i] = log[i]
        /\ \A i \in 1..m : log'[n + i].req = CurrentRequest
    BY <1>3, CommitNumbers
  <2>4. EventsOf(current) = {}
    <3>1. receipts[current] = NoReceipt
      BY <1>3, <2>1 DEF CurrentReceipt
    <3> QED BY <2>1, <3>1 DEF ReceiptsMatchLog, NoReceipt
  <2>5. \A i \in n + 1 .. n + m : log'[i].req = CurrentRequest
    <3> SUFFICES ASSUME NEW i \in n + 1 .. n + m PROVE log'[i].req = CurrentRequest
      OBVIOUS
    <3>1. i - n \in 1..m /\ n + (i - n) = i
      BY <1>1
    <3> QED BY <2>3, <3>1
  <2>6. ASSUME NEW id \in CommandIds \ {current} PROVE EventsOf(id)' = EventsOf(id)
    <3>1. \A i \in 1..n + m : i \in 1..n \/ i \in n + 1 .. n + m
      BY <1>1
    <3>2. \A i \in 1..n + m : IdOf[log'[i].req] = id => i \in 1..n
      BY <2>1, <2>5, <2>6, <3>1
    <3>3. \A i \in 1..n : i \in 1..n + m
      BY <1>1
    <3> QED BY <2>3, <3>2, <3>3 DEF EventsOf
  <2>7. EventsOf(current)' = n + 1 .. n + m
    <3>1. \A i \in 1..n : IdOf[log'[i].req] # current
      BY <2>3, <2>4 DEF EventsOf
    <3>2. \A i \in 1..n + m : i \in 1..n \/ i \in n + 1 .. n + m
      BY <1>1
    <3>3. \A i \in n + 1 .. n + m : i \in 1..n + m /\ IdOf[log'[i].req] = current
      BY <1>1, <2>1, <2>5
    <3> QED BY <2>3, <3>1, <3>2, <3>3 DEF EventsOf
  <2>8. /\ n + m \in n + 1 .. n + m
        /\ \A i \in n + 1 .. n + m : i <= n + m /\ i .. n + m \subseteq n + 1 .. n + m
    BY <1>1, <2>3
  <2>9. ASSUME NEW id \in CommandIds, receipts'[id].status = "accepted"
        PROVE  /\ receipts'[id].seq \in EventsOf(id)'
               /\ \A i \in EventsOf(id)' :
                      /\ i <= receipts'[id].seq
                      /\ i..receipts'[id].seq \subseteq EventsOf(id)'
                      /\ log'[i].req = log'[receipts'[id].seq].req
                      /\ AggregateOf[log'[i].req] = receipts'[id].aggregate
    <3>1. CASE id = current
      <4>1. /\ receipts'[id].seq = n + m /\ EventsOf(id)' = n + 1 .. n + m
            /\ receipts'[id].aggregate = AggregateOf[CurrentRequest]
        BY <2>2, <2>7, <3>1
      <4> QED BY <2>5, <2>8, <4>1
    <3>2. CASE id # current
      <4>1. receipts'[id] = receipts[id] /\ EventsOf(id)' = EventsOf(id)
        BY <2>2, <2>6, <3>2
      <4>2. \A i \in EventsOf(id) : log'[i] = log[i]
        BY <2>3 DEF EventsOf
      <4> QED BY <2>9, <4>1, <4>2 DEF ReceiptsMatchLog
    <3> QED BY <3>1, <3>2
  <2>10. ASSUME NEW id \in CommandIds, receipts'[id].status # "accepted"
         PROVE  EventsOf(id)' = {}
    <3>1. id # current
      BY <2>2, <2>10
    <3>2. receipts'[id] = receipts[id] /\ EventsOf(id)' = EventsOf(id)
      BY <2>2, <2>6, <3>1
    <3> QED BY <2>10, <3>2 DEF ReceiptsMatchLog
  <2> QED BY <2>9, <2>10 DEF ReceiptsMatchLog
<1>4. CASE RecordRejection /\ CurrentReceipt = NoReceipt
  <2> DEFINE current == IdOf[CurrentRequest]
  <2>1. current \in CommandIds /\ log' = log
    BY <1>4, CurrentTypes DEF RecordRejection, ModelInv
  <2>2. /\ receipts'[current].status = "rejected"
        /\ \A id \in CommandIds \ {current} : receipts'[id] = receipts[id]
    BY <1>1, <1>4, <2>1 DEF RecordRejection
  <2>3. EventsOf(current) = {}
    BY <1>4, <2>1 DEF CurrentReceipt, NoReceipt, ReceiptsMatchLog
  <2>4. \A id \in CommandIds : EventsOf(id)' = EventsOf(id)
    BY <2>1 DEF EventsOf
  <2> HIDE DEF current
  <2>5. ASSUME NEW id \in CommandIds
        PROVE  IF receipts'[id].status = "accepted"
               THEN /\ receipts'[id].seq \in EventsOf(id)
                    /\ \A i \in EventsOf(id) :
                           /\ i <= receipts'[id].seq
                           /\ i..receipts'[id].seq \subseteq EventsOf(id)
                           /\ log[i].req = log[receipts'[id].seq].req
                           /\ AggregateOf[log[i].req] = receipts'[id].aggregate
               ELSE EventsOf(id) = {}
    <3>1. CASE id = current
      BY <2>2, <2>3, <3>1
    <3>2. CASE id # current
      BY <2>2, <3>2 DEF ReceiptsMatchLog
    <3> QED BY <3>1, <3>2
  <2> QED BY <2>1, <2>4, <2>5 DEF ReceiptsMatchLog
<1> QED BY <1>2, <1>3, <1>4, WhatIsWritten

(* Two sequences of bodies are the same when one is written as a function. *)
LEMMA FunctionEqualsSeq ==
  ASSUME NEW S, NEW d \in Seq(S), NEW f \in [1..Len(d) -> S],
         \A i \in 1..Len(d) : f[i] = d[i]
  PROVE  f = d
<1>1. Len(d) \in Nat
  OBVIOUS
<1>2. f \in Seq(S) /\ Len(f) = Len(d)
  BY <1>1, FunctionIsSeq
<1> QED BY <1>2, SeqEqual

(* An event of the log belongs to an accepted command, whose receipt names *)
(* a position of the log that is not before it.                            *)
LEMMA LoggedIsAccepted ==
  ASSUME ModelInv, ReceiptsMatchLog, NEW i \in 1..Len(log)
  PROVE  /\ IdOf[log[i].req] \in CommandIds
         /\ receipts[IdOf[log[i].req]].status = "accepted"
         /\ receipts[IdOf[log[i].req]].seq \in i..Len(log)
<1>1. IdOf[log[i].req] \in CommandIds /\ Len(log) \in Nat
  BY LogTypes
<1>2. PICK id \in CommandIds : id = IdOf[log[i].req]
  BY <1>1
<1>3. i \in EventsOf(id)
  BY <1>2 DEF EventsOf
<1>4. receipts[id].status = "accepted"
  BY <1>3 DEF ReceiptsMatchLog
<1>5. receipts[id].seq \in EventsOf(id) /\ i <= receipts[id].seq
  BY <1>3, <1>4 DEF ReceiptsMatchLog
<1> QED BY <1>1, <1>2, <1>4, <1>5 DEF EventsOf

(* Only a boot changes the set of boots, by the end of the log.            *)
LEMMA WhatBoots ==
  ASSUME [Next]_vars
  PROVE  boots' = boots \/ boots' = boots \cup {Len(log)}
<1>1. CASE \/ \E r \in Requests : Dispatch(r)
           \/ \E s \in Subscribers : Subscribe(s)
           \/ Crash \/ Boot
           \/ UNCHANGED vars
  BY <1>1 DEF Dispatch, Subscribe, Crash, Boot, vars
<1>2. CASE \/ TakeCommand \/ AnswerFromReceipt \/ DecideCommand \/ EventIdFails
           \/ AppendEvent \/ CommitTransaction \/ StorageFails
  BY <1>2
  DEF TakeCommand, AnswerFromReceipt, DecideCommand, EventIdFails, AppendEvent,
      CommitTransaction, StorageFails
<1>3. CASE \/ AdvanceReadModel \/ PublishEvent \/ AnswerAccepted
           \/ Reconcile \/ ReconcileFails \/ RepublishDone
           \/ RecordRejection \/ RejectionNotRecorded \/ AnswerFailure
  BY <1>3
  DEF AdvanceReadModel, PublishEvent, AnswerAccepted, Reconcile, ReconcileFails, RepublishDone,
      RecordRejection, RejectionNotRecorded, AnswerFailure
<1> QED BY <1>1, <1>2, <1>3 DEF Next, WorkerStep

(* The batch a commit adds is the decision on the log before it, and the   *)
(* older batches are read as before.                                       *)
LEMMA NextDecidedOnCommittedState ==
  ASSUME ModelInv, WorkerInv, ReceiptsMatchLog, DecidedOnCommittedState, [Next]_vars
  PROVE  DecidedOnCommittedState'
<1>1. /\ receipts \in [CommandIds -> Receipts] /\ Len(log) \in Nat /\ Len(txn) \in Nat
      /\ log \in Seq(Events) /\ txn \in Seq(Events)
  BY LogTypes
<1>b. /\ boots \subseteq Nat /\ loaded \in boots
      /\ \A b \in boots : b <= loaded /\ b <= Len(log)
  BY DEF ModelInv, TypeInv, TypeOK, LoadedAtBoot
<1>2. CASE UNCHANGED <<log, receipts>>
  (***********************************************************************)
  (* A boot at the end of the log concerns no command decided before it. *)
  (***********************************************************************)
  <2>1. boots' = boots \/ boots' = boots \cup {Len(log)}
    BY WhatBoots
  <2>2. \A i \in 1..Len(log) : {b \in boots' : b < i} = {b \in boots : b < i}
    BY <1>1, <1>b, <2>1
  <2> SUFFICES ASSUME NEW i \in 1..Len(log'),
                      i = 1 \/ IdOf[log'[i - 1].req] # IdOf[log'[i].req],
                      NEW b \in boots', b < i, \A c \in boots' : c < i => c <= b
               PROVE  BodiesIn(i, receipts[IdOf[log[i].req]].seq)'
                        = Decide(log'[i].req, ReadModelOf(SubSeq(log', 1, i - 1), b))
    BY DEF DecidedOnCommittedState
  <2>3. i \in 1..Len(log) /\ b \in boots /\ \A c \in boots : c < i => c <= b
    BY <1>2, <2>2
  <2>4. BodiesIn(i, receipts[IdOf[log[i].req]].seq)
          = Decide(log[i].req, ReadModelOf(SubSeq(log, 1, i - 1), b))
    BY <1>2, <2>3 DEF DecidedOnCommittedState
  <2>5. BodiesIn(i, receipts[IdOf[log[i].req]].seq)' = BodiesIn(i, receipts[IdOf[log[i].req]].seq)
    BY <1>2 DEF BodiesIn
  <2> QED BY <1>2, <2>4, <2>5, Zenon
<1>3. CASE CommitTransaction /\ CurrentReceipt = NoReceipt
  <2> DEFINE n == Len(log)
             m == Len(txn)
  <2>0. boots' = boots
    BY <1>3 DEF CommitTransaction
  <2>1. /\ CurrentRequest \in Requests /\ IdOf[CurrentRequest] \in CommandIds
        /\ receipts[IdOf[CurrentRequest]].status # "accepted"
    BY <1>3, CurrentTypes DEF CommitTransaction, ModelInv, CurrentReceipt, NoReceipt
  <2>2. /\ Len(log') = n + m /\ m > 0 /\ log' = log \o txn /\ m = Len(Decision)
        /\ \A i \in 1..n : log'[i] = log[i]
        /\ \A i \in 1..m : log'[n + i].req = CurrentRequest /\ log'[n + i].body = Decision[i]
    BY <1>3, CommitNumbers DEF CommitTransaction
  <2>3. /\ receipts'[IdOf[CurrentRequest]].seq = n + m
        /\ \A id \in CommandIds \ {IdOf[CurrentRequest]} : receipts'[id] = receipts[id]
    BY <1>1, <1>3, <2>1, CommitNumbers DEF CommitTransaction
  <2>4. Decision \in Seq(Bodies)
    BY <1>3, ConstantsAssumption DEF CommitTransaction, WorkerInv, WorkerWrites
  <2> SUFFICES ASSUME NEW i \in 1..n + m,
                      i = 1 \/ IdOf[log'[i - 1].req] # IdOf[log'[i].req],
                      NEW b \in boots, b < i, \A c \in boots : c < i => c <= b
               PROVE  [k \in 1..(receipts'[IdOf[log'[i].req]].seq - i + 1) |-> log'[i + k - 1].body]
                        = Decide(log'[i].req, ReadModelOf(SubSeq(log', 1, i - 1), b))
    BY <2>0, <2>2 DEF DecidedOnCommittedState, BodiesIn
  <2>5. CASE i \in 1..n
    <3> DEFINE id == IdOf[log[i].req]
               last == receipts[id].seq
    <3>1. id \in CommandIds /\ receipts[id].status = "accepted" /\ last \in i..n
      BY <2>5, LoggedIsAccepted
    <3>2. receipts'[id] = receipts[id] /\ log'[i] = log[i]
      BY <2>1, <2>2, <2>3, <2>5, <3>1
    <3>3. i = 1 \/ IdOf[log[i - 1].req] # id
      <4>1. i # 1 => i - 1 \in 1..n
        BY <1>1, <2>5
      <4> QED BY <2>2, <3>2, <4>1
    <3>4. [k \in 1..(last - i + 1) |-> log[i + k - 1].body]
            = Decide(log[i].req, ReadModelOf(SubSeq(log, 1, i - 1), b))
      BY <2>5, <3>3 DEF DecidedOnCommittedState, BodiesIn
    <3>5. \A k \in 1..(last - i + 1) : log'[i + k - 1] = log[i + k - 1]
      <4> SUFFICES ASSUME NEW k \in 1..(last - i + 1) PROVE log'[i + k - 1] = log[i + k - 1]
        OBVIOUS
      <4> HIDE DEF id, last
      <4>1. last \in Nat /\ last <= n
        BY <1>1, <2>5, <3>1
      <4>2. i + k - 1 \in 1..n
        BY <1>1, <2>5, <4>1
      <4> QED BY <2>2, <4>2
    <3>6. SubSeq(log', 1, i - 1) = SubSeq(log, 1, i - 1)
      <4>1. CASE i = 1
        <5>1. i - 1 \in Int /\ i - 1 < 1
          BY <4>1
        <5> QED BY <5>1, SubSeqEmpty
      <4>2. CASE i # 1
        <5>1. 1 \in 1..Len(log) /\ i - 1 \in 1..Len(log)
          BY <1>1, <2>5, <4>2
        <5> QED BY <1>1, <2>2, <5>1, SubSeqOfConcat1
      <4> QED BY <4>1, <4>2
    <3> HIDE DEF id, last
    <3>7. [k \in 1..(last - i + 1) |-> log'[i + k - 1].body]
            = [k \in 1..(last - i + 1) |-> log[i + k - 1].body]
      BY <3>5
    <3> QED BY <3>2, <3>4, <3>6, <3>7 DEF id, last
  <2>6. CASE i = n + 1
    <3>1. 1 \in 1..m /\ i - 1 = n /\ n + m - i + 1 = m
      BY <1>1, <2>2, <2>6
    <3>2. log'[i].req = CurrentRequest
      BY <2>2, <2>6, <3>1
    <3>3. SubSeq(log', 1, i - 1) = log
      <4>1. CASE n = 0
        <5>1. log = <<>> /\ 0 < 1 /\ i - 1 = 0
          BY <1>1, <3>1, <4>1
        <5> QED BY <5>1, SubSeqEmpty
      <4>2. CASE n # 0
        <5>1. 1 \in 1..Len(log) /\ n \in 1..Len(log)
          BY <1>1, <4>2
        <5> QED BY <1>1, <2>2, <3>1, <5>1, SubSeqOfConcat1, SubSeqFull
      <4> QED BY <4>1, <4>2
    <3>b. b = loaded
      BY <1>1, <1>b, <2>6
    <3>4. \A k \in 1..m : i + k - 1 = n + k
      BY <1>1, <2>6
    <3> DEFINE f == [k \in 1..m |-> log'[i + k - 1].body]
    <3>5. \A k \in 1..m : f[k] = Decision[k] /\ Decision[k] \in Bodies
      BY <2>2, <2>4, <3>4, ElementOfSeq
    <3>6. f \in [1..Len(Decision) -> Bodies]
      BY <2>2, <3>5
    <3>7. f = Decision
      <4> HIDE DEF f
      <4> QED BY <2>2, <2>4, <3>5, <3>6, FunctionEqualsSeq
    <3>8. receipts'[IdOf[log'[i].req]].seq - i + 1 = m
      BY <2>3, <3>1, <3>2
    <3> QED BY <3>2, <3>3, <3>7, <3>8, <3>b, Zenon DEF Decision
  <2>7. CASE i \notin 1..n /\ i # n + 1
    <3>1. i - n \in 1..m /\ i - 1 - n \in 1..m /\ n + (i - n) = i /\ n + (i - 1 - n) = i - 1 /\ i # 1
      BY <1>1, <2>7
    <3>2. /\ log'[n + (i - n)].req = CurrentRequest
          /\ log'[n + (i - 1 - n)].req = CurrentRequest
      BY <2>2, <3>1
    <3>3. log'[i].req = CurrentRequest /\ log'[i - 1].req = CurrentRequest
      BY <3>1, <3>2, Zenon
    <3> QED BY <3>1, <3>3
  <2> QED BY <2>5, <2>6, <2>7
<1>4. CASE RecordRejection /\ CurrentReceipt = NoReceipt
  <2>1. log' = log /\ \A id \in CommandIds : receipts[id] # NoReceipt => receipts'[id] = receipts[id]
    BY <1>4, ReceiptsStay DEF RecordRejection
  <2>2. \A i \in 1..Len(log) : receipts'[IdOf[log[i].req]] = receipts[IdOf[log[i].req]]
    <3> SUFFICES ASSUME NEW i \in 1..Len(log)
                 PROVE  receipts'[IdOf[log[i].req]] = receipts[IdOf[log[i].req]]
      OBVIOUS
    <3>1. IdOf[log[i].req] \in CommandIds /\ receipts[IdOf[log[i].req]].status = "accepted"
      BY LoggedIsAccepted
    <3> QED BY <2>1, <3>1 DEF NoReceipt
  <2>3. boots' = boots
    BY <1>4 DEF RecordRejection
  <2> QED BY <2>1, <2>2, <2>3 DEF DecidedOnCommittedState, BodiesIn
<1> QED BY <1>2, <1>3, <1>4, WhatIsWritten

(* What a call was told, true when its receipt is never written again.     *)
Truthful(entry, receipt) ==
    /\ entry.answer.kind = "ok" =>
          receipt = [status |-> "accepted", aggregate |-> AggregateOf[entry.req],
                     seq |-> entry.answer.seq]
    /\ entry.answer.kind = "rejected" => receipt.status = "rejected"
    /\ entry.answer.kind = "conflict" =>
          receipt # NoReceipt /\ receipt.aggregate # AggregateOf[entry.req]

(* Answering the current call truthfully keeps every answer truthful.      *)
LEMMA TruthfulAnswer ==
  ASSUME ModelInv, AnswersAreTruthful, worker.phase \notin {"idle", "down"},
         NEW a \in Answers, Answer(a), UNCHANGED receipts,
         Truthful([calls[worker.call] EXCEPT !.answer = a], CurrentReceipt)
  PROVE  AnswersAreTruthful'
<1> DEFINE entry == [calls[worker.call] EXCEPT !.answer = a]
<1>1. /\ calls \in Seq([req : Requests, answer : Answers]) /\ worker.call \in 1..Len(calls)
      /\ receipts' = receipts /\ calls' = [calls EXCEPT ![worker.call] = entry]
  BY DEF ModelInv, TypeInv, TypeOK, EnvelopesExist, Answer
<1>2. calls[worker.call] \in [req : Requests, answer : Answers]
  BY <1>1, ElementOfSeq
<1>3. /\ entry \in [req : Requests, answer : Answers]
      /\ entry.req = calls[worker.call].req /\ entry.answer = a
  BY <1>2
<1>4. Truthful(entry, receipts[IdOf[entry.req]])
  BY <1>3 DEF CurrentReceipt, CurrentRequest
<1> HIDE DEF entry
<1>5. /\ Len(calls') = Len(calls)
      /\ \A c \in 1..Len(calls) : calls'[c] = IF c = worker.call THEN entry ELSE calls[c]
  BY <1>1, <1>3, ExceptSeq
<1>6. ASSUME NEW c \in 1..Len(calls) PROVE Truthful(calls'[c], receipts[IdOf[calls'[c].req]])
  <2>1. CASE c = worker.call
    BY <1>4, <1>5, <2>1
  <2>2. CASE c # worker.call
    BY <1>5, <2>2 DEF AnswersAreTruthful, Truthful
  <2> QED BY <2>1, <2>2
<1> QED BY <1>1, <1>5, <1>6 DEF AnswersAreTruthful, Truthful

(* Old answers stay true because their receipts stay; new ones are given   *)
(* from the receipt, from the commit just made, or say nothing of either.  *)
LEMMA NextAnswersAreTruthful ==
  ASSUME ModelInv, WorkerInv, AnswersAreTruthful, [Next]_vars
  PROVE  AnswersAreTruthful'
<1>1. /\ calls \in Seq([req : Requests, answer : Answers]) /\ Len(calls) \in Nat
      /\ receipts \in [CommandIds -> Receipts]
      /\ worker \in [phase : Phases, call : Nat, start : Nat, todo : Seq(Bodies),
                      failure : {"none", "invariant", "storage"}]
      /\ \A c \in 1..Len(calls) : calls[c].req \in Requests /\ IdOf[calls[c].req] \in CommandIds
  <2>1. calls \in Seq([req : Requests, answer : Answers])
    BY LogTypes
  <2>2. \A c \in 1..Len(calls) : calls[c] \in [req : Requests, answer : Answers]
    BY <2>1, ElementOfSeq
  <2>3. \A c \in 1..Len(calls) : calls[c].req \in Requests
    BY <2>2
  <2> QED BY <2>1, <2>3, LogTypes, ConstantsAssumption
<1>2. ASSUME NEW c \in 1..Len(calls)
      PROVE  Truthful(calls[c], receipts'[IdOf[calls[c].req]])
  <2>1. Truthful(calls[c], receipts[IdOf[calls[c].req]])
    BY DEF AnswersAreTruthful, Truthful
  <2>2. CASE receipts[IdOf[calls[c].req]] # NoReceipt
    BY <1>1, <2>1, <2>2, ReceiptsStay
  <2>3. CASE receipts[IdOf[calls[c].req]] = NoReceipt
    BY <2>1, <2>3 DEF Truthful, NoReceipt
  <2> QED BY <2>2, <2>3
<1>3. ASSUME UNCHANGED calls PROVE AnswersAreTruthful'
  BY <1>2, <1>3 DEF AnswersAreTruthful, Truthful
<1>4. ASSUME NEW r \in Requests, Dispatch(r) PROVE AnswersAreTruthful'
  <2> DEFINE call == [req |-> r, answer |-> Waiting]
  <2>1. call \in [req : Requests, answer : Answers]
    BY DEF Answers
  <2>2. calls' = Append(calls, call) /\ receipts' = receipts
    BY <1>4 DEF Dispatch
  <2>3. Truthful(call, receipts[IdOf[call.req]])
    BY DEF Truthful, Waiting
  <2> HIDE DEF call
  <2>4. /\ Len(calls') = Len(calls) + 1 /\ calls'[Len(calls) + 1] = call
        /\ \A c \in 1..Len(calls) : calls'[c] = calls[c]
    BY <1>1, <2>1, <2>2, AppendProperties
  <2>5. ASSUME NEW c \in 1..Len(calls) + 1 PROVE Truthful(calls'[c], receipts[IdOf[calls'[c].req]])
    <3>1. CASE c = Len(calls) + 1
      BY <2>3, <2>4, <3>1
    <3>2. CASE c # Len(calls) + 1
      <4>1. c \in 1..Len(calls)
        BY <1>1, <3>2
      <4> QED BY <1>2, <2>2, <2>4, <4>1
    <3> QED BY <3>1, <3>2
  <2> QED BY <2>2, <2>4, <2>5 DEF AnswersAreTruthful, Truthful
<1>5. ASSUME AnswerFromReceipt PROVE AnswersAreTruthful'
  <2>1. /\ worker.phase = "lookup" /\ CurrentReceipt # NoReceipt /\ Answer(ReceiptAnswer)
        /\ UNCHANGED receipts
    BY <1>5 DEF AnswerFromReceipt
  <2>2. /\ CurrentReceipt \in [status : {"accepted", "rejected"}, aggregate : Aggregates, seq : Nat]
        /\ calls[worker.call] \in [req : Requests, answer : Answers]
    <3>1. worker.call \in 1..Len(calls)
      BY <2>1 DEF ModelInv, TypeInv, EnvelopesExist
    <3>2. calls[worker.call] \in [req : Requests, answer : Answers]
      BY <1>1, <3>1, ElementOfSeq
    <3> QED BY <2>1, <3>2, CurrentTypes DEF ModelInv, Receipts
  <2>3. ReceiptAnswer \in Answers
    BY <2>2 DEF ReceiptAnswer, Answers, Failures
  <2>4. Truthful([calls[worker.call] EXCEPT !.answer = ReceiptAnswer], CurrentReceipt)
    BY <2>1, <2>2 DEF Truthful, ReceiptAnswer, CurrentRequest
  <2> QED BY <2>1, <2>3, <2>4, TruthfulAnswer
<1>6. ASSUME AnswerAccepted PROVE AnswersAreTruthful'
  <2> DEFINE a == [kind |-> "ok", seq |-> SnapshotSequence(readModel)]
  <2>1. /\ worker.phase = "publish" /\ Answer(a) /\ UNCHANGED receipts
    BY <1>6 DEF AnswerAccepted
  <2>2. calls[worker.call] \in [req : Requests, answer : Answers]
    <3>1. worker.call \in 1..Len(calls)
      BY <2>1 DEF ModelInv, TypeInv, EnvelopesExist
    <3> QED BY <1>1, <3>1, ElementOfSeq
  <2>3. SnapshotSequence(readModel) = Len(log) /\ Len(log) \in Nat
    BY <2>1, LogTypes, ReadModelIsPrefix DEF ModelInv, ReadModelIsLog
  <2>4. a \in Answers
    BY <2>3 DEF Answers
  <2>5. CurrentReceipt = [status |-> "accepted", aggregate |-> AggregateOf[CurrentRequest],
                          seq |-> Len(log)]
    BY <2>1 DEF WorkerInv, WorkerWrote
  <2>6. Truthful([calls[worker.call] EXCEPT !.answer = a], CurrentReceipt)
    BY <2>2, <2>3, <2>5 DEF Truthful, CurrentRequest
  <2> HIDE DEF a
  <2> QED BY <2>1, <2>4, <2>6, TruthfulAnswer
<1>7. ASSUME AnswerFailure PROVE AnswersAreTruthful'
  <2> DEFINE a == [kind |-> worker.failure]
  <2>1. /\ worker.phase = "fail" /\ Answer(a) /\ UNCHANGED receipts
        /\ worker.failure \in {"invariant", "storage"}
    BY <1>7 DEF AnswerFailure, ModelInv, TypeInv, EnvelopesExist
  <2>2. calls[worker.call] \in [req : Requests, answer : Answers]
    <3>1. worker.call \in 1..Len(calls)
      BY <2>1 DEF ModelInv, TypeInv, EnvelopesExist
    <3> QED BY <1>1, <3>1, ElementOfSeq
  <2>3. a \in Answers
    BY <2>1 DEF Answers, Failures
  <2>4. Truthful([calls[worker.call] EXCEPT !.answer = a], CurrentReceipt)
    BY <2>1, <2>2 DEF Truthful
  <2> HIDE DEF a
  <2> QED BY <2>1, <2>3, <2>4, TruthfulAnswer
<1>8. ASSUME Crash PROVE AnswersAreTruthful'
  <2> DEFINE lost(c) == IF calls[c].answer = Waiting
                        THEN [calls[c] EXCEPT !.answer = [kind |-> "lost"]]
                        ELSE calls[c]
  <2>1. calls' = [c \in 1..Len(calls) |-> lost(c)] /\ receipts' = receipts
    BY <1>8 DEF Crash
  <2>2. ASSUME NEW c \in 1..Len(calls)
        PROVE  /\ lost(c) \in [req : Requests, answer : Answers]
               /\ Truthful(lost(c), receipts[IdOf[lost(c).req]])
    <3>1. calls[c] \in [req : Requests, answer : Answers]
      BY <1>1, ElementOfSeq
    <3>2. Truthful(calls[c], receipts[IdOf[calls[c].req]])
      BY <1>2, <2>1
    <3>3. [kind |-> "lost"] \in Answers
      BY DEF Answers, Failures
    <3>4. CASE calls[c].answer = Waiting
      BY <3>1, <3>3, <3>4 DEF Truthful
    <3>5. CASE calls[c].answer # Waiting
      BY <3>1, <3>2, <3>5
    <3> QED BY <3>4, <3>5
  <2> HIDE DEF lost
  <2>3. calls' \in [1..Len(calls) -> [req : Requests, answer : Answers]]
    BY <2>1, <2>2
  <2>4. Len(calls') = Len(calls)
    BY <1>1, <2>3, FunctionIsSeq
  <2>5. \A c \in 1..Len(calls) : Truthful(calls'[c], receipts[IdOf[calls'[c].req]])
    BY <2>1, <2>2
  <2> QED BY <2>1, <2>4, <2>5 DEF AnswersAreTruthful, Truthful
<1>9. CASE \E s \in Subscribers : Subscribe(s)
  BY <1>3, <1>9 DEF Subscribe
<1>10. CASE WorkerStep /\ ~AnswerFromReceipt /\ ~AnswerAccepted /\ ~AnswerFailure
  BY <1>3, <1>10
  DEF WorkerStep, TakeCommand, DecideCommand, EventIdFails, AppendEvent, CommitTransaction,
      StorageFails, AdvanceReadModel, PublishEvent, Reconcile, ReconcileFails, RepublishDone,
      RecordRejection, RejectionNotRecorded
<1>11. CASE Boot \/ UNCHANGED vars
  BY <1>3, <1>11 DEF Boot, vars
<1> QED BY <1>4, <1>5, <1>6, <1>7, <1>8, <1>9, <1>10, <1>11 DEF Next

(* The invariant is kept by every step.                                    *)
LEMMA NextReceiptInv == ReceiptInv /\ [Next]_vars => ReceiptInv'
  BY NextModelInv, NextWorkerInv, NextReceiptsMatchLog, NextDecidedOnCommittedState,
     NextAnswersAreTruthful
  DEF ReceiptInv

(* A command id has events in the log exactly when its receipt says        *)
(* accepted; they are contiguous and come from one command.                *)
THEOREM ReceiptsCorrect == Spec => []ReceiptsMatchLog
<1>1. ReceiptInv => ReceiptsMatchLog
  BY DEF ReceiptInv
<1> QED BY <1>1, InitReceiptInv, NextReceiptInv, PTL DEF Spec

(* Every accepted command was decided on exactly the events committed      *)
(* before its own.                                                         *)
THEOREM DecisionsSerial == Spec => []DecidedOnCommittedState
<1>1. ReceiptInv => DecidedOnCommittedState
  BY DEF ReceiptInv
<1> QED BY <1>1, InitReceiptInv, NextReceiptInv, PTL DEF Spec

(* What dispatch answers is true when it is given and stays true.          *)
THEOREM AnswersCorrect == Spec => []AnswersAreTruthful
<1>1. ReceiptInv => AnswersAreTruthful
  BY DEF ReceiptInv
<1> QED BY <1>1, InitReceiptInv, NextReceiptInv, PTL DEF Spec

(* The receipt of a command id is final: no retry, failure or crash writes *)
(* it a second time, and the log only grows at its end.                    *)
ReceiptsAreFinal ==
    /\ \A id \in CommandIds : receipts[id] # NoReceipt => receipts'[id] = receipts[id]
    /\ log' = log \/ log' = log \o txn
THEOREM ReceiptsFinal == Spec => [][ReceiptsAreFinal]_vars
<1>1. ReceiptInv /\ [Next]_vars => [ReceiptsAreFinal]_vars
  BY ReceiptsStay, WhatIsWritten DEF ReceiptInv, ReceiptsAreFinal, CommitTransaction, RecordRejection
<1> QED BY <1>1, InitReceiptInv, NextReceiptInv, PTL DEF Spec
=============================================================================
