------------------------ MODULE ThreadIncarnationsProofs ------------------------
(***************************************************************************)
(* Proofs about ThreadIncarnations, for every set of clients and every     *)
(* number of events, restarts and interruptions: the count of the cleanup  *)
(* worker is right, and the fence separates a creator from the cleanup of  *)
(* every deletion before its creation.                                     *)
(***************************************************************************)
EXTENDS ThreadIncarnations, SequenceTheorems, TLAPS

(* The worker holds deletions, the reactor follows the publication, which  *)
(* follows the log, and the watermark never runs ahead of the hand-over.   *)
PipelineInv ==
    /\ Worker!CountsItems
    /\ seen <= taken
    /\ taken <= published
    /\ published <= head
    /\ head <= Len(log)

(* Everything up to n was handed over and what is left to clean is newer.  *)
Clear(n) ==
    /\ n <= taken
    /\ \A i \in 1..Len(queue) : n < queue[i]
    /\ active # NoItem => n < active

ClaimClear(claim) == claim.fenced => Clear(claim.inc)

(* A client that has passed a wait of drainThrough may rely on it, and so  *)
(* may everything that was started under its claim.                        *)
FenceInv ==
    /\ \A c \in Clients :
        /\ clients[c].phase = "draining" => clients[c].fence <= taken
        /\ clients[c].phase \in {"bootstrap", "owner"} => Clear(clients[c].fence)
    /\ \A i \in 1..Len(log) : ClaimClear(log[i].claim)
    /\ ClaimClear(starting)
    /\ ClaimClear(session)
    /\ ClaimClear(terminal)

IncarnationInv == TypeOK /\ PipelineInv /\ FenceInv

USE DEF NoItem

-----------------------------------------------------------------------------
(* Initially nothing has happened.                                         *)
LEMMA InitInv == Init => IncarnationInv
<1> SUFFICES ASSUME Init PROVE IncarnationInv
  OBVIOUS
<1>1. log = <<>> /\ queue = <<>> /\ Len(log) = 0 /\ Len(queue) = 0
  BY DEF Init, Worker!WorkerInit
<1>2. log \in Seq(Events) /\ queue \in Seq(Nat \ {0})
  BY <1>1
<1>3. TypeOK
  BY <1>2 DEF Init, TypeOK, Feed!FeedInit, Worker!WorkerInit, IdleClient, NoClaim, Claims, Phases
<1>4. PipelineInv
  BY <1>1 DEF Init, PipelineInv, Feed!FeedInit, Worker!WorkerInit, Worker!CountsItems
<1>5. FenceInv
  BY <1>1 DEF Init, FenceInv, ClaimClear, NoClaim, IdleClient
<1> QED BY <1>3, <1>4, <1>5 DEF IncarnationInv

-----------------------------------------------------------------------------
(* What a step may do to the log: append one event, or leave it.           *)
LEMMA CommitTypes ==
  ASSUME log \in Seq(Events), head \in Nat, published \in Nat,
         NEW type \in {"created", "deleted", "turn"}, NEW claim \in Claims,
         Commit(type, claim)
  PROVE  /\ log' \in Seq(Events)
         /\ Len(log') = Len(log) + 1
         /\ \A i \in 1..Len(log) : log'[i] = log[i]
         /\ log'[Len(log) + 1].claim = claim
         /\ head' = head /\ published' = published
<1> DEFINE e == [type |-> type, claim |-> claim]
<1>1. e \in Events
  BY DEF Events
<1>2. log' = Append(log, e)
  BY DEF Commit
<1>3. e.claim = claim
  OBVIOUS
<1> HIDE DEF e
<1> QED BY <1>1, <1>2, <1>3, AppendProperties DEF Commit, Feed!CommitBatch

(* A new item is one more item to wait for.                                *)
LEMMA EnqueueTypes ==
  ASSUME queue \in Seq(Nat \ {0}), outstanding \in Nat, active \in Nat,
         NEW d \in Nat \ {0}, Worker!Enqueue(d)
  PROVE  /\ queue' \in Seq(Nat \ {0})
         /\ Len(queue') = Len(queue) + 1
         /\ \A i \in 1..Len(queue') : queue'[i] = IF i <= Len(queue) THEN queue[i] ELSE d
         /\ outstanding' = outstanding + 1
         /\ active' = active /\ alive' = alive
<1>1. queue' = Append(queue, d)
  BY DEF Worker!Enqueue
<1> QED BY <1>1, AppendProperties DEF Worker!Enqueue

(* Taking moves the head of the queue to the worker's hand.                *)
LEMMA TakeTypes ==
  ASSUME queue \in Seq(Nat \ {0}), Worker!TakeItem
  PROVE  /\ queue' \in Seq(Nat \ {0})
         /\ Len(queue) \in Nat \ {0}
         /\ Len(queue') = Len(queue) - 1
         /\ \A i \in 1..Len(queue') : queue'[i] = queue[i + 1]
         /\ active = NoItem
         /\ active' = queue[1] /\ active' \in Nat \ {0}
         /\ outstanding' = outstanding /\ alive' = alive
<1>1. queue # <<>> /\ queue' = Tail(queue) /\ active' = Head(queue)
  BY DEF Worker!TakeItem
<1>2. Len(queue) \in Nat \ {0}
  BY <1>1, EmptySeq
<1>3. queue[1] \in Nat \ {0}
  BY <1>2, ElementOfSeq
<1> QED BY <1>1, <1>2, <1>3, HeadTailProperties DEF Worker!TakeItem

-----------------------------------------------------------------------------
(* Next, action by action.                                                 *)
LEMMA NextActions ==
  ASSUME Next
  PROVE  \/ EngineStep
         \/ \E c \in Clients, kind \in {"direct", "bootstrap"} : Create(c, kind)
         \/ \E c \in Clients : CreateAnswered(c)
         \/ \E c \in Clients : FenceSeen(c)
         \/ \E c \in Clients : FenceDrained(c)
         \/ \E c \in Clients : OpenTerminal(c)
         \/ \E c \in Clients : StartTurn(c)
         \/ \E c \in Clients : BootstrapFails(c)
         \/ \E c \in Clients : GiveUp(c)
         \/ Delete \/ VisitorStartsTurn \/ VisitorOpensTerminal
         \/ ResolveTurn \/ StartSession \/ HandEvent \/ NoteSeen
         \/ TakeDeletion \/ StopSession \/ CloseTerminals \/ CleanupDone
         \/ CleanupInterrupted \/ Restart
BY DEF Next, CreatorStep, ReactorStep

(* What is clear stays clear: only newer deletions join the queue.         *)
LEMMA ClearStable ==
  ASSUME IncarnationInv, [Next]_vars, NEW n \in Nat, Clear(n)
  PROVE  Clear(n)'
<1> USE DEF IncarnationInv, TypeOK, PipelineInv
<1>1. CASE UNCHANGED <<taken, queue, active>>
  BY <1>1 DEF Clear
<1>2. CASE HandEvent
  <2>1. CASE log[taken + 1].type = "deleted"
    <3>1. Worker!Enqueue(taken + 1) /\ taken' = taken + 1
      BY <1>2, <2>1 DEF HandEvent
    <3>2. Len(queue) \in Nat /\ taken + 1 \in Nat \ {0}
      BY LenProperties
    <3>3. /\ Len(queue') = Len(queue) + 1 /\ active' = active
          /\ \A i \in 1..Len(queue') : queue'[i] = IF i <= Len(queue) THEN queue[i] ELSE taken + 1
      BY <3>1, <3>2, EnqueueTypes
    <3>4. ASSUME NEW i \in 1..Len(queue') PROVE n < queue'[i]
      <4>1. CASE i <= Len(queue)
        <5>1. i \in 1..Len(queue) /\ queue'[i] = queue[i]
          BY <3>2, <3>3, <4>1
        <5> QED BY <5>1 DEF Clear
      <4>2. CASE ~(i <= Len(queue))
        <5>1. queue'[i] = taken + 1
          BY <3>3, <4>2
        <5> QED BY <5>1 DEF Clear
      <4> QED BY <4>1, <4>2
    <3> QED BY <3>1, <3>3, <3>4 DEF Clear
  <2>2. CASE log[taken + 1].type # "deleted"
    BY <1>2, <2>2 DEF HandEvent, Clear
  <2> QED BY <2>1, <2>2
<1>3. CASE TakeDeletion
  <2>1. Worker!TakeItem /\ taken' = taken
    BY <1>3 DEF TakeDeletion, reactor
  <2>2. ASSUME NEW i \in 1..Len(queue') PROVE n < queue'[i]
    <3>1. /\ Len(queue) \in Nat /\ Len(queue') = Len(queue) - 1
          /\ \A k \in 1..Len(queue') : queue'[k] = queue[k + 1]
      BY <2>1, TakeTypes
    <3>2. queue'[i] = queue[i + 1]
      BY <3>1
    <3>3. i + 1 \in 1..Len(queue)
      <4> HIDE DEF IncarnationInv, TypeOK, PipelineInv
      <4> QED BY <3>1
    <3> QED BY <3>2, <3>3 DEF Clear
  <2>3. n < active'
    BY <2>1, TakeTypes DEF Clear
  <2> QED BY <2>1, <2>2, <2>3 DEF Clear
<1>4. CASE CleanupDone \/ CleanupInterrupted
  BY <1>4 DEF CleanupDone, CleanupInterrupted, Worker!FinishItem, Worker!ItemEndsLoop, Clear, reactor
<1>5. CASE Restart
  <2>1. n <= Len(log) /\ Len(log) \in Nat
    BY LenProperties DEF Clear
  <2>2. queue' = <<>> /\ Len(queue') = 0 /\ active' = NoItem /\ taken' = Len(log)
    BY <1>5 DEF Restart
  <2> QED BY <2>1, <2>2 DEF Clear
<1>6. CASE UNCHANGED vars
  BY <1>6, <1>1 DEF vars, worker, reactor
<1>7. CASE Next
  BY <1>7, <1>1, <1>2, <1>3, <1>4, <1>5, NextActions
     DEF EngineStep, Create, CreateAnswered, FenceSeen, FenceDrained, OpenTerminal, StartTurn,
         BootstrapFails, GiveUp, Delete, VisitorStartsTurn, VisitorOpensTerminal, ResolveTurn,
         StartSession, NoteSeen, StopSession, CloseTerminals, worker, reactor
<1> QED BY <1>6, <1>7

(* The cleanup worker's count and the order of the positions are kept.     *)
LEMMA PipelineStable ==
  ASSUME IncarnationInv, [Next]_vars
  PROVE  PipelineInv'
<1> USE DEF IncarnationInv, TypeOK, PipelineInv
<1>1. Len(log) \in Nat /\ Len(queue) \in Nat
  BY LenProperties
<1>2. ASSUME UNCHANGED <<log, head, published, taken, seen>>,
             Worker!CountsItems'
      PROVE  PipelineInv'
  BY <1>2
<1>3. ASSUME UNCHANGED <<queue, active, outstanding>>
      PROVE  Worker!CountsItems'
  BY <1>3 DEF Worker!CountsItems
<1>4. CASE EngineStep
  BY <1>1, <1>3, <1>4 DEF EngineStep, Feed!AdvanceHead, Feed!PublishNext, worker, reactor
<1>5. ASSUME NEW type \in {"created", "deleted", "turn"}, NEW claim \in Claims,
             Commit(type, claim), UNCHANGED <<reactor, worker>>
      PROVE  PipelineInv'
  BY <1>1, <1>3, <1>5, CommitTypes DEF worker, reactor
<1>6. NoClaim \in Claims /\ Live \in Nat
  <2>1. \A i \in Turns(Len(log)) : i \in Nat
    BY DEF Turns
  <2> QED BY <2>1 DEF NoClaim, Claims, Live, LiveIncarnation
<1>7. ASSUME NEW c \in Clients, NEW kind, Create(c, kind) PROVE PipelineInv'
  BY <1>5, <1>6, <1>7 DEF Create
<1>8. ASSUME NEW c \in Clients, StartTurn(c) PROVE PipelineInv'
  <2>1. clients[c].fence \in Nat
    OBVIOUS
  <2> QED BY <2>1, <1>5, <1>8 DEF StartTurn, Claims
<1>9. ASSUME NEW c \in Clients, BootstrapFails(c) PROVE PipelineInv'
  BY <1>5, <1>6, <1>9 DEF BootstrapFails
<1>10. CASE Delete
  BY <1>5, <1>6, <1>10 DEF Delete
<1>11. CASE VisitorStartsTurn
  BY <1>5, <1>6, <1>11 DEF VisitorStartsTurn, Claims
<1>12. CASE HandEvent
  <2>1. taken' = taken + 1 /\ taken < published /\ UNCHANGED <<log, head, published, seen>>
    BY <1>12 DEF HandEvent, feed
  <2>2. Worker!CountsItems'
    <3>1. CASE log[taken + 1].type = "deleted"
      BY <1>1, <1>12, <3>1, EnqueueTypes DEF HandEvent, Worker!CountsItems
    <3>2. CASE log[taken + 1].type # "deleted"
      BY <1>3, <1>12, <3>2 DEF HandEvent
    <3> QED BY <3>1, <3>2
  <2> QED BY <1>1, <2>1, <2>2
<1>13. CASE NoteSeen
  BY <1>1, <1>3, <1>13 DEF NoteSeen, feed, worker
<1>14. CASE TakeDeletion
  <2>1. Worker!CountsItems'
    BY <1>14, TakeTypes DEF TakeDeletion, Worker!CountsItems
  <2> QED BY <1>2, <1>14, <2>1 DEF TakeDeletion, feed, reactor
<1>15. CASE CleanupDone
  <2>1. Worker!CountsItems'
    BY <1>1, <1>15 DEF CleanupDone, Worker!FinishItem, Worker!CountsItems
  <2> QED BY <1>2, <1>15, <2>1 DEF CleanupDone, feed, reactor
<1>16. CASE CleanupInterrupted
  <2>1. Worker!CountsItems'
    BY <1>1, <1>16 DEF CleanupInterrupted, Worker!ItemEndsLoop, Worker!CountsItems
  <2> QED BY <1>2, <1>16, <2>1 DEF CleanupInterrupted, feed, reactor
<1>17. CASE Restart
  <2>1. queue' = <<>> /\ Len(queue') = 0
    BY <1>17 DEF Restart
  <2> QED BY <1>1, <1>17, <2>1 DEF Restart, Feed!Restart, Worker!CountsItems
<1>18. CASE UNCHANGED vars
  BY <1>2, <1>3, <1>18 DEF vars, feed, worker, reactor
<1>19. CASE Next
  BY <1>2, <1>3, <1>4, <1>7, <1>8, <1>9, <1>10, <1>11, <1>12, <1>13, <1>14, <1>15, <1>16, <1>17,
     <1>19, NextActions
     DEF CreateAnswered, FenceSeen, FenceDrained, OpenTerminal, GiveUp, VisitorOpensTerminal,
         ResolveTurn, StartSession, StopSession, CloseTerminals, feed, worker, reactor
<1> QED BY <1>18, <1>19

-----------------------------------------------------------------------------
(* Every variable keeps its type.                                          *)
LEMMA TypeStable ==
  ASSUME IncarnationInv, [Next]_vars
  PROVE  TypeOK'
<1> USE DEF IncarnationInv, TypeOK
<1>1. Len(log) \in Nat /\ NoClaim \in Claims /\ Live \in Nat
  <2>1. \A i \in Turns(Len(log)) : i \in Nat
    BY LenProperties DEF Turns
  <2> QED BY <2>1, LenProperties DEF NoClaim, Claims, Live, LiveIncarnation
<1>2. ASSUME NEW c \in Clients, NEW p \in Phases, Move(c, p)
      PROVE  clients' \in [Clients -> [phase : Phases, kind : {"direct", "bootstrap"}, fence : Nat]]
  BY <1>2 DEF Move
<1>3. ASSUME NEW type \in {"created", "deleted", "turn"}, NEW claim \in Claims,
             Commit(type, claim)
      PROVE  log' \in Seq(Events) /\ head' \in Nat /\ published' \in Nat
  BY <1>3, CommitTypes
<1>4. CASE EngineStep
  BY <1>1, <1>4
     DEF EngineStep, Feed!AdvanceHead, Feed!PublishNext, worker, reactor, provider, bounds
<1>5. ASSUME NEW c \in Clients, NEW kind \in {"direct", "bootstrap"}, Create(c, kind) PROVE TypeOK'
  BY <1>1, <1>3, <1>5 DEF Create, worker, reactor, provider, bounds, Phases
<1>6. ASSUME NEW c \in Clients, CreateAnswered(c) \/ FenceSeen(c) \/ FenceDrained(c) PROVE TypeOK'
  <2>1. \E p \in Phases : Move(c, p)
    BY <1>6 DEF CreateAnswered, FenceSeen, FenceDrained, Phases
  <2> QED BY <1>2, <1>6, <2>1
          DEF CreateAnswered, FenceSeen, FenceDrained, feed, worker, reactor, provider, bounds
<1>7. ASSUME NEW c \in Clients, OpenTerminal(c) PROVE TypeOK'
  <2>1. clients[c].fence \in Nat
    OBVIOUS
  <2> QED BY <1>7, <2>1 DEF OpenTerminal, Claims, feed, worker, reactor, provider, bounds
<1>8. ASSUME NEW c \in Clients, StartTurn(c) PROVE TypeOK'
  <2>1. clients[c].fence \in Nat
    OBVIOUS
  <2> QED BY <1>2, <1>3, <1>8, <2>1 DEF StartTurn, Claims, Phases, worker, reactor, provider, bounds
<1>9. ASSUME NEW c \in Clients, BootstrapFails(c) PROVE TypeOK'
  BY <1>1, <1>3, <1>9 DEF BootstrapFails, IdleClient, Phases, worker, reactor, provider, bounds
<1>10. ASSUME NEW c \in Clients, GiveUp(c) PROVE TypeOK'
  BY <1>10 DEF GiveUp, IdleClient, Phases, feed, worker, reactor, provider, bounds
<1>11. CASE Delete
  BY <1>1, <1>3, <1>11 DEF Delete, worker, reactor, provider, bounds
<1>12. CASE VisitorStartsTurn
  BY <1>1, <1>3, <1>12 DEF VisitorStartsTurn, Claims, worker, reactor, provider, bounds
<1>13. CASE VisitorOpensTerminal
  BY <1>1, <1>13 DEF VisitorOpensTerminal, Claims, feed, worker, reactor, provider, bounds
<1>14. CASE ResolveTurn
  <2>1. reacted < published /\ published <= Len(log)
    BY <1>1, <1>14 DEF ResolveTurn, PipelineInv
  <2>2. log[reacted + 1] \in Events
    BY <1>1, <2>1, ElementOfSeq
  <2>3. log[reacted + 1].claim \in Claims
    BY <2>2 DEF Events
  <2> QED BY <1>1, <1>14, <2>3 DEF ResolveTurn, feed, worker, reactor, provider, bounds
<1>15. CASE StartSession
  BY <1>1, <1>15 DEF StartSession, feed, worker, reactor, provider, bounds
<1>16. CASE HandEvent
  <2>1. taken + 1 \in Nat \ {0}
    OBVIOUS
  <2>2. /\ queue' \in Seq(Nat \ {0}) /\ outstanding' \in Nat
        /\ active' \in Nat /\ alive' \in BOOLEAN
    <3>1. CASE log[taken + 1].type = "deleted"
      BY <1>16, <2>1, <3>1, EnqueueTypes DEF HandEvent
    <3>2. CASE log[taken + 1].type # "deleted"
      BY <1>16, <3>2 DEF HandEvent
    <3> QED BY <3>1, <3>2
  <2> QED BY <1>16, <2>2 DEF HandEvent, feed, provider, bounds
<1>17. CASE NoteSeen
  BY <1>17 DEF NoteSeen, feed, worker, provider, bounds
<1>18. CASE TakeDeletion
  BY <1>18, TakeTypes DEF TakeDeletion, feed, reactor, provider, bounds
<1>19. CASE StopSession \/ CloseTerminals
  BY <1>1, <1>19 DEF StopSession, CloseTerminals, feed, reactor, provider, bounds
<1>20. CASE CleanupDone \/ CleanupInterrupted
  <2> active # NoItem => outstanding - 1 \in Nat
    BY LenProperties DEF PipelineInv, Worker!CountsItems
  <2>1. CASE CleanupDone
    BY <2>1 DEF CleanupDone, Worker!FinishItem, feed, reactor, provider, bounds
  <2>2. CASE CleanupInterrupted
    <3>1. alive' \in BOOLEAN
      BY <2>2 DEF CleanupInterrupted, Worker!ItemEndsLoop
    <3>2. /\ UNCHANGED <<log, head, published, taken, seen, queue, stage, clients, reacted,
                         starting, session, terminal, restarts>>
          /\ active # NoItem /\ active' = NoItem /\ outstanding' = outstanding - 1
          /\ interrupts' = interrupts + 1
      BY <2>2 DEF CleanupInterrupted, Worker!ItemEndsLoop, feed, reactor, provider
    <3> QED BY <3>1, <3>2
  <2> QED BY <1>20, <2>1, <2>2
<1>21. CASE Restart
  <2>1. queue' \in Seq(Nat \ {0})
    <3>1. queue' = <<>>
      BY <1>21 DEF Restart
    <3> QED BY <3>1
  <2> QED BY <1>1, <1>21, <2>1 DEF Restart, Feed!Restart, IdleClient, Phases
<1>22. CASE UNCHANGED vars
  BY <1>22 DEF vars, feed, worker, reactor, provider, bounds
<1>23. CASE Next
  BY <1>4, <1>5, <1>6, <1>7, <1>8, <1>9, <1>10, <1>11, <1>12, <1>13, <1>14, <1>15, <1>16,
     <1>17, <1>18, <1>19, <1>20, <1>21, <1>23, NextActions
<1> QED BY <1>22, <1>23

-----------------------------------------------------------------------------
(* A drained worker leaves nothing: what was handed over is clear.         *)
LEMMA DrainClears ==
  ASSUME IncarnationInv, Worker!Drained, NEW n \in Nat, n <= taken
  PROVE  Clear(n)
<1>1. Len(queue) \in Nat
  BY LenProperties DEF IncarnationInv, TypeOK
<1>2. Len(queue) = 0 /\ active = NoItem
  BY <1>1 DEF IncarnationInv, TypeOK, PipelineInv, Worker!CountsItems, Worker!Drained
<1> QED BY <1>2 DEF Clear

(* The part of FenceInv about the log: turns are started under clear       *)
(* claims.                                                                 *)
LEMMA LogClaimsStable ==
  ASSUME IncarnationInv, [Next]_vars
  PROVE  \A i \in 1..Len(log') : ClaimClear(log[i].claim)'
<1> USE DEF IncarnationInv, TypeOK
<1>1. Len(log) \in Nat /\ NoClaim \in Claims /\ Live \in Nat
  <2>1. \A i \in Turns(Len(log)) : i \in Nat
    BY LenProperties DEF Turns
  <2> QED BY <2>1, LenProperties DEF NoClaim, Claims, Live, LiveIncarnation
<1>2. ASSUME NEW claim \in Claims, ClaimClear(claim)
      PROVE  ClaimClear(claim)'
  <2>1. claim.inc \in Nat
    BY DEF Claims
  <2> QED BY <1>2, <2>1, ClearStable DEF ClaimClear
<1>3. ASSUME NEW i \in 1..Len(log), NEW claim, claim = log[i].claim
      PROVE  ClaimClear(claim)'
  <2>1. log[i] \in Events
    BY ElementOfSeq
  <2>2. claim \in Claims
    BY <1>3, <2>1 DEF Events
  <2>3. ClaimClear(claim)
    BY <1>3 DEF FenceInv
  <2> QED BY <1>2, <2>2, <2>3
<1>4. ASSUME UNCHANGED log
      PROVE  \A i \in 1..Len(log') : ClaimClear(log[i].claim)'
  <2> SUFFICES ASSUME NEW i \in 1..Len(log'), NEW claim, claim = log'[i].claim
               PROVE  ClaimClear(claim)'
    BY DEF ClaimClear
  <2>1. i \in 1..Len(log) /\ claim = log[i].claim
    BY <1>4
  <2> QED BY <1>3, <2>1
<1>5. ASSUME NEW type \in {"created", "deleted", "turn"}, NEW claim \in Claims,
             ClaimClear(claim), Commit(type, claim)
      PROVE  \A i \in 1..Len(log') : ClaimClear(log[i].claim)'
  <2> SUFFICES ASSUME NEW i \in 1..Len(log'), NEW entry, entry = log'[i].claim
               PROVE  ClaimClear(entry)'
    BY DEF ClaimClear
  <2>1. /\ Len(log') = Len(log) + 1
        /\ \A k \in 1..Len(log) : log'[k] = log[k]
        /\ log'[Len(log) + 1].claim = claim
    BY <1>5, CommitTypes
  <2>2. CASE i = Len(log) + 1
    BY <1>2, <1>5, <2>1, <2>2
  <2>3. CASE i # Len(log) + 1
    <3>1. i \in 1..Len(log) /\ log'[i] = log[i]
      BY <1>1, <2>1, <2>3
    <3> QED BY <1>3, <3>1
  <2> QED BY <2>2, <2>3
<1>6. ClaimClear(NoClaim)
  BY DEF ClaimClear, NoClaim
<1>7. ASSUME NEW c \in Clients, StartTurn(c)
      PROVE  \A i \in 1..Len(log') : ClaimClear(log[i].claim)'
  <2> DEFINE claim == [inc |-> clients[c].fence, fenced |-> TRUE]
  <2>1. claim \in Claims /\ ClaimClear(claim)
    BY <1>7 DEF StartTurn, FenceInv, ClaimClear, Claims
  <2>2. Commit("turn", claim)
    BY <1>7 DEF StartTurn
  <2> HIDE DEF claim
  <2> QED BY <1>5, <2>1, <2>2
<1>8. CASE VisitorStartsTurn
  <2> DEFINE claim == [inc |-> Live, fenced |-> FALSE]
  <2>1. claim \in Claims /\ ClaimClear(claim)
    BY <1>1 DEF ClaimClear, Claims
  <2>2. Commit("turn", claim)
    BY <1>8 DEF VisitorStartsTurn
  <2> HIDE DEF claim
  <2> QED BY <1>5, <2>1, <2>2
<1>9. CASE UNCHANGED vars
  BY <1>4, <1>9 DEF vars, feed
<1>10. CASE Next
  BY <1>1, <1>4, <1>5, <1>6, <1>7, <1>8, <1>10, NextActions
     DEF EngineStep, Create, CreateAnswered, FenceSeen, FenceDrained, OpenTerminal,
         BootstrapFails, GiveUp, Delete, VisitorOpensTerminal, ResolveTurn, StartSession,
         HandEvent, NoteSeen, TakeDeletion, StopSession, CloseTerminals, CleanupDone,
         CleanupInterrupted, Restart, feed
<1> QED BY <1>9, <1>10

-----------------------------------------------------------------------------
(* The part of FenceInv about one client.                                  *)
ClientInv(c) ==
    /\ clients[c].phase = "draining" => clients[c].fence <= taken
    /\ clients[c].phase \in {"bootstrap", "owner"} => Clear(clients[c].fence)

(* The fence of a client stays behind what the reactor has done.           *)
LEMMA ClientsStable ==
  ASSUME IncarnationInv, [Next]_vars, NEW c \in Clients
  PROVE  ClientInv(c)'
<1> USE DEF IncarnationInv, TypeOK
<1>1. clients[c] \in [phase : Phases, kind : {"direct", "bootstrap"}, fence : Nat]
      /\ ClientInv(c)
  BY DEF FenceInv, ClientInv
<1>2. ASSUME NEW n \in Nat, Clear(n)
      PROVE  Clear(n)'
  BY <1>2, ClearStable
<1>3. ASSUME NEW n \in Nat, n <= taken
      PROVE  n <= taken'
  <2>1. Len(log) \in Nat
    BY LenProperties
  <2>2. taken' = taken \/ taken' = taken + 1 \/ taken' = Len(log)
    <3>1. CASE Next
      BY <3>1, NextActions
         DEF EngineStep, Create, CreateAnswered, FenceSeen, FenceDrained, OpenTerminal, StartTurn,
             BootstrapFails, GiveUp, Delete, VisitorStartsTurn, VisitorOpensTerminal, ResolveTurn,
             StartSession, HandEvent, NoteSeen, TakeDeletion, StopSession, CloseTerminals,
             CleanupDone, CleanupInterrupted, Restart, reactor
    <3> QED BY <3>1 DEF vars, reactor
  <2> QED BY <1>3, <2>1, <2>2 DEF PipelineInv
<1>4. ASSUME NEW f \in Nat, f = clients[c].fence, clients'[c].fence = f,
             clients'[c].phase = clients[c].phase
      PROVE  ClientInv(c)'
  BY <1>1, <1>2, <1>3, <1>4 DEF ClientInv
<1>5. CASE UNCHANGED clients
  BY <1>1, <1>4, <1>5
<1>6. ASSUME NEW d \in Clients, d # c, clients' = [clients EXCEPT ![d] = clients'[d]]
      PROVE  ClientInv(c)'
  BY <1>1, <1>4, <1>6
<1>7. ASSUME clients'[c].phase \in {"idle", "dispatched", "waiting"}
      PROVE  ClientInv(c)'
  BY <1>7 DEF ClientInv
<1>8. CASE FenceSeen(c)
  <2>1. clients[c].fence <= taken
    BY <1>1, <1>8 DEF FenceSeen, SeenThrough, PipelineInv
  <2>2. PICK f \in Nat : f = clients[c].fence
    BY <1>1
  <2>3. clients'[c].phase = "draining" /\ clients'[c].fence = f /\ taken' = taken
    BY <1>8, <2>2 DEF FenceSeen, Move, reactor
  <2> QED BY <2>1, <2>2, <2>3 DEF ClientInv
<1>9. CASE FenceDrained(c)
  <2>1. PICK f \in Nat : f = clients[c].fence
    BY <1>1
  <2>2. Clear(f)
    BY <1>1, <1>9, <2>1, DrainClears DEF FenceDrained, ClientInv
  <2>3. Clear(f)'
    BY <1>2, <2>2
  <2>4. clients'[c].phase \in {"bootstrap", "owner"} /\ clients'[c].fence = f
    BY <1>9, <2>1 DEF FenceDrained, Move
  <2> QED BY <2>3, <2>4 DEF ClientInv
<1>10. CASE StartTurn(c)
  <2>1. PICK f \in Nat : f = clients[c].fence
    BY <1>1
  <2>2. Clear(f)'
    BY <1>1, <1>2, <1>10, <2>1 DEF StartTurn, ClientInv
  <2>3. clients'[c].phase = "owner" /\ clients'[c].fence = f
    BY <1>10, <2>1 DEF StartTurn, Move
  <2> QED BY <2>2, <2>3 DEF ClientInv
<1>11. CASE \/ \E kind \in {"direct", "bootstrap"} : Create(c, kind)
            \/ CreateAnswered(c) \/ BootstrapFails(c) \/ GiveUp(c)
  BY <1>7, <1>11 DEF Create, CreateAnswered, BootstrapFails, GiveUp, Move, IdleClient
<1>12. ASSUME NEW d \in Clients, d # c,
              \/ \E kind \in {"direct", "bootstrap"} : Create(d, kind)
              \/ CreateAnswered(d) \/ FenceSeen(d) \/ FenceDrained(d) \/ StartTurn(d)
              \/ BootstrapFails(d) \/ GiveUp(d)
       PROVE  ClientInv(c)'
  BY <1>6, <1>12
     DEF Create, CreateAnswered, FenceSeen, FenceDrained, StartTurn, BootstrapFails, GiveUp, Move
<1>13. CASE Restart
  BY <1>7, <1>13 DEF Restart, IdleClient
<1>14. CASE UNCHANGED vars
  BY <1>5, <1>14 DEF vars
<1>15. CASE Next
  BY <1>5, <1>8, <1>9, <1>10, <1>11, <1>12, <1>13, <1>15, NextActions
     DEF EngineStep, OpenTerminal, Delete, VisitorStartsTurn, VisitorOpensTerminal, ResolveTurn,
         StartSession, HandEvent, NoteSeen, TakeDeletion, StopSession, CloseTerminals,
         CleanupDone, CleanupInterrupted
<1> QED BY <1>14, <1>15

(* The part of FenceInv about what runs under a claim.                     *)
LEMMA ResourcesStable ==
  ASSUME IncarnationInv, [Next]_vars
  PROVE  ClaimClear(starting)' /\ ClaimClear(session)' /\ ClaimClear(terminal)'
<1> USE DEF IncarnationInv, TypeOK
<1>1. Len(log) \in Nat
  BY LenProperties
<1>2. ASSUME NEW claim \in Claims, ClaimClear(claim)
      PROVE  ClaimClear(claim)'
  <2>1. claim.inc \in Nat
    BY DEF Claims
  <2> QED BY <1>2, <2>1, ClearStable DEF ClaimClear
<1>3. /\ NoClaim \in Claims /\ ClaimClear(NoClaim)
      /\ ClaimClear(starting) /\ ClaimClear(session) /\ ClaimClear(terminal)
  BY DEF NoClaim, Claims, ClaimClear, FenceInv
<1>4. ASSUME NEW claim \in Claims, ClaimClear(claim), starting' = claim
      PROVE  ClaimClear(starting)'
  BY <1>2, <1>4 DEF ClaimClear
<1>5. ASSUME NEW claim \in Claims, ClaimClear(claim), session' = claim
      PROVE  ClaimClear(session)'
  BY <1>2, <1>5 DEF ClaimClear
<1>6. ASSUME NEW claim \in Claims, ClaimClear(claim), terminal' = claim
      PROVE  ClaimClear(terminal)'
  BY <1>2, <1>6 DEF ClaimClear
<1>7. starting' = starting => ClaimClear(starting)'
  BY <1>3, <1>4
<1>8. session' = session => ClaimClear(session)'
  BY <1>3, <1>5
<1>9. terminal' = terminal => ClaimClear(terminal)'
  BY <1>3, <1>6
<1>10. ASSUME NEW c \in Clients, OpenTerminal(c)
       PROVE  ClaimClear(terminal)'
  <2> DEFINE claim == [inc |-> clients[c].fence, fenced |-> TRUE]
  <2>1. claim \in Claims /\ ClaimClear(claim)
    BY <1>10 DEF OpenTerminal, FenceInv, ClaimClear, Claims
  <2>2. terminal' = claim
    BY <1>10 DEF OpenTerminal
  <2> HIDE DEF claim
  <2> QED BY <1>6, <2>1, <2>2
<1>11. CASE VisitorOpensTerminal
  <2>1. terminal'.fenced = FALSE
    BY <1>11 DEF VisitorOpensTerminal
  <2>2. ClaimClear(terminal)'
    BY <2>1 DEF ClaimClear
  <2> QED BY <1>7, <1>8, <1>11, <2>2 DEF VisitorOpensTerminal, provider
<1>12. CASE ResolveTurn
  <2>1. starting' = NoClaim \/ starting' = log[reacted + 1].claim
    BY <1>12 DEF ResolveTurn
  <2>2. reacted + 1 \in 1..Len(log)
    BY <1>1, <1>12 DEF ResolveTurn, PipelineInv
  <2>3. log[reacted + 1] \in Events
    BY <2>2, ElementOfSeq
  <2>4. log[reacted + 1].claim \in Claims
    BY <2>3 DEF Events
  <2>5. ClaimClear(log[reacted + 1].claim)
    BY <2>2 DEF FenceInv
  <2>6. ClaimClear(starting)'
    <3>1. CASE starting' = NoClaim
      BY <1>3, <1>4, <3>1
    <3>2. CASE starting' = log[reacted + 1].claim
      <4>1. PICK claim \in Claims : claim = log[reacted + 1].claim
        BY <2>4
      <4> QED BY <1>4, <2>5, <3>2, <4>1
    <3> QED BY <2>1, <3>1, <3>2
  <2> QED BY <1>8, <1>9, <1>12, <2>6 DEF ResolveTurn
<1>13. CASE StartSession
  <2>1. session' = starting /\ starting' = NoClaim
    BY <1>13 DEF StartSession
  <2>2. ClaimClear(starting)'
    BY <1>3, <1>4, <2>1
  <2>3. ClaimClear(session)'
    <3>1. PICK claim \in Claims : claim = starting
      OBVIOUS
    <3> QED BY <1>3, <1>5, <2>1, <3>1
  <2> QED BY <1>9, <1>13, <2>2, <2>3 DEF StartSession
<1>14. CASE StopSession
  <2>1. ClaimClear(session)'
    BY <1>3, <1>5, <1>8, <1>14 DEF StopSession
  <2> QED BY <1>7, <1>9, <1>14, <2>1 DEF StopSession
<1>15. CASE CloseTerminals
  <2>1. ClaimClear(terminal)'
    BY <1>3, <1>6, <1>9, <1>15 DEF CloseTerminals
  <2> QED BY <1>7, <1>8, <1>15, <2>1 DEF CloseTerminals, provider
<1>16. CASE Restart
  <2>1. starting' = NoClaim /\ session' = NoClaim /\ terminal' = NoClaim
    BY <1>16 DEF Restart
  <2>2. ClaimClear(starting)' /\ ClaimClear(session)'
    BY <1>3, <1>4, <1>5, <2>1
  <2>3. ClaimClear(terminal)'
    BY <1>3, <1>6, <2>1
  <2> QED BY <2>2, <2>3
<1>17. CASE UNCHANGED vars
  BY <1>7, <1>8, <1>9, <1>17 DEF vars, provider
<1>18. CASE Next
  BY ZenonT(60), <1>7, <1>8, <1>9, <1>10, <1>11, <1>12, <1>13, <1>14, <1>15, <1>16, <1>18, NextActions
     DEF EngineStep, Create, CreateAnswered, FenceSeen, FenceDrained, OpenTerminal, StartTurn,
         BootstrapFails, GiveUp, Delete, VisitorStartsTurn, VisitorOpensTerminal, ResolveTurn,
         StartSession, HandEvent, NoteSeen, TakeDeletion, StopSession, CloseTerminals,
         CleanupDone, CleanupInterrupted, provider
<1> QED BY <1>17, <1>18

-----------------------------------------------------------------------------
LEMMA InvStable == IncarnationInv /\ [Next]_vars => IncarnationInv'
<1> SUFFICES ASSUME IncarnationInv, [Next]_vars PROVE IncarnationInv'
  OBVIOUS
<1>1. TypeOK' /\ PipelineInv'
  BY TypeStable, PipelineStable
<1>2. FenceInv'
  BY ClientsStable, LogClaimsStable, ResourcesStable DEF FenceInv, ClientInv
<1> QED BY <1>1, <1>2 DEF IncarnationInv

LEMMA InvCorrect == Spec => []IncarnationInv
BY InitInv, InvStable, PTL DEF Spec

(* Every variable always holds values of its type.                         *)
THEOREM TypeCorrect == Spec => []TypeOK
<1>1. IncarnationInv => TypeOK
  BY DEF IncarnationInv
<1> QED BY <1>1, InvCorrect, PTL

(* drain returns only when no cleanup is queued or running, also after an  *)
(* interrupted cleanup has ended the worker.                               *)
THEOREM DrainCorrect == Spec => []DrainedMeansIdle
<1>1. IncarnationInv => DrainedMeansIdle
  <2> SUFFICES ASSUME IncarnationInv, Worker!Drained PROVE queue = <<>> /\ active = NoItem
    BY DEF DrainedMeansIdle, Worker!DrainedMeansIdle
  <2>1. Len(queue) \in Nat
    BY LenProperties DEF IncarnationInv, TypeOK
  <2>2. Len(queue) = 0 /\ active = NoItem
    BY <2>1 DEF IncarnationInv, TypeOK, PipelineInv, Worker!CountsItems, Worker!Drained
  <2> QED BY <2>2, EmptySeq DEF IncarnationInv, TypeOK
<1> QED BY <1>1, InvCorrect, PTL

(* A client that was handed the thread has no deletion from before its     *)
(* creation left to be cleaned up.                                         *)
THEOREM FenceCorrect == Spec => []FenceHolds
<1>1. IncarnationInv => FenceHolds
  <2> SUFFICES ASSUME IncarnationInv, NEW c \in Clients,
                      clients[c].phase \in {"bootstrap", "owner"},
                      NEW d \in 1..clients[c].fence
               PROVE  ~Pending(d)
    BY DEF FenceHolds
  <2>1. clients[c].fence \in Nat /\ Clear(clients[c].fence)
    BY DEF IncarnationInv, TypeOK, FenceInv
  <2>2. d \in Nat \ {0} /\ d <= clients[c].fence
    BY <2>1
  <2>3. ~(d > taken) /\ active # d
    BY <2>1, <2>2 DEF Clear, IncarnationInv, TypeOK
  <2>4. ASSUME NEW i \in 1..Len(queue) PROVE queue[i] # d
    BY <2>1, <2>2, ElementOfSeq DEF Clear, IncarnationInv, TypeOK
  <2> QED BY <2>3, <2>4 DEF Pending
<1> QED BY <1>1, InvCorrect, PTL

(* A cleanup takes nothing down that was started behind a later fence.     *)
THEOREM OwnersSafe == Spec => OwnersUndisturbed
<1> DEFINE Safe == /\ TakenDown(session, session') /\ session.fenced => session.inc < active
                   /\ TakenDown(terminal, terminal') /\ terminal.fenced => terminal.inc < active
<1>1. IncarnationInv => Safe
  BY DEF IncarnationInv, FenceInv, ClaimClear, Clear, TakenDown
<1>2. IncarnationInv /\ [Next]_vars => [Safe]_vars
  BY <1>1
<1> QED BY <1>2, InvCorrect, PTL DEF Spec, OwnersUndisturbed
=============================================================================
