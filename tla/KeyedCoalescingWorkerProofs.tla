---------------------- MODULE KeyedCoalescingWorkerProofs ----------------------
(***************************************************************************)
(* Proofs about KeyedCoalescingWorker, for every set of keys and number of *)
(* values: no value is stranded, whatever fails, and a drained key is      *)
(* done.                                                                   *)
(***************************************************************************)
EXTENDS KeyedCoalescingWorker, SequenceTheorems, TLAPS

(* A key is active while its value is being processed.                     *)
ActiveIsProcessed == \A k \in Keys : k \in activeKeys <=> Holds("process", k)

(* A value was attempted or waits, and those that wait are newer.          *)
ValuesAccounted ==
    \A k \in Keys :
        /\ enqueued[k] = attempted[k] \cup latestByKey[k]
        /\ \A n \in enqueued[k] : n <= values
        /\ \A old \in attempted[k], new \in latestByKey[k] : old < new

KeyedInv == TypeOK /\ QueuedOnce /\ WaitingIsReached /\ ActiveIsProcessed /\ ValuesAccounted

LEMMA InitInv == Init => KeyedInv
<1> SUFFICES ASSUME Init PROVE KeyedInv
  OBVIOUS
<1>1. queue \in Seq(Keys) /\ Len(queue) = 0
  BY DEF Init
<1>2. TypeOK
  BY <1>1 DEF Init, TypeOK, Fibers
<1>3. QueuedOnce /\ WaitingIsReached /\ ActiveIsProcessed /\ ValuesAccounted
  BY <1>1 DEF Init, QueuedOnce, WaitingIsReached, ActiveIsProcessed, ValuesAccounted, InQueue,
              Holds, IdleFiber
<1> QED BY <1>2, <1>3 DEF KeyedInv

-----------------------------------------------------------------------------
(* Offering a key puts it, and no other, into the queue.                   *)
LEMMA OfferFacts ==
  ASSUME queue \in Seq(Keys), NEW k \in Keys, queue' = Append(queue, k)
  PROVE  /\ queue' \in Seq(Keys)
         /\ \A x \in Keys : InQueue(x)' <=> InQueue(x) \/ x = k
         /\ (\A i, j \in 1..Len(queue) : queue[i] = queue[j] => i = j) /\ ~InQueue(k)
               => \A i, j \in 1..Len(queue') : queue'[i] = queue'[j] => i = j
<1>1. /\ queue' \in Seq(Keys) /\ Len(queue) \in Nat /\ Len(queue') = Len(queue) + 1
      /\ \A i \in 1..Len(queue) : queue'[i] = queue[i]
      /\ queue'[Len(queue) + 1] = k
  BY AppendProperties
<1>2. \A i \in 1..Len(queue') : i \in 1..Len(queue) \/ i = Len(queue) + 1
  BY <1>1
<1>3. 1..Len(queue) \subseteq 1..Len(queue') /\ Len(queue) + 1 \in 1..Len(queue')
  BY <1>1
<1>4. ASSUME NEW x \in Keys
      PROVE  InQueue(x)' <=> InQueue(x) \/ x = k
  BY <1>1, <1>2, <1>3 DEF InQueue
<1>5. ASSUME \A i, j \in 1..Len(queue) : queue[i] = queue[j] => i = j, ~InQueue(k),
             NEW i \in 1..Len(queue'), NEW j \in 1..Len(queue'), queue'[i] = queue'[j]
      PROVE  i = j
  BY <1>1, <1>2, <1>5 DEF InQueue
<1> QED BY <1>1, <1>4, <1>5

(* Taking the first key leaves the others; without duplicates it is gone.  *)
LEMMA TakeFacts ==
  ASSUME queue \in Seq(Keys), queue # <<>>, queue' = Tail(queue)
  PROVE  /\ queue' \in Seq(Keys) /\ Head(queue) \in Keys
         /\ \A x \in Keys : InQueue(x) <=> InQueue(x)' \/ x = Head(queue)
         /\ (\A i, j \in 1..Len(queue) : queue[i] = queue[j] => i = j)
               => /\ \A i, j \in 1..Len(queue') : queue'[i] = queue'[j] => i = j
                  /\ \A i \in 1..Len(queue') : queue'[i] # Head(queue)
<1>1. /\ queue' \in Seq(Keys) /\ Len(queue) \in Nat \ {0} /\ Len(queue') = Len(queue) - 1
      /\ \A i \in 1..Len(queue') : queue'[i] = queue[i + 1]
      /\ Head(queue) = queue[1]
  BY HeadTailProperties, EmptySeq
<1>2. Head(queue) \in Keys
  BY <1>1, ElementOfSeq
<1>3. \A i \in 1..Len(queue') : i + 1 \in 1..Len(queue) /\ i + 1 # 1
  BY <1>1
<1>4. \A i \in 1..Len(queue) : i = 1 \/ (i - 1 \in 1..Len(queue') /\ queue'[i - 1] = queue[i])
  BY <1>1
<1>5. 1 \in 1..Len(queue)
  BY <1>1
<1>6. ASSUME NEW x \in Keys
      PROVE  InQueue(x) <=> InQueue(x)' \/ x = Head(queue)
  BY ZenonT(60), <1>1, <1>3, <1>4, <1>5 DEF InQueue
<1>7. ASSUME \A i, j \in 1..Len(queue) : queue[i] = queue[j] => i = j
      PROVE  /\ \A i, j \in 1..Len(queue') : queue'[i] = queue'[j] => i = j
             /\ \A i \in 1..Len(queue') : queue'[i] # Head(queue)
  <2>1. ASSUME NEW i \in 1..Len(queue'), NEW j \in 1..Len(queue'), queue'[i] = queue'[j]
        PROVE  i = j
    <3>1. queue[i + 1] = queue[j + 1] /\ i + 1 \in 1..Len(queue) /\ j + 1 \in 1..Len(queue)
      BY <1>1, <1>3, <2>1
    <3>2. i + 1 = j + 1
      BY <1>7, <3>1
    <3> QED BY <3>2
  <2>2. ASSUME NEW i \in 1..Len(queue'), queue'[i] = queue[1]
        PROVE  FALSE
    BY <1>1, <1>3, <1>5, <1>7, <2>2
  <2> QED BY <1>1, <2>1, <2>2
<1> QED BY <1>1, <1>2, <1>6, <1>7

-----------------------------------------------------------------------------
(* The invariant, action by action.                                        *)
LEMMA EnqueueStable ==
  ASSUME KeyedInv, NEW k \in Keys, Enqueue(k)
  PROVE  KeyedInv'
<1> USE DEF KeyedInv
<1>1. TypeOK'
  BY OfferFacts DEF Enqueue, TypeOK
<1>2. QueuedOnce'
  <2>1. CASE NeedsOffer(k)
    <3>1. queue' = Append(queue, k) /\ queuedKeys' = queuedKeys \cup {k} /\ fiber' = fiber
      BY <2>1 DEF Enqueue
    <3>2. k \notin queuedKeys /\ ~InQueue(k) /\ ~Holds("taken", k) /\ ~Holds("offer", k)
      BY <2>1 DEF NeedsOffer, QueuedOnce
    <3>3. queue \in Seq(Keys) /\ (fiber.phase \in {"taken", "offer"} => fiber.key \in Keys)
      BY DEF TypeOK, Fibers, IdleFiber
    <3> QED BY <3>1, <3>2, <3>3, OfferFacts DEF QueuedOnce, Holds
  <2>2. CASE ~NeedsOffer(k)
    BY <2>2 DEF Enqueue, QueuedOnce, InQueue, Holds
  <2> QED BY <2>1, <2>2
<1>3. WaitingIsReached'
  BY DEF Enqueue, NeedsOffer, WaitingIsReached, TypeOK
<1>4. ActiveIsProcessed'
  BY DEF Enqueue, ActiveIsProcessed, Holds
<1>5. ValuesAccounted'
  <2> SUFFICES ASSUME NEW x \in Keys
               PROVE  /\ enqueued'[x] = attempted'[x] \cup latestByKey'[x]
                      /\ \A n \in enqueued'[x] : n <= values'
                      /\ \A old \in attempted'[x], new \in latestByKey'[x] : old < new
    BY DEF ValuesAccounted
  <2>1. /\ attempted' = attempted /\ values' = values + 1 /\ values \in Nat
        /\ enqueued'[x] = IF x = k THEN enqueued[x] \cup {values + 1} ELSE enqueued[x]
        /\ latestByKey'[x] = IF x = k THEN latestByKey[x] \cup {values + 1} ELSE latestByKey[x]
        /\ enqueued[x] \in SUBSET (Nat \ {0})
    BY DEF Enqueue, TypeOK
  <2> QED BY <2>1 DEF ValuesAccounted
<1> QED BY <1>1, <1>2, <1>3, <1>4, <1>5

LEMMA TakeStable ==
  ASSUME KeyedInv, TakeKey
  PROVE  KeyedInv'
<1> USE DEF KeyedInv
<1>1. /\ queue \in Seq(Keys) /\ queue # <<>> /\ queue' = Tail(queue)
      /\ fiber.phase = "take" /\ fiber' = Working("taken", Head(queue), {})
  BY DEF TakeKey, TypeOK
<1>2. TypeOK'
  BY <1>1, TakeFacts DEF TakeKey, TypeOK, Fibers, Working
<1>3. QueuedOnce'
  <2>1. \A k \in Keys : Holds("taken", k)' <=> k = Head(queue)
    BY <1>1, TakeFacts DEF Holds, Working
  <2>2. \A k \in Keys : ~Holds("offer", k)' /\ ~Holds("taken", k) /\ ~Holds("offer", k)
    BY <1>1 DEF Holds, Working
  <2>3. fiber'.key = Head(queue) /\ queuedKeys' = queuedKeys
    BY <1>1 DEF Working, TakeKey
  <2> QED BY <1>1, <2>1, <2>2, <2>3, TakeFacts DEF QueuedOnce, InQueue
<1>4. WaitingIsReached' /\ ValuesAccounted'
  BY DEF TakeKey, WaitingIsReached, ValuesAccounted
<1>5. ActiveIsProcessed'
  BY <1>1 DEF TakeKey, ActiveIsProcessed, Holds, Working
<1> QED BY <1>2, <1>3, <1>4, <1>5

(* Starting to process moves the waiting value to the attempted ones.      *)
LEMMA StartStable ==
  ASSUME KeyedInv, NEW k \in Keys, latestByKey[k] # {},
         StartProcessing(k), UNCHANGED <<enqueued, values>>
  PROVE  /\ ValuesAccounted'
         /\ latestByKey' \in [Keys -> SUBSET (Nat \ {0})]
         /\ attempted' \in [Keys -> SUBSET (Nat \ {0})]
         /\ fiber' \in Fibers
         /\ \A x \in Keys : latestByKey'[x] # {} => x # k /\ latestByKey[x] # {}
         /\ \A x \in Keys : Holds("process", x)' <=> x = k
         /\ fiber'.phase = "process"
<1> USE DEF KeyedInv, TypeOK
<1>1. /\ fiber' = Working("process", k, latestByKey[k])
      /\ attempted' = [attempted EXCEPT ![k] = @ \cup latestByKey[k]]
      /\ latestByKey' = [latestByKey EXCEPT ![k] = {}]
  BY DEF StartProcessing
<1>2. latestByKey[k] \in SUBSET (Nat \ {0})
  OBVIOUS
<1>3. /\ fiber' \in Fibers /\ fiber'.phase = "process"
      /\ \A x \in Keys : Holds("process", x)' <=> x = k
  BY <1>1, <1>2 DEF Fibers, Working, Holds
<1>4. ValuesAccounted'
  BY <1>1 DEF ValuesAccounted
<1> QED BY <1>1, <1>3, <1>4

LEMMA ActivateStable ==
  ASSUME KeyedInv, ActivateKey
  PROVE  KeyedInv'
<1> USE DEF KeyedInv
<1> DEFINE k == fiber.key
<1>1. k \in Keys /\ fiber.phase = "taken" /\ queuedKeys' = queuedKeys \ {k}
      /\ queue' = queue /\ UNCHANGED <<enqueued, values>>
  BY DEF ActivateKey, TypeOK, Fibers, IdleFiber
<1>2. \A x \in Keys : ~Holds("process", x) /\ ~Holds("offer", x) /\ (Holds("taken", x) <=> x = k)
  BY <1>1 DEF Holds
<1>3. activeKeys = {}
  BY <1>2 DEF ActiveIsProcessed, TypeOK
<1>4. ~InQueue(k) /\ \A x \in Keys : InQueue(x)' <=> InQueue(x)
  BY <1>1 DEF QueuedOnce, InQueue
<1>5. ASSUME \A x \in Keys : ~Holds("taken", x)' /\ ~Holds("offer", x)',
             fiber'.phase \notin {"taken", "offer"}
      PROVE  QueuedOnce'
  BY <1>1, <1>2, <1>4, <1>5 DEF QueuedOnce
<1>6. CASE latestByKey[k] = {}
  <2>1. fiber' = IdleFiber /\ UNCHANGED <<latestByKey, activeKeys, attempted>>
    BY <1>6 DEF ActivateKey
  <2>2. TypeOK' /\ QueuedOnce'
    BY <1>1, <1>5, <2>1 DEF TypeOK, Fibers, Holds, IdleFiber
  <2>3. WaitingIsReached' /\ ValuesAccounted' /\ ActiveIsProcessed'
    BY <1>1, <1>3, <1>6, <2>1
       DEF WaitingIsReached, ValuesAccounted, ActiveIsProcessed, Holds, IdleFiber
  <2> QED BY <2>2, <2>3
<1>7. CASE latestByKey[k] # {}
  <2>1. StartProcessing(k) /\ activeKeys' = activeKeys \cup {k}
    BY <1>7 DEF ActivateKey
  <2> HIDE DEF k
  <2>2. /\ ValuesAccounted'
        /\ latestByKey' \in [Keys -> SUBSET (Nat \ {0})]
        /\ attempted' \in [Keys -> SUBSET (Nat \ {0})]
        /\ fiber' \in Fibers
        /\ \A x \in Keys : latestByKey'[x] # {} => x # k /\ latestByKey[x] # {}
        /\ \A x \in Keys : Holds("process", x)' <=> x = k
        /\ fiber'.phase = "process"
    <3> HIDE DEF KeyedInv
    <3> QED BY <1>1, <1>7, <2>1, StartStable
  <2>3. TypeOK'
    BY <1>1, <2>1, <2>2 DEF TypeOK
  <2>4. QueuedOnce'
    BY <1>5, <2>2 DEF Holds
  <2>5. WaitingIsReached' /\ ActiveIsProcessed'
    BY <1>1, <1>3, <2>1, <2>2 DEF WaitingIsReached, ActiveIsProcessed
  <2> QED BY <2>2, <2>3, <2>4, <2>5
<1> QED BY <1>6, <1>7

LEMMA ProcessStable ==
  ASSUME KeyedInv, ProcessKey
  PROVE  KeyedInv'
<1> USE DEF KeyedInv
<1> DEFINE k == fiber.key
<1>1. k \in Keys /\ fiber.phase = "process" /\ UNCHANGED <<queuedKeys, queue, enqueued, values>>
  BY DEF ProcessKey, TypeOK, Fibers, IdleFiber
<1>2. \A x \in Keys : ~Holds("taken", x) /\ ~Holds("offer", x) /\ (Holds("process", x) <=> x = k)
  BY <1>1 DEF Holds
<1>3. activeKeys = {k}
  BY <1>1, <1>2 DEF ActiveIsProcessed, TypeOK
<1>4. \A x \in Keys : InQueue(x)' <=> InQueue(x)
  BY <1>1 DEF InQueue
<1>5. ASSUME \A x \in Keys : ~Holds("taken", x)' /\ ~Holds("offer", x)',
             fiber'.phase \notin {"taken", "offer"}
      PROVE  QueuedOnce'
  BY <1>1, <1>2, <1>4, <1>5 DEF QueuedOnce
<1>6. CASE latestByKey[k] = {}
  <2>1. fiber' = IdleFiber /\ activeKeys' = {} /\ UNCHANGED <<latestByKey, attempted>>
    BY <1>3, <1>6 DEF ProcessKey
  <2>2. TypeOK' /\ QueuedOnce'
    BY <1>1, <1>5, <2>1 DEF TypeOK, Fibers, Holds, IdleFiber
  <2>3. WaitingIsReached' /\ ValuesAccounted' /\ ActiveIsProcessed'
    BY <1>1, <1>3, <1>6, <2>1
       DEF WaitingIsReached, ValuesAccounted, ActiveIsProcessed, Holds, IdleFiber
  <2> QED BY <2>2, <2>3
<1>7. CASE latestByKey[k] # {}
  <2>1. StartProcessing(k) /\ activeKeys' = activeKeys
    BY <1>7 DEF ProcessKey
  <2> HIDE DEF k
  <2>2. /\ ValuesAccounted'
        /\ latestByKey' \in [Keys -> SUBSET (Nat \ {0})]
        /\ attempted' \in [Keys -> SUBSET (Nat \ {0})]
        /\ fiber' \in Fibers
        /\ \A x \in Keys : latestByKey'[x] # {} => x # k /\ latestByKey[x] # {}
        /\ \A x \in Keys : Holds("process", x)' <=> x = k
        /\ fiber'.phase = "process"
    <3> HIDE DEF KeyedInv
    <3> QED BY <1>1, <1>7, <2>1, StartStable
  <2>3. TypeOK'
    BY <1>1, <2>1, <2>2 DEF TypeOK
  <2>4. QueuedOnce'
    BY <1>5, <2>2 DEF Holds
  <2>5. WaitingIsReached' /\ ActiveIsProcessed'
    BY <1>1, <1>3, <2>1, <2>2 DEF WaitingIsReached, ActiveIsProcessed
  <2> QED BY <2>2, <2>3, <2>4, <2>5
<1> QED BY <1>6, <1>7

LEMMA CleanupStable ==
  ASSUME KeyedInv, CleanupFailedKey
  PROVE  KeyedInv'
<1> USE DEF KeyedInv
<1> DEFINE k == fiber.key
<1>1. /\ k \in Keys /\ fiber.phase = "process" /\ activeKeys' = activeKeys \ {k}
      /\ UNCHANGED <<latestByKey, queue, enqueued, attempted, values>>
  BY DEF CleanupFailedKey, TypeOK, Fibers, IdleFiber
<1>2. \A x \in Keys : ~Holds("taken", x) /\ ~Holds("offer", x) /\ (Holds("process", x) <=> x = k)
  BY <1>1 DEF Holds
<1>3. activeKeys' = {}
  BY <1>1, <1>2 DEF ActiveIsProcessed, TypeOK
<1>4. \A x \in Keys : InQueue(x)' <=> InQueue(x)
  BY <1>1 DEF InQueue
<1>5. ValuesAccounted'
  BY <1>1 DEF ValuesAccounted
<1>6. CASE latestByKey[k] # {} /\ k \notin queuedKeys
  <2>1. queuedKeys' = queuedKeys \cup {k} /\ fiber' = Working("offer", k, {})
    BY <1>6 DEF CleanupFailedKey
  <2>2. TypeOK'
    BY <1>1, <2>1 DEF TypeOK, Fibers, Working
  <2>3. \A x \in Keys : ~Holds("taken", x)' /\ ~Holds("process", x)' /\ (Holds("offer", x)' <=> x = k)
    BY <2>1 DEF Holds, Working
  <2>4. QueuedOnce'
    <3>1. ~InQueue(k)' /\ fiber'.key = k
      BY <1>1, <1>4, <1>6, <2>1 DEF QueuedOnce, Working
    <3> QED BY <1>1, <1>2, <1>4, <2>1, <2>3, <3>1 DEF QueuedOnce, InQueue
  <2>5. WaitingIsReached' /\ ActiveIsProcessed'
    BY <1>1, <1>2, <1>3, <2>1, <2>3 DEF WaitingIsReached, ActiveIsProcessed
  <2> QED BY <1>5, <2>2, <2>4, <2>5
<1>7. CASE ~(latestByKey[k] # {} /\ k \notin queuedKeys)
  <2>1. queuedKeys' = queuedKeys /\ fiber' = IdleFiber
    BY <1>7 DEF CleanupFailedKey
  <2>2. TypeOK'
    BY <1>1, <2>1 DEF TypeOK, Fibers
  <2>3. /\ \A x \in Keys : ~Holds("taken", x)' /\ ~Holds("process", x)' /\ ~Holds("offer", x)'
        /\ fiber'.phase = "take"
    BY <2>1 DEF Holds, IdleFiber
  <2>4. QueuedOnce'
    BY <1>1, <1>2, <1>4, <2>1, <2>3 DEF QueuedOnce
  <2>5. WaitingIsReached' /\ ActiveIsProcessed'
    BY <1>1, <1>2, <1>3, <1>7, <2>1, <2>3 DEF WaitingIsReached, ActiveIsProcessed
  <2> QED BY <1>5, <2>2, <2>4, <2>5
<1> QED BY <1>6, <1>7

LEMMA OfferStable ==
  ASSUME KeyedInv, OfferAgain
  PROVE  KeyedInv'
<1> USE DEF KeyedInv
<1> DEFINE k == fiber.key
<1>1. /\ k \in Keys /\ fiber.phase = "offer" /\ queue' = Append(queue, k) /\ fiber' = IdleFiber
      /\ UNCHANGED <<latestByKey, queuedKeys, activeKeys, enqueued, attempted, values>>
      /\ queue \in Seq(Keys)
  BY DEF OfferAgain, TypeOK, Fibers, IdleFiber
<1>2. TypeOK'
  BY <1>1, OfferFacts DEF TypeOK, Fibers
<1>3. QueuedOnce'
  <2>1. \A x \in Keys : ~Holds("taken", x) /\ (Holds("offer", x) <=> x = k)
    BY <1>1 DEF Holds
  <2>2. fiber'.phase = "take" /\ \A x \in Keys : ~Holds("taken", x)' /\ ~Holds("offer", x)'
    BY <1>1 DEF Holds, IdleFiber
  <2>3. ~InQueue(k)
    BY <1>1 DEF QueuedOnce
  <2> HIDE DEF k
  <2> QED BY <1>1, <2>1, <2>2, <2>3, OfferFacts DEF QueuedOnce
<1>4. WaitingIsReached' /\ ValuesAccounted'
  BY <1>1 DEF WaitingIsReached, ValuesAccounted
<1>5. ActiveIsProcessed'
  BY <1>1 DEF ActiveIsProcessed, Holds, IdleFiber
<1> QED BY <1>2, <1>3, <1>4, <1>5

LEMMA InvStable == KeyedInv /\ [Next]_vars => KeyedInv'
<1> SUFFICES ASSUME KeyedInv, [Next]_vars PROVE KeyedInv'
  OBVIOUS
<1>1. CASE UNCHANGED vars
  BY <1>1 DEF vars, KeyedInv, TypeOK, QueuedOnce, WaitingIsReached, ActiveIsProcessed,
              ValuesAccounted, InQueue, Holds
<1> QED BY <1>1, EnqueueStable, TakeStable, ActivateStable, ProcessStable, CleanupStable, OfferStable
        DEF Next, FiberStep

LEMMA InvCorrect == Spec => []KeyedInv
BY InitInv, InvStable, PTL DEF Spec

(* Every variable always holds values of its type.                         *)
THEOREM TypeCorrect == Spec => []TypeOK
<1>1. KeyedInv => TypeOK
  BY DEF KeyedInv
<1> QED BY <1>1, InvCorrect, PTL

(* No value is stranded: not by a failure of the value before it, not by   *)
(* being merged, not by arriving between two transactions of the fiber.    *)
THEOREM WaitingCorrect == Spec => []WaitingIsReached
<1>1. KeyedInv => WaitingIsReached
  BY DEF KeyedInv
<1> QED BY <1>1, InvCorrect, PTL

(* A key is in the queue at most once, and the set agrees with the queue.  *)
THEOREM QueueCorrect == Spec => []QueuedOnce
<1>1. KeyedInv => QueuedOnce
  BY DEF KeyedInv
<1> QED BY <1>1, InvCorrect, PTL

(* drainKey returns only when every value of the key was processed.        *)
THEOREM DrainCorrect == Spec => []DrainedIsDone
<1>1. KeyedInv => DrainedIsDone
  BY DEF KeyedInv, DrainedIsDone, Drained, ValuesAccounted, ActiveIsProcessed
<1> QED BY <1>1, InvCorrect, PTL

(* Values are processed in the order they were enqueued, none twice.       *)
THEOREM AttemptsCorrect == Spec => AttemptsAreNew
<1> DEFINE Fresh == fiber'.phase = "process" /\ fiber' # fiber =>
                        \A new \in fiber'.value, old \in attempted[fiber'.key] : old < new
<1>1. KeyedInv /\ Next => Fresh
  <2> SUFFICES ASSUME KeyedInv, Next, fiber'.phase = "process", fiber' # fiber PROVE Fresh
    OBVIOUS
  <2>1. ActivateKey \/ ProcessKey
    BY DEF Next, FiberStep, Enqueue, TakeKey, CleanupFailedKey, OfferAgain, Working, IdleFiber
  <2>2. fiber.key \in Keys /\ StartProcessing(fiber.key)
    BY <2>1 DEF KeyedInv, TypeOK, Fibers, ActivateKey, ProcessKey, IdleFiber
  <2>3. fiber'.key = fiber.key /\ fiber'.value = latestByKey[fiber.key]
    BY <2>2 DEF StartProcessing, Working
  <2> QED BY <2>2, <2>3 DEF KeyedInv, ValuesAccounted
<1>2. KeyedInv /\ [Next]_vars => [Fresh]_vars
  BY <1>1
<1> QED BY <1>2, InvCorrect, PTL DEF Spec, AttemptsAreNew
=============================================================================
