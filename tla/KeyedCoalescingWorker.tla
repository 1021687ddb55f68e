-------------------------- MODULE KeyedCoalescingWorker --------------------------
(***************************************************************************)
(* makeKeyedCoalescingWorker of packages/shared/src/                       *)
(* KeyedCoalescingWorker.ts, through which the terminals write their       *)
(* history files: one fiber works on one key at a time, values that arrive *)
(* for a key meanwhile are merged, and a failure of one value must not     *)
(* lose the next.                                                          *)
(*                                                                         *)
(* Every enqueued value has a number; a merged value is the set of the     *)
(* numbers merged into it, so merge is union.  Each transaction is one     *)
(* step; taking from the queue and offering after a failure are            *)
(* transactions of their own.                                              *)
(***************************************************************************)
EXTENDS Naturals, Sequences

CONSTANTS
    Keys,         \* e.g. terminal sessions
    MaxValues     \* bound: values enqueued

ASSUME KeyedAssumption == MaxValues \in Nat

VARIABLES
    latestByKey,  \* per key the merged value that waits, {} when there is none
    queuedKeys,
    activeKeys,
    queue,        \* TxQueue of keys
    fiber,        \* where the fiber is, its key and the value it processes
    enqueued,     \* history: values enqueued, per key
    attempted,    \* history: values processing was started with, per key
    values        \* values enqueued so far

vars == <<latestByKey, queuedKeys, activeKeys, queue, fiber, enqueued, attempted, values>>

IdleFiber == [phase |-> "take", value |-> {}]
Working(phase, k, value) == [phase |-> phase, key |-> k, value |-> value]
Holds(phase, k) == fiber.phase = phase /\ fiber.key = k

Init ==
    /\ latestByKey = [k \in Keys |-> {}]
    /\ queuedKeys = {}
    /\ activeKeys = {}
    /\ queue = <<>>
    /\ fiber = IdleFiber
    /\ enqueued = [k \in Keys |-> {}]
    /\ attempted = [k \in Keys |-> {}]
    /\ values = 0

(* enqueue: only a key nobody is to look at is offered.                    *)
NeedsOffer(k) == k \notin queuedKeys /\ k \notin activeKeys

Enqueue(k) ==
    /\ values < MaxValues
    /\ values' = values + 1
    /\ latestByKey' = [latestByKey EXCEPT ![k] = @ \cup {values + 1}]
    /\ enqueued' = [enqueued EXCEPT ![k] = @ \cup {values + 1}]
    /\ IF NeedsOffer(k)
       THEN /\ queuedKeys' = queuedKeys \cup {k}
            /\ queue' = Append(queue, k)
       ELSE UNCHANGED <<queuedKeys, queue>>
    /\ UNCHANGED <<activeKeys, fiber, attempted>>

TakeKey ==
    /\ fiber.phase = "take"
    /\ queue # <<>>
    /\ fiber' = Working("taken", Head(queue), {})
    /\ queue' = Tail(queue)
    /\ UNCHANGED <<latestByKey, queuedKeys, activeKeys, enqueued, attempted, values>>

(* The waiting value of k, if any, goes to process.                        *)
StartProcessing(k) ==
    /\ fiber' = Working("process", k, latestByKey[k])
    /\ attempted' = [attempted EXCEPT ![k] = @ \cup latestByKey[k]]
    /\ latestByKey' = [latestByKey EXCEPT ![k] = {}]

ActivateKey ==
    /\ fiber.phase = "taken"
    /\ queuedKeys' = queuedKeys \ {fiber.key}
    /\ IF latestByKey[fiber.key] = {}
       THEN /\ fiber' = IdleFiber
            /\ UNCHANGED <<latestByKey, activeKeys, attempted>>
       ELSE /\ activeKeys' = activeKeys \cup {fiber.key}
            /\ StartProcessing(fiber.key)
    /\ UNCHANGED <<queue, enqueued, values>>

(* process succeeds: the fiber goes on with what has arrived meanwhile.    *)
ProcessKey_KeepsActive ==        \* mutant: the key stays active with nothing to process
    /\ fiber.phase = "process"
    /\ IF latestByKey[fiber.key] = {}
       THEN fiber' = IdleFiber /\ UNCHANGED <<latestByKey, attempted>>
       ELSE StartProcessing(fiber.key)
    /\ UNCHANGED <<activeKeys, queuedKeys, queue, enqueued, values>>

ProcessKey ==
    /\ fiber.phase = "process"
    /\ IF latestByKey[fiber.key] = {}
       THEN /\ activeKeys' = activeKeys \ {fiber.key}
            /\ fiber' = IdleFiber
            /\ UNCHANGED <<latestByKey, attempted>>
       ELSE /\ StartProcessing(fiber.key)
            /\ UNCHANGED activeKeys
    /\ UNCHANGED <<queuedKeys, queue, enqueued, values>>

(* process fails or is interrupted: its value is given up, and the key     *)
(* will be offered again if another value waits.                           *)
CleanupFailedKey_Forgets ==      \* mutant: what arrived meanwhile is not queued again
    /\ fiber.phase = "process"
    /\ activeKeys' = activeKeys \ {fiber.key}
    /\ fiber' = IdleFiber
    /\ UNCHANGED <<latestByKey, queuedKeys, queue, enqueued, attempted, values>>

CleanupFailedKey ==
    /\ fiber.phase = "process"
    /\ activeKeys' = activeKeys \ {fiber.key}
    /\ IF latestByKey[fiber.key] # {} /\ fiber.key \notin queuedKeys
       THEN /\ queuedKeys' = queuedKeys \cup {fiber.key}
            /\ fiber' = Working("offer", fiber.key, {})
       ELSE /\ UNCHANGED queuedKeys
            /\ fiber' = IdleFiber
    /\ UNCHANGED <<latestByKey, queue, enqueued, attempted, values>>

OfferAgain ==
    /\ fiber.phase = "offer"
    /\ queue' = Append(queue, fiber.key)
    /\ fiber' = IdleFiber
    /\ UNCHANGED <<latestByKey, queuedKeys, activeKeys, enqueued, attempted, values>>

(* drainKey returns when k is in none of the three.                        *)
Drained_LatestOnly(k) ==         \* mutant: a value being processed is not waited for
    latestByKey[k] = {} /\ k \notin queuedKeys
Drained(k) == latestByKey[k] = {} /\ k \notin queuedKeys /\ k \notin activeKeys

FiberStep == TakeKey \/ ActivateKey \/ ProcessKey \/ CleanupFailedKey \/ OfferAgain

Next == (\E k \in Keys : Enqueue(k)) \/ FiberStep

Spec == Init /\ [][Next]_vars

(* The runtime always resumes the fiber, and process always ends.          *)
FairSpec == Spec /\ WF_vars(FiberStep)

-----------------------------------------------------------------------------
(* Properties.                                                             *)

Fibers ==
    {IdleFiber} \cup
    [phase : {"taken", "offer"}, key : Keys, value : {{}}] \cup
    [phase : {"process"}, key : Keys, value : (SUBSET (Nat \ {0})) \ {{}}]

(* Every variable holds values of its type; process always gets a value.   *)
TypeOK ==
    /\ latestByKey \in [Keys -> SUBSET (Nat \ {0})]
    /\ queuedKeys \in SUBSET Keys
    /\ activeKeys \in SUBSET Keys
    /\ queue \in Seq(Keys)
    /\ fiber \in Fibers
    /\ enqueued \in [Keys -> SUBSET (Nat \ {0})]
    /\ attempted \in [Keys -> SUBSET (Nat \ {0})]
    /\ values \in Nat

InQueue(k) == \E i \in 1..Len(queue) : queue[i] = k

(* queuedKeys says which keys the fiber will come to: those in the queue,  *)
(* each once, and the one between the queue and the map.                   *)
QueuedOnce ==
    /\ \A k \in Keys : k \in queuedKeys <=> InQueue(k) \/ Holds("taken", k) \/ Holds("offer", k)
    /\ \A i, j \in 1..Len(queue) : queue[i] = queue[j] => i = j
    /\ fiber.phase \in {"taken", "offer"} => ~InQueue(fiber.key)

(* "drainKey() resolves only when that key has no queued, pending, or      *)
(* active work left": every value enqueued for it was processed, alone or  *)
(* merged, and nothing of it is being processed.                           *)
DrainedIsDone ==
    \A k \in Keys : Drained(k) => attempted[k] = enqueued[k] /\ ~Holds("process", k)

(* A value waits only while somebody will come for it; so a failure or a   *)
(* merge never strands it.                                                 *)
WaitingIsReached ==
    \A k \in Keys : latestByKey[k] # {} => k \in queuedKeys \cup activeKeys

(* Processing is started with newer values only, none of them twice.       *)
AttemptsAreNew ==
    [][ fiber'.phase = "process" /\ fiber' # fiber =>
            \A new \in fiber'.value, old \in attempted[fiber'.key] : old < new ]_vars

(* When nothing more is enqueued every key is drained, also after          *)
(* failures.                                                               *)
KeysDrain == \A k \in Keys : <>[]Drained(k)
=============================================================================
