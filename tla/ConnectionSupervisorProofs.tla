------------------------ MODULE ConnectionSupervisorProofs ------------------------
(***************************************************************************)
(* Proofs about ConnectionSupervisor, for every number of inputs, leases   *)
(* and delays.  The invariant says what stands in the queue when the       *)
(* intent has changed under the fiber (SignalsInv), whose lease is         *)
(* published (LeaseInv), and how the count follows the failures            *)
(* (LadderInv).                                                            *)
(***************************************************************************)
EXTENDS ConnectionSupervisor, SequenceTheorems, TLAPS

Queued(tag) == \E i \in 1..Len(signals) : signals[i] = tag

(* A change of the intent that the fiber has not acted on is in the queue. *)
SignalsInv ==
    /\ at = "idle" =>
            \/ signals # <<>>
            \/ /\ state.phase = IF intent.desired THEN "offline" ELSE "available"
               /\ intent.desired => ~intent.online
    /\ at \in Attempting =>
            /\ intent.desired \/ Queued("DisconnectRequested")
            /\ intent.online \/ Queued("Offline")
    /\ at \in {"blocked", "backoff"} =>
            \/ signals # <<>>
            \/ state.desired = intent.desired /\ state.online = intent.online

Leased == at \in {"connected", "probe"} \/ (at = "release" /\ outcome.established)

LeaseInv ==
    /\ LeaseEndsWithAttempt
    /\ at \in {"connected", "probe"} => session = generation + 1
    /\ lastLease <= IF Leased THEN generation + 1 ELSE generation

LadderInv ==
    /\ at # "release" => failureCount >= failures
    /\ at = "release" /\ outcome.tag = "Interrupted" => CountAfter >= failures
    /\ at = "release" /\ outcome.tag = "Failure" =>
            IF outcome.error = "blocked" THEN CountAfter >= failures
            ELSE IF wakeProbeFailed THEN failures = 0
            ELSE Counted(CountAfter) >= failures
    /\ at = "release" => outcome.tag # "none"

(* The marker of a failed wake probe belongs to the attempt being released.*)
MarkerInv == wakeProbeFailed => at = "release"

SupervisorInv == TypeOK /\ SignalsInv /\ LeaseInv /\ LadderInv /\ MarkerInv

-----------------------------------------------------------------------------
(* A signal that is offered is in the queue, with what was there before.   *)
LEMMA SignalFacts ==
  ASSUME signals \in Seq(Tags), NEW tag \in Tags, signals' = Append(signals, tag)
  PROVE  /\ signals' \in Seq(Tags) /\ signals' # <<>> /\ Queued(tag)'
         /\ \A t \in Tags : Queued(t) => Queued(t)'
<1>1. /\ signals' \in Seq(Tags) /\ Len(signals) \in Nat /\ Len(signals') = Len(signals) + 1
      /\ \A i \in 1..Len(signals) : signals'[i] = signals[i]
      /\ signals'[Len(signals) + 1] = tag
  BY AppendProperties
<1>2. 1..Len(signals) \subseteq 1..Len(signals') /\ Len(signals) + 1 \in 1..Len(signals')
  BY <1>1
<1>3. signals' # <<>>
  BY <1>1, EmptySeq
<1>4. Queued(tag)' /\ \A t \in Tags : Queued(t) => Queued(t)'
  BY <1>1, <1>2 DEF Queued
<1> QED BY <1>1, <1>3, <1>4

(* Taking a signal leaves the others.                                      *)
LEMMA TakeFacts ==
  ASSUME signals \in Seq(Tags), signals # <<>>, signals' = Tail(signals)
  PROVE  /\ signals' \in Seq(Tags) /\ Head(signals) \in Tags
         /\ \A t \in Tags : Queued(t) => t = Head(signals) \/ Queued(t)'
<1>1. /\ signals' \in Seq(Tags) /\ Len(signals) \in Nat \ {0} /\ Len(signals') = Len(signals) - 1
      /\ \A i \in 1..Len(signals') : signals'[i] = signals[i + 1]
      /\ Head(signals) = signals[1]
  BY HeadTailProperties, EmptySeq
<1>2. Head(signals) \in Tags
  BY <1>1, ElementOfSeq
<1>3. \A i \in 1..Len(signals) : i = 1 \/ (i - 1 \in 1..Len(signals') /\ signals'[i - 1] = signals[i])
  BY <1>1
<1>4. \A t \in Tags : Queued(t) => t = Head(signals) \/ Queued(t)'
  BY <1>1, <1>3 DEF Queued
<1> QED BY <1>1, <1>2, <1>4

LEMMA CountFacts ==
  ASSUME NEW n \in 0..MaxRung
  PROVE  Counted(n) \in 0..MaxRung /\ Counted(n) >= n /\ Counted(0) = 1
BY SupervisorAssumption DEF Counted

LEMMA InitInv == Init => SupervisorInv
<1> SUFFICES ASSUME Init PROVE SupervisorInv
  OBVIOUS
<1> USE SupervisorAssumption
<1>1. signals \in Seq(Tags)
  BY EmptySeq DEF Init
<1>2. state \in [phase : Phases, desired : BOOLEAN, online : BOOLEAN, attempt : 0..(MaxRung + 1),
                 failure : Errors]
  BY DEF Init, Available, Offline, Connecting, State, Phases, Errors
<1>3. outcome \in [tag : {"none", "Interrupted", "Failure"}, established : BOOLEAN,
                   stable : BOOLEAN, error : Errors]
  BY DEF Init, NoOutcome, Errors
<1>4. failureCount \in 0..MaxRung /\ latestFailure \in Errors
  BY DEF Init, Errors
<1>5. TypeOK
  BY <1>1, <1>2, <1>3, <1>4 DEF TypeOK, Init
<1>6. SignalsInv /\ LeaseInv /\ LadderInv /\ MarkerInv
  BY DEF Init, MarkerInv, SignalsInv, LeaseInv, LeaseEndsWithAttempt, LadderInv, Leased, Attempting
<1> QED BY <1>5, <1>6 DEF SupervisorInv

-----------------------------------------------------------------------------
(* The invariant, action by action.                                        *)

(* An input leaves the fiber alone; its signal is in the queue.            *)
LEMMA InputStable ==
  ASSUME SupervisorInv, Input
  PROVE  SupervisorInv'
<1> USE DEF SupervisorInv
<1>1. PICK tag \in Tags :
        /\ Signal(tag)
        /\ intent' \in [desired : BOOLEAN, online : BOOLEAN]
        /\ resetRetryState' \in BOOLEAN
        /\ intent'.desired \/ ~intent.desired \/ tag = "DisconnectRequested"
        /\ intent'.online \/ ~intent.online \/ tag = "Offline"
  BY DEF Input, Connect, Disconnect, RetryNow, NetworkChanges, Wakeup, Tags, TypeOK
<1>2. /\ signals' = Append(signals, tag)
      /\ inputs' = inputs + 1
      /\ UNCHANGED <<wakeProbeFailed, state, session, prepared, at, outcome, failureCount,
                     generation, latestFailure, lastLease, failures>>
  BY <1>1 DEF Signal, published, loop
<1>3. /\ signals' \in Seq(Tags) /\ signals' # <<>> /\ Queued(tag)'
      /\ \A t \in Tags : Queued(t) => Queued(t)'
  <2>1. signals \in Seq(Tags)
    BY DEF TypeOK
  <2> HIDE DEF SupervisorInv
  <2> QED BY <1>2, <2>1, SignalFacts
<1>4. TypeOK'
  BY <1>1, <1>2, <1>3 DEF TypeOK
<1>5. SignalsInv'
  BY <1>1, <1>2, <1>3 DEF SignalsInv, Tags, TypeOK
<1>6. LeaseInv'
  BY <1>2 DEF LeaseInv, LeaseEndsWithAttempt, Leased
<1>7. LadderInv' /\ MarkerInv'
  BY <1>2 DEF LadderInv, CountAfter, EndsSeries, MarkerInv
<1> QED BY <1>4, <1>5, <1>6, <1>7

LEMMA LoopTopStable ==
  ASSUME SupervisorInv, LoopTop
  PROVE  SupervisorInv'
<1> USE DEF SupervisorInv
<1>1. /\ at = "loop" /\ session = 0 /\ ~prepared /\ session' = 0 /\ prepared' = FALSE
      /\ resetRetryState' = FALSE
      /\ UNCHANGED <<intent, signals, wakeProbeFailed, outcome, generation, inputs, lastLease>>
  BY DEF LoopTop, LeaseInv, LeaseEndsWithAttempt, Attempting, TypeOK
<1>2. Count \in 0..MaxRung /\ Latest \in Errors
  BY SupervisorAssumption DEF Count, Latest, TypeOK, Errors
<1>3. CASE ~intent.desired
  <2>1. failureCount' = 0 /\ latestFailure' = "none" /\ state' = Available /\ at' = "idle"
        /\ failures' = 0
    BY <1>3 DEF LoopTop
  <2>2. state' \in [phase : Phases, desired : BOOLEAN, online : BOOLEAN, attempt : 0..(MaxRung + 1),
                 failure : Errors]
    BY <2>1, SupervisorAssumption DEF Available, State, Phases, Errors, TypeOK
  <2>3. failureCount' \in 0..MaxRung /\ latestFailure' \in Errors
    BY <2>1, SupervisorAssumption DEF Errors
  <2>4. TypeOK'
    BY <1>1, <2>1, <2>2, <2>3 DEF TypeOK
  <2>5. SignalsInv'
    BY <1>1, <1>3, <2>1 DEF SignalsInv, Available, State, Attempting
  <2>6. LeaseInv' /\ LadderInv' /\ MarkerInv'
    BY <1>1, <2>1 DEF LeaseInv, LeaseEndsWithAttempt, LadderInv, Leased, MarkerInv
  <2> QED BY <2>4, <2>5, <2>6
<1>4. CASE intent.desired
  <2>1. /\ failureCount' = Count /\ latestFailure' = Latest
        /\ state' = IF intent.online THEN Connecting(Count + 1, Latest)
                                     ELSE Offline(Count + 1, Latest)
        /\ at' = IF intent.online THEN "prepare" ELSE "idle"
        /\ failures' = IF resetRetryState THEN 0 ELSE failures
    BY <1>4 DEF LoopTop
  <2>2. state' \in [phase : Phases, desired : BOOLEAN, online : BOOLEAN, attempt : 0..(MaxRung + 1),
                 failure : Errors]
    BY <1>2, <2>1, SupervisorAssumption DEF Connecting, Offline, State, Phases, TypeOK
  <2>3. TypeOK'
    BY <1>1, <1>2, <2>1, <2>2 DEF TypeOK, Attempting
  <2>4. SignalsInv'
    BY <1>1, <1>4, <2>1 DEF SignalsInv, Offline, State, Attempting
  <2>5. LeaseInv'
    BY <1>1, <2>1 DEF LeaseInv, LeaseEndsWithAttempt, Leased
  <2>6. LadderInv' /\ MarkerInv'
    BY <1>1, <2>1 DEF LadderInv, Count, MarkerInv
  <2> QED BY <2>3, <2>4, <2>5, <2>6
<1> QED BY <1>3, <1>4

LEMMA WaitStable ==
  ASSUME SupervisorInv, WaitEnds
  PROVE  SupervisorInv'
<1> USE DEF SupervisorInv
<1>1. /\ at \in {"idle", "blocked", "backoff"} /\ at' = "loop"
      /\ (signals # <<>> /\ signals' = Tail(signals)) \/ signals' = signals
      /\ UNCHANGED <<intent, resetRetryState, wakeProbeFailed, state, session, prepared, outcome,
                     failureCount, generation, latestFailure, inputs, lastLease, failures>>
  BY DEF WaitEnds, flags, published, loop
<1>2. signals' \in Seq(Tags)
  <2>1. signals \in Seq(Tags)
    BY DEF TypeOK
  <2> HIDE DEF SupervisorInv
  <2> QED BY <1>1, <2>1, TakeFacts
<1>3. TypeOK'
  BY <1>1, <1>2 DEF TypeOK
<1>4. SignalsInv' /\ LadderInv' /\ MarkerInv'
  BY <1>1 DEF SignalsInv, LadderInv, Attempting, MarkerInv
<1>5. LeaseInv'
  BY <1>1 DEF LeaseInv, LeaseEndsWithAttempt, Leased, Attempting
<1> QED BY <1>3, <1>4, <1>5

(* What the end of an attempt keeps of the invariant: SignalsInv has       *)
(* nothing to say, and nothing is published.                               *)
LEMMA ReleaseFacts ==
  ASSUME NEW result, Release(result)
  PROVE  outcome' = result /\ at' = "release" /\ session' = 0 /\ prepared' = FALSE
         /\ SignalsInv' /\ LeaseEndsWithAttempt'
BY DEF Release, SignalsInv, LeaseEndsWithAttempt, Attempting

Outcomes == [tag : {"none", "Interrupted", "Failure"}, established : BOOLEAN,
             stable : BOOLEAN, error : Errors]

LEMMA PrepareStable ==
  ASSUME SupervisorInv, Prepare
  PROVE  SupervisorInv'
<1> USE DEF SupervisorInv
<1>1. /\ at = "prepare" /\ at' = "establish" /\ prepared' = TRUE /\ session = 0
      /\ state' = Connecting(state.attempt, state.failure)
      /\ UNCHANGED <<intent, signals, resetRetryState, wakeProbeFailed, session, outcome,
                     failureCount, generation, latestFailure, inputs, lastLease, failures>>
  BY DEF Prepare, flags, loop, LeaseInv, LeaseEndsWithAttempt
<1>2. state' \in [phase : Phases, desired : BOOLEAN, online : BOOLEAN, attempt : 0..(MaxRung + 1),
                 failure : Errors]
  BY <1>1 DEF Connecting, State, Phases, TypeOK
<1>3. TypeOK'
  BY <1>1, <1>2 DEF TypeOK, Attempting
<1>4. SignalsInv'
  BY <1>1 DEF SignalsInv, Attempting, Queued
<1>5. LeaseInv' /\ LadderInv' /\ MarkerInv'
  BY <1>1 DEF LeaseInv, LeaseEndsWithAttempt, Leased, Attempting, LadderInv, MarkerInv
<1> QED BY <1>3, <1>4, <1>5

LEMMA EstablishFailsStable ==
  ASSUME SupervisorInv, EstablishFails
  PROVE  SupervisorInv'
<1> USE DEF SupervisorInv
<1>1. PICK error \in {"transient", "blocked"} :
        /\ Release(Failure(FALSE, FALSE, error))
        /\ failures' = IF error = "transient" THEN Counted(failures) ELSE failures
  BY DEF EstablishFails
<1>2. /\ at \in {"prepare", "establish"}
      /\ UNCHANGED <<intent, signals, resetRetryState, wakeProbeFailed, state, failureCount,
                     generation, latestFailure, inputs, lastLease>>
  BY DEF EstablishFails, flags, loop
<1>3. /\ outcome' = Failure(FALSE, FALSE, error) /\ at' = "release" /\ session' = 0
      /\ prepared' = FALSE /\ SignalsInv' /\ LeaseEndsWithAttempt'
  BY <1>1, ReleaseFacts
<1>4. outcome' \in Outcomes /\ ~outcome'.established /\ outcome'.tag = "Failure"
      /\ outcome'.error = error
  BY <1>3 DEF Failure, Outcomes, Errors
<1>5. ~wakeProbeFailed
  BY <1>2 DEF MarkerInv
<1>a. /\ failures \in Nat /\ failureCount \in 0..MaxRung /\ failureCount >= failures
      /\ failures' \in Nat
  BY <1>1, <1>2, SupervisorAssumption DEF TypeOK, LadderInv, Counted
<1>6. TypeOK'
  BY <1>2, <1>3, <1>4, <1>a DEF TypeOK, Outcomes
<1>7. LeaseInv'
  BY <1>2, <1>3, <1>4 DEF LeaseInv, Leased
<1>b. CountAfter' = failureCount /\ Counted(failureCount) >= Counted(failures)
  BY <1>2, <1>4, <1>a, SupervisorAssumption DEF CountAfter, EndsSeries, Counted
<1>8. LadderInv'
  <2>1. CASE error = "transient"
    BY <1>1, <1>2, <1>3, <1>4, <1>5, <1>b, <2>1 DEF LadderInv, Counted
  <2>2. CASE error = "blocked"
    BY <1>1, <1>3, <1>4, <1>a, <1>b, <2>2 DEF LadderInv
  <2> QED BY <2>1, <2>2
<1>9. MarkerInv'
  BY <1>2, <1>3, <1>5 DEF MarkerInv
<1> QED BY <1>3, <1>6, <1>7, <1>8, <1>9

LEMMA EstablishedStable ==
  ASSUME SupervisorInv, Established
  PROVE  SupervisorInv'
<1> USE DEF SupervisorInv
<1>1. /\ at = "establish" /\ ~wakeProbeFailed
      /\ UNCHANGED <<intent, signals, resetRetryState, wakeProbeFailed, failureCount,
                     generation, latestFailure, inputs, failures>>
  BY DEF Established, flags, loop, MarkerInv
<1>2. CASE intent.desired /\ intent.online
  <2>1. /\ prepared' = TRUE /\ session' = generation + 1 /\ lastLease' = generation + 1
        /\ state' = State("connected", TRUE, intent.online, state.attempt, "none")
        /\ at' = "connected" /\ outcome' = outcome
    BY <1>2 DEF Established
  <2>2. state' \in [phase : Phases, desired : BOOLEAN, online : BOOLEAN, attempt : 0..(MaxRung + 1),
                 failure : Errors]
    BY <2>1 DEF State, Phases, Errors, TypeOK
  <2>a. generation \in Nat /\ session' \in Nat /\ lastLease' \in Nat
    BY <2>1 DEF TypeOK
  <2>b. prepared' \in BOOLEAN /\ at' \in Attempting
    BY <2>1 DEF Attempting
  <2>3. TypeOK'
    BY <1>1, <2>1, <2>2, <2>a, <2>b DEF TypeOK
  <2>4. SignalsInv'
    BY <1>1, <1>2, <2>1 DEF SignalsInv, Attempting
  <2>5. LeaseInv'
    BY <1>1, <2>1, <2>3 DEF LeaseInv, LeaseEndsWithAttempt, Leased, Attempting, State, TypeOK
  <2>6. LadderInv' /\ MarkerInv'
    BY <1>1, <2>1 DEF LadderInv, MarkerInv
  <2> QED BY <2>3, <2>4, <2>5, <2>6
<1>3. CASE ~(intent.desired /\ intent.online)
  <2>1. Release(Interrupted(FALSE, FALSE)) /\ UNCHANGED <<state, lastLease>>
    BY <1>3 DEF Established
  <2>2. /\ outcome' = Interrupted(FALSE, FALSE) /\ at' = "release" /\ session' = 0
        /\ prepared' = FALSE /\ SignalsInv' /\ LeaseEndsWithAttempt'
    BY <2>1, ReleaseFacts
  <2>3. outcome' \in Outcomes /\ ~outcome'.established /\ outcome'.tag = "Interrupted"
    BY <2>2 DEF Interrupted, Outcomes, Errors
  <2>4. TypeOK'
    BY <1>1, <2>1, <2>2, <2>3 DEF TypeOK, Outcomes
  <2>5. LeaseInv'
    BY <1>1, <2>1, <2>2, <2>3 DEF LeaseInv, Leased
  <2>6. LadderInv' /\ MarkerInv'
    BY <1>1, <2>2, <2>3 DEF LadderInv, MarkerInv, CountAfter, EndsSeries
  <2> QED BY <2>2, <2>4, <2>5, <2>6
<1> QED BY <1>2, <1>3

(* Whatever ends an attempt or a lease, stable or not.                     *)
LEMMA ReleaseStable ==
  ASSUME SupervisorInv, NEW result \in Outcomes, Release(result), at \in Attempting,
         signals' \in Seq(Tags), wakeProbeFailed' \in BOOLEAN, failures' \in Nat,
         UNCHANGED <<intent, resetRetryState, state, failureCount, generation, latestFailure,
                     inputs, lastLease>>,
         at \in {"connected", "probe"} <=> result.established,
         result.tag # "none",
         result.tag = "Interrupted" \/ result.error = "blocked" =>
             failures' <= IF result.established /\ result.stable THEN 0 ELSE failures,
         result.tag = "Failure" /\ result.error # "blocked" =>
             IF wakeProbeFailed' THEN failures' = 0
             ELSE failures' <= IF result.established /\ result.stable THEN 1 ELSE Counted(failures)
  PROVE  SupervisorInv'
<1> USE DEF SupervisorInv
<1>1. /\ outcome' = result /\ at' = "release" /\ session' = 0 /\ prepared' = FALSE
      /\ SignalsInv' /\ LeaseEndsWithAttempt'
  BY ReleaseFacts
<1>2. TypeOK'
  BY <1>1 DEF TypeOK, Outcomes
<1>3. LeaseInv'
  <2>1. lastLease <= IF at \in {"connected", "probe"} THEN generation + 1 ELSE generation
    BY DEF LeaseInv, Leased, Attempting
  <2>2. lastLease' <= IF result.established THEN generation' + 1 ELSE generation'
    BY <2>1
  <2>3. Leased' <=> result.established
    BY <1>1 DEF Leased
  <2> QED BY <1>1, <2>2, <2>3 DEF LeaseInv
<1>4. /\ failures \in Nat /\ failureCount \in 0..MaxRung /\ failureCount >= failures
  BY DEF TypeOK, LadderInv, Attempting
<1>5. CountAfter' = IF result.established /\ result.stable THEN 0 ELSE failureCount
  BY <1>1 DEF CountAfter, EndsSeries
<1>6. Counted(0) = 1 /\ Counted(failureCount) >= Counted(failures)
  BY <1>4, SupervisorAssumption DEF Counted
<1>7. /\ Counted(CountAfter') = Counted(CountAfter)'
      /\ Counted(failures) \in Nat /\ Counted(failureCount) \in Nat
  BY <1>4, SupervisorAssumption DEF Counted
<1>8. LadderInv'
  BY <1>1, <1>4, <1>5, <1>6, <1>7 DEF LadderInv
<1>9. MarkerInv'
  BY <1>1 DEF MarkerInv
<1> QED BY <1>1, <1>2, <1>3, <1>8, <1>9

LEMMA TakeSignalStable ==
  ASSUME SupervisorInv, TakeSignal
  PROVE  SupervisorInv'
<1> USE DEF SupervisorInv
<1>1. /\ at \in Attempting /\ signals # <<>> /\ signals' = Tail(signals)
      /\ UNCHANGED <<intent, resetRetryState, wakeProbeFailed, state, failureCount,
                     generation, latestFailure, inputs, lastLease>>
  BY DEF TakeSignal, flags, loop
<1>2. /\ signals' \in Seq(Tags) /\ Head(signals) \in Tags
      /\ \A t \in Tags : Queued(t) => t = Head(signals) \/ Queued(t)'
  <2>1. signals \in Seq(Tags)
    BY DEF TypeOK
  <2> HIDE DEF SupervisorInv
  <2> QED BY <1>1, <2>1, TakeFacts
<1>3. CASE Ends(Head(signals))
  <2>1. PICK stable \in BOOLEAN :
            /\ Release(Interrupted(at \in {"connected", "probe"}, stable))
            /\ failures' = IF stable THEN 0 ELSE failures
            /\ stable => at \in {"connected", "probe"}
    BY <1>3 DEF TakeSignal
  <2> DEFINE result == Interrupted(at \in {"connected", "probe"}, stable)
  <2>2. /\ result \in Outcomes /\ result.tag = "Interrupted" /\ result.stable = stable
        /\ result.established <=> at \in {"connected", "probe"}
    <3>1. ASSUME NEW held \in BOOLEAN
          PROVE  /\ Interrupted(held, stable) \in Outcomes
                 /\ Interrupted(held, stable).tag = "Interrupted"
                 /\ Interrupted(held, stable).stable = stable
                 /\ Interrupted(held, stable).established = held
      BY DEF Interrupted, Outcomes, Errors
    <3>2. (at \in {"connected", "probe"}) \in BOOLEAN
      OBVIOUS
    <3> QED BY <3>1, <3>2
  <2>3. failures' \in Nat /\ failures' <= IF result.established /\ result.stable THEN 0 ELSE failures
    BY <2>1, <2>2 DEF TypeOK
  <2>4. wakeProbeFailed' \in BOOLEAN
    BY <1>1 DEF TypeOK
  <2> HIDE DEF result, SupervisorInv
  <2> QED BY <1>1, <1>2, <2>1, <2>2, <2>3, <2>4, ReleaseStable DEF result
<1>4. CASE ~Ends(Head(signals))
  <2>1. /\ at' \in Attempting /\ (at' = at \/ (at = "connected" /\ at' = "probe"))
        /\ UNCHANGED <<session, prepared, outcome, failures>>
    BY <1>1, <1>4 DEF TakeSignal, Attempting
  <2>2. Head(signals) # "DisconnectRequested" /\ Head(signals) # "Offline"
    BY <1>4 DEF Ends
  <2>3. TypeOK'
    BY <1>1, <1>2, <2>1 DEF TypeOK
  <2>4. SignalsInv'
    BY <1>1, <1>2, <2>1, <2>2 DEF SignalsInv, Attempting, Tags
  <2>5. LeaseInv'
    BY <1>1, <2>1 DEF LeaseInv, LeaseEndsWithAttempt, Leased, Attempting
  <2>6. LadderInv' /\ MarkerInv'
    BY <1>1, <2>1 DEF LadderInv, MarkerInv, Attempting
  <2> QED BY <2>3, <2>4, <2>5, <2>6
<1> QED BY <1>3, <1>4

LEMMA ProbeSucceedsStable ==
  ASSUME SupervisorInv, ProbeSucceeds
  PROVE  SupervisorInv'
<1> USE DEF SupervisorInv
<1>1. /\ at = "probe" /\ at' = "connected" /\ resetRetryState' = FALSE
      /\ UNCHANGED <<intent, signals, wakeProbeFailed, state, session, prepared, outcome,
                     failureCount, generation, latestFailure, inputs, lastLease, failures>>
  BY DEF ProbeSucceeds, published, loop
<1>2. TypeOK' /\ LeaseInv'
  BY ZenonT(60), <1>1 DEF TypeOK, LeaseInv, LeaseEndsWithAttempt, Leased, Attempting
<1>3. SignalsInv' /\ LadderInv' /\ MarkerInv'
  BY <1>1 DEF SignalsInv, LadderInv, MarkerInv, Queued, Attempting
<1> QED BY <1>2, <1>3

LEMMA ProbeFailsStable ==
  ASSUME SupervisorInv, ProbeFails
  PROVE  SupervisorInv'
<1> USE DEF SupervisorInv
<1>1. /\ at = "probe" /\ wakeProbeFailed' = TRUE /\ failures' = 0
      /\ UNCHANGED <<intent, signals, resetRetryState, state, failureCount, generation,
                     latestFailure, inputs, lastLease>>
  BY DEF ProbeFails, loop
<1>2. PICK error \in {"transient", "blocked"}, stable \in BOOLEAN :
        Release(Failure(TRUE, stable, error))
  BY DEF ProbeFails
<1> DEFINE result == Failure(TRUE, stable, error)
<1>3. result \in Outcomes /\ result.tag = "Failure" /\ result.established
  BY DEF Failure, Outcomes, Errors
<1>4. /\ at \in Attempting /\ signals' \in Seq(Tags) /\ failures \in Nat
      /\ wakeProbeFailed' \in BOOLEAN
  BY <1>1 DEF TypeOK, Attempting
<1>5. failures' \in Nat /\ failures' <= 0 /\ failures' <= failures
  BY <1>1, <1>4
<1>6. at \in {"connected", "probe"} <=> result.established
  BY <1>1, <1>3
<1>7. Release(result)
  BY <1>2
<1> HIDE DEF result, SupervisorInv
<1>8. failures' <= IF result.established /\ result.stable THEN 0 ELSE failures
  BY <1>5
<1> QED BY <1>1, <1>3, <1>4, <1>5, <1>6, <1>7, <1>8, ReleaseStable

LEMMA SessionClosesStable ==
  ASSUME SupervisorInv, SessionCloses
  PROVE  SupervisorInv'
<1> USE DEF SupervisorInv
<1>1. /\ at \in {"connected", "probe"} /\ ~wakeProbeFailed
      /\ UNCHANGED <<intent, signals, resetRetryState, wakeProbeFailed, state, failureCount,
                     generation, latestFailure, inputs, lastLease>>
  BY DEF SessionCloses, flags, loop, MarkerInv
<1>2. PICK stable \in BOOLEAN :
        /\ Release(Failure(TRUE, stable, "transient"))
        /\ failures' = IF stable THEN 1 ELSE Counted(failures)
  BY DEF SessionCloses
<1> DEFINE result == Failure(TRUE, stable, "transient")
<1>3. /\ result \in Outcomes /\ result.tag = "Failure" /\ result.established
      /\ result.error # "blocked" /\ result.stable = stable
  BY DEF Failure, Outcomes, Errors
<1>4. /\ at \in Attempting /\ signals' \in Seq(Tags) /\ Counted(failures) \in Nat
      /\ wakeProbeFailed' \in BOOLEAN
  BY <1>1, SupervisorAssumption DEF TypeOK, Attempting, Counted
<1>5. failures' = IF result.established /\ result.stable THEN 1 ELSE Counted(failures)
  BY <1>2, <1>3
<1> HIDE DEF result
<1>6. failures' \in Nat
      /\ failures' <= IF result.established /\ result.stable THEN 1 ELSE Counted(failures)
  <2>1. CASE result.established /\ result.stable
    BY <1>5, <2>1
  <2>2. CASE ~(result.established /\ result.stable)
    BY <1>4, <1>5, <2>2
  <2> QED BY <2>1, <2>2
<1> HIDE DEF result, SupervisorInv
<1> QED BY <1>1, <1>2, <1>3, <1>4, <1>6, ReleaseStable DEF result

LEMMA AttemptEndsStable ==
  ASSUME SupervisorInv, AttemptEnds
  PROVE  SupervisorInv'
<1> USE DEF SupervisorInv
<1>1. /\ at = "release" /\ wakeProbeFailed' = FALSE /\ generation' = GenerationAfter
      /\ outcome' = NoOutcome /\ session' = session /\ prepared' = prepared
      /\ UNCHANGED <<intent, signals, resetRetryState, inputs, lastLease, failures>>
  BY DEF AttemptEnds, ConsumeMarker
<1>2. /\ outcome' \in Outcomes /\ outcome \in Outcomes
      /\ outcome.tag \in {"Interrupted", "Failure"}
  BY <1>1 DEF NoOutcome, Outcomes, Errors, TypeOK, LadderInv
<1>3. generation' \in Nat /\ session = 0 /\ ~prepared
      /\ lastLease <= generation'
  BY <1>1 DEF GenerationAfter, TypeOK, LeaseInv, LeaseEndsWithAttempt, Leased, Attempting
<1>4. CountAfter \in 0..MaxRung /\ Counted(CountAfter) \in 0..MaxRung /\ 0 \in 0..MaxRung
  BY SupervisorAssumption DEF CountAfter, Counted, TypeOK
<1>5. /\ at' \in {"loop", "blocked", "backoff"}
      /\ failureCount' \in {0, CountAfter, Counted(CountAfter)}
      /\ latestFailure' \in {"none", latestFailure, outcome.error}
      /\ state' \in {state, Connecting(1, outcome.error), Failed("blocked", outcome.error),
                     Failed("backoff", outcome.error)}
  BY <1>2 DEF AttemptEnds
<1>6. state' \in [phase : Phases, desired : BOOLEAN, online : BOOLEAN, attempt : 0..(MaxRung + 1),
                 failure : Errors]
  <2>1. outcome.error \in Errors /\ state.attempt \in 0..(MaxRung + 1) /\ 1 \in 0..(MaxRung + 1)
    BY <1>2, SupervisorAssumption DEF Outcomes, TypeOK
  <2>2. CASE state' = state
    BY <2>2 DEF TypeOK
  <2>3. CASE state' = Connecting(1, outcome.error)
    BY <2>1, <2>3 DEF TypeOK, Connecting, State, Phases
  <2>4. CASE state' = Failed("blocked", outcome.error) \/ state' = Failed("backoff", outcome.error)
    BY <2>1, <2>4 DEF TypeOK, Failed, State, Phases
  <2> QED BY <1>5, <2>2, <2>3, <2>4
<1>7. TypeOK'
  <2>1. failureCount' \in 0..MaxRung /\ latestFailure' \in Errors
    BY <1>2, <1>4, <1>5 DEF Errors, Outcomes, TypeOK
  <2>2. at' \in Attempting \cup {"loop", "idle", "blocked", "backoff", "release"}
    BY <1>5
  <2> QED BY <1>1, <1>2, <1>3, <1>6, <2>1, <2>2 DEF TypeOK, Outcomes
<1>8. SignalsInv'
  <2>1. at' = "blocked" => state' = Failed("blocked", outcome.error)
    BY <1>2 DEF AttemptEnds
  <2>2. at' = "backoff" => state' = Failed("backoff", outcome.error)
    BY <1>2 DEF AttemptEnds
  <2> QED BY <1>1, <1>5, <2>1, <2>2 DEF SignalsInv, Failed, State, Attempting
<1>9. LeaseInv'
  BY <1>1, <1>3, <1>5 DEF LeaseInv, LeaseEndsWithAttempt, Leased, Attempting
<1>10. failureCount' >= failures
  <2>1. CASE outcome.tag = "Interrupted"
    BY <1>1, <2>1 DEF AttemptEnds, LadderInv
  <2>2. CASE outcome.tag = "Failure" /\ outcome.error = "blocked"
    BY <1>1, <2>2 DEF AttemptEnds, LadderInv
  <2>3. CASE outcome.tag = "Failure" /\ outcome.error # "blocked" /\ wakeProbeFailed
    BY <1>1, <2>3 DEF AttemptEnds, LadderInv
  <2>4. CASE outcome.tag = "Failure" /\ outcome.error # "blocked" /\ ~wakeProbeFailed
    BY <1>1, <2>4 DEF AttemptEnds, LadderInv
  <2> QED BY <1>2, <2>1, <2>2, <2>3, <2>4
<1>11. LadderInv' /\ MarkerInv'
  BY <1>1, <1>5, <1>10 DEF LadderInv, MarkerInv
<1> QED BY <1>7, <1>8, <1>9, <1>11

LEMMA InvStable == SupervisorInv /\ [Next]_vars => SupervisorInv'
<1> SUFFICES ASSUME SupervisorInv, [Next]_vars PROVE SupervisorInv'
  OBVIOUS
<1>1. CASE UNCHANGED vars
  BY <1>1 DEF vars, flags, published, loop, SupervisorInv, TypeOK, SignalsInv, LeaseInv,
              LeaseEndsWithAttempt, LadderInv, MarkerInv, Leased, CountAfter, EndsSeries, Queued
<1> QED BY <1>1, InputStable, LoopTopStable, WaitStable, EstablishFailsStable, TakeSignalStable,
           ProbeFailsStable, AttemptEndsStable, PrepareStable, EstablishedStable,
           ProbeSucceedsStable, SessionClosesStable
        DEF Next, FiberStep

LEMMA InvCorrect == Spec => []SupervisorInv
BY InitInv, InvStable, PTL DEF Spec

-----------------------------------------------------------------------------
(* Every variable always holds values of its type.                         *)
THEOREM TypeCorrect == Spec => []TypeOK
<1>1. SupervisorInv => TypeOK
  BY DEF SupervisorInv
<1> QED BY <1>1, InvCorrect, PTL

(* Once every signal is taken the fiber does, and shows, what the intent   *)
(* asks for: no signal is dropped in a place where it mattered.            *)
THEOREM IntentCorrect == Spec => []QuietMatchesIntent
<1>1. SupervisorInv => QuietMatchesIntent
  <2> SUFFICES ASSUME SupervisorInv, signals = <<>> PROVE QuietMatchesIntent
    BY DEF QuietMatchesIntent
  <2>1. Len(signals) = 0
    BY EmptySeq
  <2>2. \A tag \in Tags : ~Queued(tag)
    BY <2>1 DEF Queued
  <2> QED BY <2>2 DEF SupervisorInv, SignalsInv, QuietMatchesIntent, Tags
<1> QED BY <1>1, InvCorrect, PTL

(* A session is published only with its lease, under its own generation.   *)
THEOREM LeaseCorrect == Spec => []LeaseEndsWithAttempt
<1>1. SupervisorInv => LeaseEndsWithAttempt
  BY DEF SupervisorInv, LeaseInv
<1> QED BY <1>1, InvCorrect, PTL

(* The delays are never shorter than the failures in a row ask for.        *)
THEOREM LadderCorrect == Spec => []LadderHolds
<1>1. SupervisorInv => LadderHolds
  BY DEF SupervisorInv, LadderInv, LadderHolds
<1> QED BY <1>1, InvCorrect, PTL

(* No two leases are published under one generation.                       *)
THEOREM GenerationsCorrect == Spec => GenerationsAreFresh
<1> DEFINE Fresh == session' # session /\ session' # 0 => session' > lastLease
<1>1. SupervisorInv /\ Next => Fresh
  <2> SUFFICES ASSUME SupervisorInv, Next, session' # session, session' # 0
               PROVE  session' > lastLease
    OBVIOUS
  <2>1. Established
    BY DEF Next, Input, Connect, Disconnect, RetryNow, NetworkChanges, Wakeup, Signal, FiberStep,
           LoopTop, WaitEnds, EstablishFails, TakeSignal, ProbeFails, AttemptEnds, Prepare,
           ProbeSucceeds, SessionCloses, Release, published
  <2>2. at = "establish" /\ session' = generation + 1
    BY <2>1 DEF Established, Release
  <2>3. lastLease <= generation /\ generation \in Nat /\ lastLease \in Nat
    BY <2>2 DEF SupervisorInv, LeaseInv, Leased, TypeOK
  <2> QED BY <2>2, <2>3
<1>2. SupervisorInv /\ [Next]_vars => [Fresh]_vars
  BY <1>1
<1> QED BY <1>2, InvCorrect, PTL DEF Spec, GenerationsAreFresh
=============================================================================
