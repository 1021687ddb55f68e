-------------------------- MODULE ConnectionSupervisor --------------------------
(***************************************************************************)
(* EnvironmentSupervisor of packages/client-runtime/src/connection/        *)
(* supervisor.ts: the one owner of retries of an environment.  Callers and *)
(* the platform change the intent and put a signal into a queue; one fiber *)
(* runs attempts, holds the lease of a connected session, and waits.       *)
(*                                                                         *)
(* The fiber rereads the intent only at the top of its loop, and everywhere*)
(* else it relies on the signals, of which it may find old ones.  What it  *)
(* does between two waits is one step: nothing in it suspends.             *)
(***************************************************************************)
EXTENDS Naturals, Sequences

CONSTANTS
    MaxInputs,    \* bound: calls, network changes and wakeups
    MaxLeases,    \* bound: leases published
    MaxRung       \* failures are counted to here, the end of RETRY_DELAYS_MS

ASSUME SupervisorAssumption ==
    /\ MaxInputs \in Nat
    /\ MaxLeases \in Nat
    /\ MaxRung \in Nat \ {0}

VARIABLES
    intent,           \* [desired, online]; "unknown" networks count as online
    signals,
    resetRetryState,
    wakeProbeFailed,
    state,            \* what is published
    session,          \* generation of the published lease, 0 for Option.none
    prepared,
    at,               \* where the fiber waits
    outcome,          \* of the attempt that is being released
    failureCount,
    generation,
    latestFailure,
    inputs,           \* inputs so far
    lastLease,        \* history: generation of the last lease published
    failures          \* history: failures in a row, see LadderHolds

published == <<state, session, prepared>>
loop == <<failureCount, generation, latestFailure>>
flags == <<resetRetryState, wakeProbeFailed>>
vars == <<intent, signals, flags, published, at, outcome, loop, inputs, lastLease, failures>>

State(phase, desired, online, attempt, failure) ==
    [phase |-> phase, desired |-> desired, online |-> online, attempt |-> attempt,
     failure |-> failure]

Available == State("available", FALSE, intent.online, 0, "none")
Offline(attempt, failure) == State("offline", TRUE, intent.online, attempt, failure)
Connecting(attempt, failure) == State("connecting", TRUE, intent.online, attempt, failure)
Failed(phase, failure) == State(phase, intent.desired, intent.online, state.attempt, failure)

NoOutcome == [tag |-> "none", established |-> FALSE, stable |-> FALSE, error |-> "none"]
Interrupted(established, stable) ==
    [tag |-> "Interrupted", established |-> established, stable |-> stable, error |-> "none"]
Failure(established, stable, error) ==
    [tag |-> "Failure", established |-> established, stable |-> stable, error |-> error]

Counted(n) == IF n < MaxRung THEN n + 1 ELSE n
Attempting == {"prepare", "establish", "connected", "probe"}

Init ==
    /\ intent \in [desired : BOOLEAN, online : BOOLEAN]
    /\ signals = <<>>
    /\ resetRetryState = FALSE
    /\ wakeProbeFailed = FALSE
    /\ state = IF ~intent.desired THEN Available
               ELSE IF intent.online THEN Connecting(1, "none") ELSE Offline(0, "none")
    /\ session = 0
    /\ prepared = FALSE
    /\ at = "loop"
    /\ outcome = NoOutcome
    /\ failureCount = 0
    /\ generation = 0
    /\ latestFailure = "none"
    /\ inputs = 0
    /\ lastLease = 0
    /\ failures = 0

-----------------------------------------------------------------------------
(* Inputs.  Each changes what the loop will read, then queues its signal.  *)

Signal(tag) ==
    /\ inputs < MaxInputs
    /\ inputs' = inputs + 1
    /\ signals' = Append(signals, tag)
    /\ UNCHANGED <<wakeProbeFailed, published, at, outcome, loop, lastLease, failures>>

Connect ==
    /\ intent' = [intent EXCEPT !.desired = TRUE]
    /\ Signal("ConnectRequested")
    /\ UNCHANGED resetRetryState

Disconnect ==
    /\ intent' = [intent EXCEPT !.desired = FALSE]
    /\ Signal("DisconnectRequested")
    /\ UNCHANGED resetRetryState

RetryNow ==
    /\ resetRetryState' = TRUE
    /\ Signal("RetryRequested")
    /\ UNCHANGED intent

(* Only a change of the status is signalled.                               *)
NetworkChanges_LossOnly ==       \* mutant: the return of the network is not signalled
    /\ intent' = [intent EXCEPT !.online = ~@]
    /\ IF intent.online
       THEN Signal("Offline")
       ELSE /\ inputs < MaxInputs
            /\ inputs' = inputs + 1
            /\ UNCHANGED <<signals, wakeProbeFailed, published, at, outcome, loop, lastLease,
                           failures>>
    /\ UNCHANGED resetRetryState

NetworkChanges ==
    /\ intent' = [intent EXCEPT !.online = ~@]
    /\ Signal(IF intent.online THEN "Offline" ELSE "Online")
    /\ UNCHANGED resetRetryState

Wakeup(reason) ==
    /\ resetRetryState' = TRUE
    /\ Signal(reason)
    /\ UNCHANGED intent

-----------------------------------------------------------------------------
(* The fiber.                                                              *)

Count == IF resetRetryState THEN 0 ELSE failureCount
Latest == IF resetRetryState THEN "none" ELSE latestFailure

LoopTop ==
    /\ at = "loop"
    /\ resetRetryState' = FALSE
    /\ session' = IF intent.desired /\ intent.online THEN session ELSE 0
    /\ prepared' = FALSE
    /\ IF ~intent.desired
       THEN /\ failureCount' = 0
            /\ latestFailure' = "none"
            /\ state' = Available
            /\ at' = "idle"
       ELSE /\ failureCount' = Count
            /\ latestFailure' = Latest
            /\ state' = IF intent.online THEN Connecting(Count + 1, Latest)
                                         ELSE Offline(Count + 1, Latest)
            /\ at' = IF intent.online THEN "prepare" ELSE "idle"
    /\ failures' = IF resetRetryState \/ ~intent.desired THEN 0 ELSE failures
    /\ UNCHANGED <<intent, signals, wakeProbeFailed, outcome, generation, inputs, lastLease>>

(* waitForSignal and waitForRetrySignal: any signal ends the wait.         *)
WaitEnds ==
    /\ at \in {"idle", "blocked", "backoff"}
    /\ \/ /\ signals # <<>>
          /\ signals' = Tail(signals)
       \/ /\ at = "backoff"             \* the delay has passed
          /\ UNCHANGED signals
    /\ at' = "loop"
    /\ UNCHANGED <<intent, flags, published, outcome, loop, inputs, lastLease, failures>>

(* The end of runAttempt: ensuring(clearLease), then its scope is closed.  *)
Release_KeepsLease(result) ==           \* mutant: the lease is cleared at the top of the loop only
    /\ outcome' = result
    /\ at' = "release"
    /\ UNCHANGED <<session, prepared>>
Release(result) ==
    /\ outcome' = result
    /\ at' = "release"
    /\ session' = 0
    /\ prepared' = FALSE

(* The broker has prepared the connection; credentials have been read.     *)
Prepare ==
    /\ at = "prepare"
    /\ at' = "establish"
    /\ prepared' = TRUE
    /\ state' = Connecting(state.attempt, state.failure)
    /\ UNCHANGED <<intent, signals, flags, session, outcome, loop, inputs, lastLease, failures>>

(* The driver fails, dies or takes longer than 15 seconds.                 *)
EstablishFails ==
    /\ at \in {"prepare", "establish"}
    /\ \/ Release(Failure(FALSE, FALSE, "transient")) /\ failures' = Counted(failures)
       \/ Release(Failure(FALSE, FALSE, "blocked")) /\ UNCHANGED failures
    /\ UNCHANGED <<intent, signals, flags, state, loop, inputs, lastLease>>

Established ==
    /\ at = "establish"
    /\ IF intent.desired /\ intent.online
       THEN /\ generation < MaxLeases
            /\ prepared' = TRUE
            /\ session' = generation + 1
            /\ lastLease' = generation + 1
            /\ state' = State("connected", TRUE, intent.online, state.attempt, "none")
            /\ at' = "connected"
            /\ UNCHANGED outcome
       ELSE /\ Release(Interrupted(FALSE, FALSE))
            /\ UNCHANGED <<state, lastLease>>
    /\ UNCHANGED <<intent, signals, flags, loop, inputs, failures>>

(* Signals that end an attempt or a lease; the others are dropped.         *)
Ends_NotOffline(tag) ==                 \* mutant: the loss of the network is dropped
    tag \in {"DisconnectRequested", "RetryRequested"}
Ends_NotDisconnect(tag) ==              \* mutant: a disconnect is dropped
    tag \in {"RetryRequested", "Offline"}
Ends(tag) == tag \in {"DisconnectRequested", "RetryRequested", "Offline"}

TakeSignal ==
    /\ at \in Attempting
    /\ signals # <<>>
    /\ signals' = Tail(signals)
    /\ IF Ends(Head(signals))
       THEN \E stable \in {FALSE} \cup {at \in {"connected", "probe"}} :
                /\ Release(Interrupted(at \in {"connected", "probe"}, stable))
                /\ failures' = IF stable THEN 0 ELSE failures
       ELSE /\ at' = IF at = "connected" /\ Head(signals) = "application-active" THEN "probe" ELSE at
            /\ UNCHANGED <<session, prepared, outcome, failures>>
    /\ UNCHANGED <<intent, flags, state, loop, inputs, lastLease>>

ProbeSucceeds ==
    /\ at = "probe"
    /\ resetRetryState' = FALSE
    /\ at' = "connected"
    /\ UNCHANGED <<intent, signals, wakeProbeFailed, published, outcome, loop, inputs, lastLease,
                   failures>>

(* A probe fails or times out.                                             *)
ProbeFails ==
    /\ at = "probe"
    /\ wakeProbeFailed' = TRUE
    /\ \E error \in {"transient", "blocked"}, stable \in BOOLEAN :
            Release(Failure(TRUE, stable, error))
    /\ failures' = 0
    /\ UNCHANGED <<intent, signals, resetRetryState, state, loop, inputs, lastLease>>

SessionCloses ==
    /\ at \in {"connected", "probe"}
    /\ \E stable \in BOOLEAN :
            /\ Release(Failure(TRUE, stable, "transient"))
            /\ failures' = IF stable THEN 1 ELSE Counted(failures)
    /\ UNCHANGED <<intent, signals, flags, state, loop, inputs, lastLease>>

(* Only a lease that was held for 30 seconds ends a series of failures.    *)
EndsSeries == outcome.established /\ outcome.stable
CountAfter == IF EndsSeries THEN 0 ELSE failureCount

GenerationAfter_Stable == IF outcome.stable THEN generation + 1 ELSE generation  \* mutant
GenerationAfter == IF outcome.established THEN generation + 1 ELSE generation

(* wakeProbeFailed is consumed on every iteration.                         *)
ConsumeMarker_OnUse ==                  \* mutant: only where it makes a difference
    wakeProbeFailed' = (wakeProbeFailed /\ outcome.error = "blocked")
ConsumeMarker == wakeProbeFailed' = FALSE

AttemptEnds ==
    /\ at = "release"
    /\ ConsumeMarker
    /\ generation' = GenerationAfter
    /\ outcome' = NoOutcome
    /\ IF outcome.tag = "Interrupted"
       THEN /\ failureCount' = CountAfter
            /\ latestFailure' = IF EndsSeries THEN "none" ELSE latestFailure
            /\ at' = "loop"
            /\ UNCHANGED state
       ELSE /\ latestFailure' = outcome.error
            /\ \/ /\ outcome.error = "blocked"
                  /\ failureCount' = CountAfter
                  /\ state' = Failed("blocked", outcome.error)
                  /\ at' = "blocked"
               \/ /\ outcome.error # "blocked"
                  /\ wakeProbeFailed
                  /\ failureCount' = 0
                  /\ state' = Connecting(1, outcome.error)
                  /\ at' = "loop"
               \/ /\ outcome.error # "blocked"
                  /\ ~wakeProbeFailed
                  /\ failureCount' = Counted(CountAfter)
                  /\ state' = Failed("backoff", outcome.error)
                  /\ at' = "backoff"
    /\ UNCHANGED <<intent, signals, resetRetryState, session, prepared, inputs, lastLease, failures>>

Input ==
    \/ Connect \/ Disconnect \/ RetryNow \/ NetworkChanges
    \/ \E reason \in {"application-active", "credentials-changed"} : Wakeup(reason)

(* What always happens in time: signals are taken, attempts and probes run *)
(* out of time, delays pass, scopes close.                                 *)
FiberStep ==
    \/ LoopTop \/ WaitEnds \/ EstablishFails \/ TakeSignal \/ ProbeFails \/ AttemptEnds

Next == Input \/ FiberStep \/ Prepare \/ Established \/ ProbeSucceeds \/ SessionCloses

Spec == Init /\ [][Next]_vars
FairSpec == Spec /\ WF_vars(FiberStep)

-----------------------------------------------------------------------------
(* Properties.                                                             *)

Errors == {"none", "transient", "blocked"}
Tags == {"ConnectRequested", "DisconnectRequested", "RetryRequested", "Offline", "Online",
         "application-active", "credentials-changed"}
Phases == {"available", "offline", "connecting", "connected", "backoff", "blocked"}

(* Every variable holds values of its type, and failures are counted no    *)
(* further than the delays go.                                             *)
TypeOK ==
    /\ intent \in [desired : BOOLEAN, online : BOOLEAN]
    /\ signals \in Seq(Tags)
    /\ resetRetryState \in BOOLEAN
    /\ wakeProbeFailed \in BOOLEAN
    /\ state \in [phase : Phases, desired : BOOLEAN, online : BOOLEAN, attempt : 0..(MaxRung + 1),
                   failure : Errors]
    /\ session \in Nat
    /\ prepared \in BOOLEAN
    /\ at \in Attempting \cup {"loop", "idle", "blocked", "backoff", "release"}
    /\ outcome \in [tag : {"none", "Interrupted", "Failure"}, established : BOOLEAN,
                     stable : BOOLEAN, error : Errors]
    /\ failureCount \in 0..MaxRung
    /\ generation \in Nat
    /\ latestFailure \in Errors
    /\ inputs \in Nat
    /\ lastLease \in Nat
    /\ failures \in Nat

(* When the fiber has taken every signal, what it does is what the intent  *)
(* asks for: it idles only when nothing is desired or the network is away, *)
(* never attempts or holds a lease against the intent, and what it shows   *)
(* while it waits is the current intent.  (The loop reads the intent only  *)
(* at its top; a signal dropped in the wrong place breaks this.)           *)
QuietMatchesIntent ==
    signals = <<>> =>
        /\ at = "idle" => /\ state.phase = IF intent.desired THEN "offline" ELSE "available"
                          /\ intent.desired => ~intent.online
        /\ at \in Attempting => intent.desired /\ intent.online
        /\ at \in {"blocked", "backoff"} =>
                state.desired = intent.desired /\ state.online = intent.online

(* The session that subscriptions use is published only while its lease is *)
(* held, under the generation that is shown with it; after an attempt      *)
(* neither session nor credentials stay.                                   *)
LeaseEndsWithAttempt ==
    /\ session # 0 => /\ at \in {"connected", "probe"} /\ prepared
                      /\ state.phase = "connected" /\ session = generation + 1
    /\ prepared => at \in Attempting

(* Backoff is never shorter than the transient failures in a row ask for:  *)
(* a session that opens and is lost again, an old probe marker or a        *)
(* blocked attempt does not start the delays anew.  A series ends with a   *)
(* lease of 30 seconds, a failed wake probe, a retry or wakeup, or a       *)
(* disconnect.                                                             *)
LadderHolds == at = "backoff" => failureCount >= failures

(* Generations tell leases apart: what caches by generation (vcs.ts) never *)
(* takes a new session for an old one.                                     *)
GenerationsAreFresh ==
    [][ session' # session /\ session' # 0 => session' > lastLease ]_vars

(* "honors an explicit disconnect": whatever the fiber is doing and        *)
(* whatever other signals there are, the environment becomes available and *)
(* its session is gone.                                                    *)
DisconnectHonoured ==
    ~intent.desired ~> (intent.desired \/ (state.phase = "available" /\ session = 0))

(* A desired environment with network does not stay available or offline.  *)
WantedIsTried ==
    intent.desired /\ intent.online ~>
        ~intent.desired \/ ~intent.online \/ state.phase \notin {"available", "offline"}
=============================================================================
