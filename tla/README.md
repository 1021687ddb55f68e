# Mognet: TLA+ models, model checks and proofs

Mognet wraps coding agents (Codex, Claude, Cursor, OpenCode, ...) behind one Node.js server that speaks WebSocket RPC.
All changes to projects and threads go through an event-sourced command engine in SQLite; web, desktop and mobile clients share one TypeScript runtime that follows the server's events.
This directory models the parts of it where ordering, failure and restart decide correctness, checks them with TLC and proves the most important properties with TLAPS.

`PROJECT.json` holds the machine-readable side: components, runs, mutants, the map from definitions to source lines, findings, hazards and theorems. This file explains it.

- [Inventory](#inventory): the system's parts, their state, their operations, what is hard, what makes them correct
- [Models](#models): which module models what, and how
- [Runs](#runs): what is checked, bounds, fairness
- [Proofs](#proofs): what is proved, from what, and how
- [Findings](#findings): where code and comments disagree
- [Limits](#limits): only model-checked, simplified or not modelled
- [Plan](#plan): what comes next

To use it: `tlc -workers 2 -config MCX.cfg MCX.tla` for a run, `tlapm XProofs.tla` for proofs.

## Inventory

Paths are relative to the repository. `server` is `apps/server/src`, `runtime` is `packages/client-runtime/src`, `shared` is `packages/shared/src`.

### The command path

| component | state | operations | hard part | correct when |
|---|---|---|---|---|
| Orchestration engine (`server/orchestration/Layers/OrchestrationEngine.ts`, event store, receipts) | event log and receipts in SQLite; command queue; in-memory read model; PubSub | `dispatch`, the worker's `processEnvelope`, `readEvents`, `latestSequence`, `streamDomainEvents`, boot | one worker but callers, subscribers and crashes at any time; a statement or the COMMIT may fail; commands are repeated | at most once and entirely, decided on the committed state, answered truthfully and always, published in order with nothing left out |
| Decider and invariants (`server/orchestration/decider.ts`, `commandInvariants.ts`) | none: a function of command and read model | one case per command | many cases, guards on derived facts (blocking requests, queued turns, settled, snoozed) | every accepted command leaves projects and threads legal |
| Projector and projection pipeline (`projector.ts`, `ProjectionPipeline.ts`) | read model in memory; projection tables and per-projector cursors in SQLite | fold an event, twice, in two places; bootstrap per projector after a restart | two implementations of one fold; file side effects in a transaction; replay order differs from live order | both folds agree; replay gives what live projection gave |
| Snapshot queries (`ProjectionSnapshotQuery.ts`) | none | reads of a thread, the shell, the command read model | several reads must belong to one state | a snapshot is one state of the projections, with its sequence |
| Bootstrap and deletion cleanup (`ThreadTurnBootstrapDispatcher.ts`, `ThreadDeletionReactor.ts`, `ws.ts`) | watermark of seen events; cleanup queue | create, prepare, start the first turn, undo on failure; clean up after a deletion; `drainThrough` | cleanup goes by thread id and runs late, the id may be in use again | cleanup never touches what a later creator started behind its fence |
| Provider command reactor, runtime ingestion, checkpoints (`ProviderCommandReactor.ts`, `ProviderRuntimeIngestion.ts`, `CheckpointReactor.ts`) | per-thread buffers, session cache | react to intent events; turn provider events into commands; capture and restore git state | asynchronous reactions to a log that has moved on | a session follows its thread; every turn ends; a checkpoint belongs to its turn |
| Offline project commands (`server/cli/project.ts`) | none of its own | add, remove, rename: over the server when it answers, else with an engine of its own | "does not answer" is not "is not running" | two engines on one database do no harm |
| Startup (`serverRuntimeStartup.ts`) | readiness | run migrations and reactors, then open the command gate; reconcile sessions | commands arrive during startup | commands wait or fail, none runs half-started |

### The reading path

| component | state | operations | hard part | correct when |
|---|---|---|---|---|
| Thread subscription (`ws.ts` `subscribeThread`; `runtime/state/threads.ts`) | live buffer; content, cursor, cached copy | attach, replay or snapshot, marker, live; resume after a lost session; persist; older pages | four sources of one history (cache, snapshot, replay, live) must join without gap or repetition | what is shown is the thread up to the cursor; "live" means caught up |
| Shell subscription (`ws.ts` `subscribeShell`; `runtime/state/shell.ts`, `shellReducer.ts`) | coalescing window; rows, cursor | as above, but sends rows refetched per touched aggregate | rows are newer than the event they are sent for; refetches fail; snapshots run ahead | a stale row always has an event to come |
| Connection supervisor (`runtime/connection/supervisor.ts`) | intent, signal queue, session, failure count | connect, disconnect, retry, network changes, wakeups; attempt, probe, back off | intent is read only at the top of the loop; signals queue up and are dropped in places | ends up doing what was asked; one lease; delays that do not collapse |
| Registry, resolver, catalog (`runtime/connection/`) | environments, credentials | add, remove, resolve | replacement of a running supervisor | one supervisor per environment |

### Workers and services

| component | state | operations | hard part | correct when |
|---|---|---|---|---|
| Drainable worker (`shared/DrainableWorker.ts`) | transactional queue and count | enqueue, fiber, drain | failure or interruption of an item | drained means idle |
| Keyed coalescing worker (`shared/KeyedCoalescingWorker.ts`) | latest value per key, queued and active keys | enqueue, fiber, cleanup of a failure, drainKey | enqueues between any two transactions of the fiber | no value stranded, none twice, drained means done |
| Terminals (`server/terminal/Manager.ts`; `runtime/state/terminalSession.ts`) | sessions, processes, history files, subprocess polls; the text a client shows | open, attach, write, resize, clear, restart, close; output, exit, eviction | processes know no lock; history is written through the keyed worker while sessions come and go; snapshot, buffer and live events must join; calls are interrupted | what clients show and what is on disk is the history of the session; every process can be stopped; every call returns |
| Provider sessions and adapters (`server/provider/`) | sessions, bindings | start, send, interrupt, stop; protocol translation | external processes that die | a binding names a live session |
| Authentication (`server/auth/`) | pairing grants, sessions | issue, consume, refresh, revoke | single use under concurrency | a grant is used once |
| Background policy, scheduled tasks, VCS status | timers and leases | periodic work | timers racing with changes | work is neither lost nor doubled |
| Desktop backend and updates (`apps/desktop`) | child processes, update state machine | start, restart, update | process exits at any time | one backend per environment |
| SSH tunnels, resource monitor, web interface | processes, counters, rendering | - | - | not state machines of interest here |

Interactions: a client calls `dispatchCommand` over RPC; `ws.ts` normalises it and calls the engine's `dispatch`, or the bootstrap dispatcher, which calls it several times.
The engine writes log, projections and receipt in one transaction and publishes each event on a PubSub.
Reactors and subscription handlers read that PubSub; reactors dispatch further commands.
Subscription handlers send events or rows over the socket; the client runtime applies them and resumes through the supervisor's sessions.

The hazards each of these has are in `PROJECT.json`, at the line where they bite, with the properties that would catch them.

## Models

Each model module is parameterised by CONSTANTS and states its assumptions. MC modules only give values. Definitions marked `mutant` in a comment are deliberately wrong variants: they show that a property depends on the code it is about, and nothing uses them.

### OrchestrationEngine

The whole of `OrchestrationEngine.ts` with event store and receipts. `log` and `receipts` are the committed tables, `txn` the open transaction, `readModel` the events that `commandReadModel` reflects and `loaded` how many of them it has from the projection rows, `queue` the command queue, `calls` the callers with their Deferreds, `worker` the worker fiber, `outbox` the events still to be published, `feeds` what each subscriber received.

- `Dispatch` offers an envelope. `TakeCommand` looks up the receipt, `AnswerFromReceipt` answers a repeated command, `DecideCommand` decides, `AppendEvent` inserts one event and runs its projectors, `CommitTransaction` writes the receipt and commits.
- `StorageFails` stands for any statement, projector or COMMIT that fails: the transaction is rolled back. `Reconcile` then reads rows after the model's sequence (`ReplayLimit` of them, the default page), folds and publishes them. `ReconcileFails` is the swallowed failure of that read.
- `RecordRejection` writes the rejected receipt of a command refused by an invariant, `RejectionNotRecorded` is its failure. `EventIdFails` is the failure to make an event id.
- `AdvanceReadModel`, `PublishEvent` and `AnswerAccepted` are what follows the COMMIT, in that order. `Crash` may come between any two steps. `Boot` brings the projections up to the log and loads the read model from their rows, as `getCommandReadModel` does: `loaded` is then the length of the log, and `boots`, a history variable, remembers it.

A read model is represented by the events it reflects, in two parts (`ReadModelOf`): those it has from rows, whose threads come without messages, activities and checkpoints, and those folded since the process started. That loses nothing, as projector and projections are folds. The decider is a parameter and is given both parts, so it may decide differently on the same log after a restart: the instance has a command that is refused while an activity is in memory and accepted once a restart has dropped it. The theorems hold for every decider. What the rows of a thread do bring back is `ThreadAggregate`'s `Rebuilt`.

### EventFeed and how the others use it

`EventFeed` is the abstract promise to readers: a batch is committed, the head moves, its events are published one by one, only then the next batch is committed; a stop may cut publication short.
`OrchestrationEngine` implements it (`Feed == INSTANCE EventFeed WITH committed <- Len(log), ...`), which a run checks and a theorem proves. `ThreadSubscription`, `ShellSubscription` and `ThreadIncarnations` take their events from it: their `Commit`, `AdvanceHead`, `Publish` and restart are its actions. So they are checked against everything the engine can do, without its internals.

### SharedDatabase

`OrchestrationEngine` plus `OfflineCommit`, the fallback of `project add|remove|rename`: a second engine boots on the database, decides one command and commits. It happens while the server is alive but slow.

### ThreadSubscription

One thread, one client. The client asks with `Subscribe`, after `LoadHttpSnapshot` or `MissHttpSnapshot` when it has no data. The server side is `Attach` (the fiber that pipes the PubSub into the live buffer), `ReadHead`, `Replay` or `SendSnapshot`, `SendBuffered`; the client side `Receive`, `ApplyPending` (an item is applied in two steps: the cursor first, then the content), `Persist`. Breaks are `LoseSession`, `RestartServer`, `Close` (the view closes and stores its copy) and `Kill` (nothing is stored).
Content is the sequence of detail events folded into it; `DetailsBetween(m, n)` lists those after `m` up to `n`. 
A stream that ends does not take back what it has delivered: `subscribeDynamic` is a `Stream.switchMap`, which interrupts the old inner stream but not its own output queue. `KeepQueued` leaves any prefix of `wire` in `old`, and `Receive` applies `old` before anything of the next stream: events, which the cursor check guards; snapshots, which are taken whatever their sequence; and markers, which name no subscription. `told` (history) is what the last marker applied stands for, and `LiveIsCaughtUp` is about that, since a marker of an ended stream does make the new subscription live before its replay is in: see the findings.

`slips` is a history variable: which of the three lossy interleavings has happened, the late attach and the torn copy of the findings, and "old snapshot": a snapshot of an ended stream applied after a newer one came over HTTP. Every other way to lose an event is a violation.

### ShellSubscription

The sidebar of one client. A row is the sequence of the last event folded into it. `ReplayWindow`, `Synchronize` and `LiveWindow` coalesce events as `coalesceShellEvents` does; `SendItem` reads the current row, which may be newer than its event; `RefetchFails` is the refetch that failed twice and drops its item (`stranded` remembers the aggregate). `Subscribe`, `ChooseStart` and `LoadHttpSnapshot` or `MissHttpSnapshot` are the client's request, `TakeSnapshot`, `TakeRow` and `TakeMarker` its `applyItem` with the reducer's cursor check.
Breaks are `FailStream`, `Resubscribe`, `LoseSession` and `RestartServer`. As for threads, items of ended streams stay queued in `old` and are applied first. One of them may be a snapshot that moves rows and cursor back while the running stream resumes after a newer one that came over HTTP: the aggregates of the events in between join `stranded` until the next snapshot over HTTP. `told` is what the last marker applied stands for, of whichever stream.

### DrainableWorker and ThreadIncarnations

`DrainableWorker` is the transactional queue, its fiber, the count and `drain`; `ThreadIncarnations` instantiates it as the cleanup worker of `ThreadDeletionReactor.ts`.
One thread id is created, deleted and created again by several clients. `Create`, `CreateAnswered`, `FenceSeen` and `FenceDrained` are the creator's path through `drainThrough`; a bootstrap also starts a turn or fails and deletes the thread (`BootstrapFails`). Visitors start turns and open terminals and wait for nothing. `HandEvent` and `NoteSeen` are the reactor's subscriber, `TakeDeletion`, `StopSession`, `CloseTerminals`, `CleanupDone` and `CleanupInterrupted` its worker, `ResolveTurn` and `StartSession` the provider reactor's asynchronous start.

### ThreadAggregate

One thread as the engine keeps it: the decider's guards, the command read model (`model`) that `projector.ts` folds in memory, and the rows (`rows`) that `ProjectionPipeline.ts` writes for the user interface.
The engine applies all events of a command to both before it takes the next (`OrchestrationEngine`), so a command is one action: `Settle`, `Snooze`, `Archive` and their opposites, `StartTurn`, `InterruptTurn`, `Respond`, `SetSession`, the activities `AppendRequested`, `AppendResolved` and `AppendStaleFailure` of an approval request.
The two folds differ: only the rows record an interrupt or close a request when the user answers it, only the decider knows whether a message waits for its turn (`queued`, which `GraceExpires` ends). A turn ends in three ways, by rules that differ between the two: a session that goes (`SetSession`), a complete message of the agent (`MessageSent`, which only the rows take for the turn) and a checkpoint (`TurnDiffCompleted`, which both take for the latest turn, and which for a missing one ends the turn "interrupted" in memory and "completed" in the rows). That the two agree on how a turn ended is therefore not claimed. `Rebuild` is the read model after a restart: `Rebuilt` from the rows, without messages and activities. `history` is a history variable.

### ThreadTurns

A turn of that thread from the user's message to its end. Its commands are the actions of `ThreadAggregate`; here are the actors that send them, each of which reads the thread at one moment and dispatches at a later one.

- Clients: `UserStarts`, `UserInterrupts`, `UserAnswers`, `UserStops`, `UserTidies`; `ParkReads`, `ParkCommand` and `ParkStops` are a settle or archive on its way through `ws.ts`.
- `ProviderCommandReactor.ts`: `ReactorTakes` takes an intent and reads the thread; `ReactorMarks`, `ReactorKeepsSession` or `ReactorStartsSession` and `ReactorBinds` start a turn, whose `sendTurn` is forked; `ReactorStartFails`, `ReactorRecordsFailure`, `ReactorStops`, `ReactorRecordsStop`, `ReactorRecovers`, `ReactorInterrupts`, `ReactorInterruptFails`, `ReactorGivesUp`, `ReactorAnswers` are the rest.
- The forked sends: `SendRoutes` and `SendRecovers` are `ProviderService.ts`, `SendOpens` and `SendEnds` the adapter, `SendFailureReads` and `SendFailureSets` the report of a failure.
- The agent and its adapter (`CursorAdapter.ts`): `AgentStarts`, `AgentStops`, `AgentAsks`, `AgentReports`, `AgentSpeaks`, with `feed`, its events not yet ingested.
- `ProviderRuntimeIngestion.ts`: `IngestReads` decides what to write from the thread as it is, `IngestWrites` writes it; `IngestAppends` are the request activities and the messages.
- `CheckpointReactor.ts`: a turn that ends is queued to be captured (`captures`); `CaptureReads` decides on the thread as it is whether to, `CaptureRecords` records the checkpoint once the git work is done, or nothing when that failed. One recorded as missing is captured again.
- `ServerRestarts` loses queues, fibers and agents; `Reconcile` is `reconcileProviderSessions` of the next start.

Reads that are old when acted upon do go wrong in this code. The model names six kinds of it, each recorded in `asked.mishaps` at the step where it happens:

| mishap | what happens |
|---|---|
| overtaking | a `sendTurn` begins while another one has begun and not yet opened its turn; both open one |
| outrun | a failure is recorded while events of the agent wait for ingestion, which then overwrite it |
| collateral | the failure of one start is recorded on the session while another start is under way |
| resurrected | a send or interrupt that was on its way starts a session again after a stop |
| missed | a stop takes a live agent for gone, as the session was read as stopped |
| late | the checkpoint of an ended turn is recorded after the next turn has begun |

The properties state what holds without them, each excusing only the kinds that break it, and `MaxMishaps` bounds how many kinds one behaviour has. Without them, TLC finds a counterexample of a few steps for each.

### KeyedCoalescingWorker

Every transaction of `KeyedCoalescingWorker.ts` is one step: `Enqueue`, `TakeKey` (the queue's own transaction), `ActivateKey`, `ProcessKey`, `CleanupFailedKey`, `OfferAgain`. A merged value is the set of the values merged into it. The end of `process` and the transaction that follows it are one step.

### ConnectionSupervisor

Inputs (`Connect`, `Disconnect`, `RetryNow`, `NetworkChanges`, `Wakeup`) change the intent and put signals in a queue at any moment. The fiber's steps lie between two waits: `LoopTop`, `WaitEnds`, `Prepare`, `Established`, `EstablishFails`, `TakeSignal`, `ProbeSucceeds`, `ProbeFails`, `SessionCloses`, `AttemptEnds` (the scope is closed and the outcome decided on).
What the fiber does between two waits is one step because nothing in it suspends. A race (attempt against signal, delay against signal) loses no signal: when one side ends, Effect resumes the parent and interrupts the loser, which has not yet taken anything.
`failureCount` is counted up to `MaxRung`, the last entry of `RETRY_DELAYS_MS` (4 in the code), beyond which the delay stays the same. An "unknown" network counts as online, as in the code. Time appears only as what may happen before what: a lease is "stable" or not when it ends.

### TerminalSessions

One terminal of `terminal/Manager.ts` with one client that attaches to it. `sessions` are the session objects ever created, `current` the one in the manager's map, `op` the call that holds the lock of the thread and how far it is, `client` the attached client with the events buffered for it, `file` the history file, `saves` the histories enqueued to be written. A history is the sequence of the outputs in it.
The persist worker is `KeyedCoalescingWorker` (`Worker == INSTANCE ... WITH Keys <- {Terminal}`): `Save` is its `Enqueue`, `Flushed` its `Drained`, and `WriterStep` writes the newest of the merged histories when its process ends.

- Calls: `OpenAbsent`, `OpenReads` (no session: flush, read the file), `OpenReplaces` (ended, or another directory), `OpenResumes` (left starting), `Restart`, then `Persisted` and `Spawned`; `Clear` and `Cleared`; `Close`, `CloseAbsent`, `Closed` and `Deleted`, for one terminal with or without its history, or all of a thread ("forget"). `CallInterrupted` ends one whose client has gone.
- Attach: `AttachSubscribes` before the lock, then `AttachJoins`, `AttachFails` or one of the opens; `WentLive` hands on the snapshot and the buffered events it does not cover.
- `ProcessOutput` and `ProcessExit` wait for no lock. `Evict` is `evictInactiveSessionsIfNeeded`, run when another terminal ends.

Between two waits of a call is one step: listeners offer to unbounded queues, and `drainProcessEvents`, forked, runs at once and waits for nothing. `kept` is a history variable, what the last session left behind. Five kinds of mishap are noted in `mishaps`, and the properties name which they except:

| mishap | what happens |
|---|---|
| reborn | while an attach waits for the lock the session is closed and another one opened; events of the first pass as newer than the snapshot, whose sequence began anew |
| swallowed | output published while `clear` waits for the file is erased by clients when "cleared" comes, though the history has it |
| abandoned | a call is interrupted after the session was changed and before the event that says so |
| evicted | a session is evicted while a call works on it: its new process is in no map, and another session may write the same file |
| unflushed | the histories of a thread are deleted while a write for a session evicted before still waits, and brings the file back |

Each exception is needed: without it TLC finds the property violated.

## Runs

All runs use breadth-first search over the complete state space of their instance. Deadlock checking is off where the bounds let the system finish its work and rest.

| run | module | what it shows | bounds | distinct states |
|---|---|---|---|---|
| `engine` | MCOrchestrationEngine | `ReceiptsMatchLog`, `DecidedOnCommittedState`, `AnswersAreTruthful`, `ReadModelReflectsLog`, `FeedComplete`, refinement of `EventFeed`, `CallsAreAnswered` | 6 commands (a repeated id for another aggregate, a two-event command, one refused for an activity in memory), 3 calls, 1 crash, 1 subscriber, page of 2 | 427,243 |
| `shared_database_stale` | MCSharedDatabase | violation: the head passes over events never folded | 2 calls and offline commands, 1 crash, page of 1 | - |
| `thread_turns` | MCThreadTurns | `SettledIsAtRest`, `FlagsAgree`, `NoStuckWork`, `BusyIsShown`, `StoppedMeansDead`, `TurnsAreShown` | 2 messages of the user, 1 restart, 1 kind of mishap, and either 1 request and 1 other call of the user, or 1 message of the agent and checkpoints | 2,815,801 |
| `thread_subscription` | MCThreadSubscription | `OnlySlipsLoseEvents`, `LiveIsCaughtUp`, `ClientCatchesUp` | 2 events in batches of 1 or 2, 2 breaks, gap limit 1 | 982,426 |
| `thread_attach`, `thread_cache` | MCThreadSubscription | violations: two of the lossy interleavings, each alone | same | - |
| `shell_subscription` | MCShellSubscription | `StaleRowsAreAhead`, `LiveRowsKeepPromise`, `SidebarCatchesUp` | 2 aggregates, 3 events, 1 break, gap limit 2 | 1,508,411 |
| `thread_incarnations` | MCThreadIncarnations | `FenceHolds`, `DrainedMeansIdle`, `OwnersUndisturbed`, `CreateReturns` | 2 clients, 3 events, 1 restart, 1 interrupted cleanup | 187,290 |
| `thread_visitor` | MCThreadIncarnations | violation: a visitor's resources fall to a late cleanup | 3 events | - |
| `keyed_worker` | MCKeyedCoalescingWorker | `DrainedIsDone`, `WaitingIsReached`, `KeysDrain` | 2 keys, 5 values | 1,931 |
| `connection_supervisor` | MCConnectionSupervisor | `QuietMatchesIntent`, `LeaseEndsWithAttempt`, `LadderHolds`, `GenerationsAreFresh`, `DisconnectHonoured`, `WantedIsTried` | 4 inputs, 2 leases, 4 delays | 1,302,621 |
| `terminal_sessions` | MCTerminalSessions | `ViewIsHistory`, `HistoryIsSaved`, `ProcessIsReachable`, `CallsReturn` | 3 calls, 2 outputs, 1 interrupted call | 794,962 |

Why the bounds are enough to meet the interesting cases:

- Engine: three calls are a command, its repetition (queued, or after the crash) and a competitor; two events in a command let a failure fall between them and let a page of 2 or 1 cut reconciliation short.
- Threads: two events with a gap limit of 1 reach both replay and snapshot; two breaks are one that leaves a cached copy or a queue of old items and one that interrupts resuming from it. Shell: two aggregates are what coalescing can confuse.
- Incarnations: create, delete, create is the hazard; create, turn, delete is a turn outlived by its thread.
- Turns: two messages are one whose turn runs and one that joins, overtakes or outlives it; the one other call falls anywhere between them; the restart falls between any two steps. A second call of the same kind finds the same reads and writes as the first. The constraint `OneSide` keeps what the agent puts out apart from requests and calls, which with it would be too many states: only sessions, messages and checkpoints write the turns, and a call meets them through the session.
- Terminals: three calls are one that opens, one that changes or closes, and one that opens or attaches again; two outputs are one before and one during or after a call, or two whose writes merge.
- Keyed worker: with five values two can be merged while a third is processed and others wait for the other key.
- Supervisor: four inputs are one that starts a probe, one during it and two more behind them; two leases show a generation reused.

The bounds are `MaxCalls`, `MaxCrashes`, `ReplayLimit` (the code's page size, smaller), `MaxLog`, `MaxBreaks`, `MaxGap` (the code's resume limits, smaller), `MaxRestarts`, `MaxInterrupts`, `MaxStarts`, `MaxCalls`, `MaxMessages`, `MaxMishaps`, `MaxValues`, `MaxInputs`, `MaxLeases`, `MaxOutputs`, and `MaxRung`, which is the code's own.
No run uses symmetry. Where a module's `TypeOK` is proved (`TypeCorrect`), its run may leave it out.

Fairness. The Effect runtime resumes every fiber that can go on, so there is weak fairness on each fiber's steps taken together: the engine's worker and boot, the subscription's fiber and handler, the client's receive and subscribe loops, the cleanup worker, the keyed worker's fiber, the holder of a terminal's lock and the attach that waits for it.
For the supervisor only what time brings about is fair: signals are taken, attempts and probes time out, delays pass, scopes close. That an attempt succeeds, a probe is answered or a session closes is never assumed.
No fairness is assumed of inputs, failures, crashes or breaks; "sessions stop breaking" is the bound on breaks. A crash answers a call with "lost", which is what the caller's broken socket tells it.

The `engine` properties in words: a command id has events exactly when its receipt says accepted (`ReceiptsMatchLog`); the events of each command are the decision on the read model of exactly what was committed before, by rows up to the last start and folded from there (`DecidedOnCommittedState`), which is serial equivalence up to what a restart drops; between commands the model reflects the whole log, and only what was committed before the last start by rows alone (`ReadModelReflectsLog`); what a caller is told agrees with the receipts (`AnswersAreTruthful`). The comment above each property states the others.

## Proofs

The theorems hold for every value of the constants that satisfies the stated assumptions: any set of commands, clients or keys, any decider that returns sequences of bodies, any bound. `TypeCorrect` and the lemmas are in the same modules.

**OrchestrationEngineProofs.** The invariant grows in four stages.
`TypeInv` is `TypeOK` and that queued envelopes belong to calls.
`ModelInv` adds `ReadModelIsLog` (the events reflected are the log, with the transaction just committed), `LoadedAtBoot` (what comes from rows ends at the last start) and what makes them inductive: the log and the open transaction are numbered from 1 without gaps, a transaction is open only while the worker writes, and `StartIsLogEnd`, that the sequence from which a failed command reconciles is the end of the log. From the last one follows that, with one writer, reconciliation finds nothing: it is there for the second writer of `SharedDatabase`.
`FeedInv` adds that the outbox is the end of the read model, is non-empty only while publishing, and that feeds are open only while the server is up. Theorems: `ReadModelCorrect`, `FeedsComplete`, and `EngineImplementsFeed`, the refinement, by one case per action: it maps to an action of `EventFeed` or to a stutter.
`ReceiptInv` relates the receipts to log and answers. `ReceiptsMatchLog` is not inductive: the worker writes events and receipt in steps of their own, and while the transaction is open neither is in the committed log. `WorkerInv` therefore says what holds at each step of the worker: while the transaction is open its command has no receipt, and what is written with what is left to write is the decision (`WorkerWrites`); once it is committed the receipt is accepted at the end of the log (`WorkerWrote`); a refusal that is reconciled or recorded is of a command without a receipt (`RefusedHasNoReceipt`). `AnswersAreTruthful` rests on these, as an answer is given from the receipt or from the worker's step. Theorems: `ReceiptsCorrect`, `DecisionsSerial`, `AnswersCorrect`, and `ReceiptsFinal`, the action property that a receipt, accepted or rejected, never changes.

**ThreadIncarnationsProofs.** `IncarnationInv` is `TypeOK`, `PipelineInv` and `FenceInv`. `PipelineInv` orders the pipeline log, head, published, taken, seen and says that the worker counts its queue and active item. `FenceInv` says that a client behind its fence, and everything it has started, is `Clear`: no deletion from before its creation is pending. A drained worker at a watermark past `n` is clear of everything up to `n`, and `Clear(n)` is stable, because only events beyond `taken` are handed on. Theorems: `FenceCorrect`, `OwnersSafe`, `DrainCorrect`.

**ThreadTurnsProofs.** The first part is about `ThreadAggregate`. `ThreadInv` is `TypeOK`, the three properties (`ColumnsAgree` is needed by the guards, which read one side, and the properties, which speak of the other), and `UnaskedIsAbsent` (a request never asked is known to neither side). There is one step per command. Theorems: `SettledCorrect`, `FlagsCorrect`, `ColumnsCorrect`.
The second part is `TurnsImplementThread`: `TurnsSpec => Spec`. Every step of every actor is one command of `ThreadAggregate` or leaves the thread alone, so whatever is proved of the thread holds under all their interleavings: `TurnsTyped`, `TurnsSettled` and `TurnsFlags` are the consequences. The proof needs the types of what the actors hold between read and write (an ingestion's verdict, a reactor's intent, a turn's id), which is its invariant.
The third part says how turns begin; the others rest on it (`TurnsWell`). `QueueInv`: a start that is queued or held by the reactor is so once and has not been sent. `TurnsBegin`: a send that opens a turn opens its own, and a session about to be written with a turn runs. `FeedInv`: a session that starts finds no turn shown, because between every `turn.started` before it, or the turn shown now, and its `session.started` the feed has an exit (`Closed`), which clears the turn; without that the session would be set running with an old turn. An exit is in the feed whenever a live agent ends, and while no agent lives everything in the feed is closed. After a restart the feed is empty of turns until the reconciliation has cleared what is shown. Each action disturbs at most one part: most are instances of `PlainStep`.
The fourth part proves `NoStuckWork`, `BusyIsShown` and `StoppedMeansDead`. They speak of a moment at which nothing is on its way, so the invariant, `WorkInv`, has to say at every other moment what will still be shown: the session as the ingestion is about to write it (`ShownStatus`, `ShownTurn`), corrected by the feed in order. `StuckInv`: a turn that is shown as live, or that a `turn.started` in the feed announces, either has its end behind it in the feed (`Ended`: its own `turn.completed`, or an exit) or is the turn of a prompt in flight (`Accounted`). A failure that is still to be recorded excuses this, as recording it sets the session whatever the feed says; and once no start is queued, held or under way, what is live is ended by the feed (`AllEnded`). It rests on `FlightInv`: all prompts in flight have the agent's turn, or the only one is about to open it. Two that open turns at once break that ("overtaking"), a record made before the feed is read breaks `AllAccounted` ("outrun"). `BusyInv`: while prompts are in flight the session is live and nothing in the feed lowers it, or a `turn.started` is the last word on it (`Raised`), or a send is about to open its turn or to have its failure recorded. `AliveInv`: while the agent lives the session is not stopped and no exit is in the feed, or a `session.ready` follows the last exit (`Revived`). `StopInv`: when a stop is about to be recorded, the agent is dead. The last three hold until a record is made of another start's failure, a stop is outlived, or a live agent is taken for gone. `TurnRuns` (a session has a turn only while it runs) is what makes a rejected event harmless. Reading the head of the feed is one lemma for all three (`TailWork`), steps that show nothing new are another (`WorkCalm`). Theorems: `NoWorkIsStuck`, `WorkIsShown`, `StoppedIsDead`.
The fifth part proves the first half of `TurnsAreShown`: decider and rows have the same latest turn, and it is the session's turn while that has one (`LatestIsKnown`), unless a checkpoint was recorded over a later turn. Sessions move it alike on both sides, but a checkpoint does so in the rows always and in memory only when it is not a missing one after a final one. So `LatestInv` says that this case does not arise: a turn whose checkpoint is being taken has none that is final (`CaptureIsNew`), what the read model knows to be final the rows know too (`CheckpointsKnown`; after a restart the model knows nothing of checkpoints), and the latest turn has a row (`LatestIsShown`). Theorem: `LatestTurnIsKnown`. The other half, that every turn ends (`TurnsEnd`), is model-checked.

**ThreadSubscriptionProofs.** `IInv` is `TypeInv`, `PhaseInv`, `SnapshotFirst`, `GapFree`, `OldGapFree`, `ContentInv` and `PromiseInv`.
`PhaseInv` says which parts of a subscription are empty in which phase. `GapFree` is the heart: the wire followed by the buffer is one stream, and between the client's cursor and each event in it no detail event is missing (`NoGap`); before the marker stands everything it stands for, at the end everything published, unless a slip has happened. A prefix of a stream is such a stream too, so what a break leaves queued is (`OldGapFree`), and old items followed by the next stream's move the cursor without a gap. `SnapshotFirst` says that a running stream's snapshot is behind nothing queued before it. During a replay the stream starts where the replay will end, as what is still to be read comes before the buffer. `ContentInv` says that content is the fold up to the cursor, or up to the item whose cursor is stored and whose content is not. `PromiseInv` says that what the last marker stands for is shown, whatever is applied after it. Each handler is a lemma about streams: one is published, skipped, received, replayed or overtaken by a snapshot. Theorems: `TypeCorrect`, `ContentCorrect` (`OnlySlipsLoseEvents`) and `LiveCorrect` (`LiveIsCaughtUp`), for any log and any number of breaks.
The fold is a recursive function over the log, so its facts need induction. The library's induction theorems take an operator as parameter, which the provers cannot instantiate; `NatSetInduction` states induction for a set of numbers, proved by its least missing element (`WFMin`).

**ShellSubscriptionProofs.** `IInv` is `TypeInv`, `PhaseInv`, `OrderInv` and `FlowInv`. Here streams are not complete: a window keeps one event of each aggregate, and the row that is sent for it may be newer than the event. What survives is the newest event of an aggregate up to a point P (`Newest(P)`): a window that ends at or before P never coalesces it away. The points are the positions from the head to the end of the log, and what is or will be promised by the marker. What was promised includes the markers of ended streams, in the queue or already taken (`OldPoint`). `FlowInv` says of each point: what ended streams left queued carries the cursor past no newest event without its row (`OldSkipsNothing`); the newest events after the cursor are still coming (`NothingSkipped`: on the wire, or behind it in the batch, or behind both in the buffer or the replay, with nothing before them that carries the cursor past them), and a row whose aggregate has no event between cursor and point is right for the point or a later position (`RowsFollow`). When a row arrives and moves the cursor, every other aggregate keeps the second fact because of the first: an event the cursor jumped over would be coming behind the row. `MarkerInv` says that once the marker has arrived nothing it promised is to come, since the batch it ends is sent before it (a marker put before the buffered events violates it). `ToldInv` keeps that of the last marker taken, of whichever stream. `OrderInv` says that a snapshot is first on the wire and that a client without rows gets one first, whichever stream its items are of. `Coalesce` is a recursive function; what it keeps (`KeepsLast`) is proved by the same induction. Theorems: `TypeCorrect`, `RowsCorrect` (`StaleRowsAreAhead`), `PromiseKept` (`LiveRowsKeepPromise`).

**KeyedCoalescingWorkerProofs.** `KeyedInv` is the two invariants `QueuedOnce` and `WaitingIsReached` with `ActiveIsProcessed` (the active key is the fiber's) and `ValuesAccounted` (what was enqueued is attempted or waits, and attempts are older than what waits). Theorems: `WaitingCorrect`, `QueueCorrect`, `DrainCorrect`, `AttemptsCorrect`.

**TerminalSessionsProofs.** It instantiates `KeyedCoalescingWorkerProofs` with the one terminal as key. `ManagerRunsWorker`: `Spec => Keyed!Spec`, every step of the manager is a step of the worker or leaves it alone; so the worker's theorems hold here, and `FlushedIsWritten` is one of them. `ManagerInv` is the worker's invariant with `ManagerTypes`, `CallHoldsSession` (a call that will start a process holds the session in the map, one that ends it has stopped its process), `NewestIsLast` (the newest history waits, or is what is written last) and `FileFollows` (what waits, is written or is in the file is what memory has; without the last two parts a write under way says nothing of the file to come). There are three kinds of steps: those that only move a call, those that change a session and save nothing, those that save. For the client, `ViewInv` has four parts. `Views` gives its kinds. `SessionsKnown`: what a call works on exists. `BufferCovered`: no event in the buffer lies beyond the session it speaks of, if that is the one in the map; so when the client joins with a snapshot of that session, the snapshot covers everything buffered of it, and only an event of an earlier session (the mishap "reborn") can be folded on top. `ViewFollows` says what a live client shows while a call is at work: nothing is asked of it while a start or a close is under way, since the call ends with a snapshot, an error or a "closed"; during a clear only the status. `WentLive` folds the buffer with a recursive function; `LiveFoldExists` and `WentLiveIsFold` (induction over the natural numbers as well-founded order, on sets) say that the fold is what its equation says, and `WentLiveView` that a covered buffer adds nothing to the snapshot. Theorems: `ProcessesReachable`, `HistorySaved`, `TypeCorrect`, `ViewCorrect`.

**ConnectionSupervisorProofs.** `SupervisorInv` is `TypeOK`, `SignalsInv`, `LeaseInv`, `LadderInv` and `MarkerInv`. The heart is `SignalsInv`: whenever the intent changed in a way the fiber has not acted on, a signal that will make it act is in the queue. With an empty queue that is `QuietMatchesIntent`. `MarkerInv` says that the marker of a failed probe exists only while its attempt is released, which is why it cannot shorten a later delay. Theorems: `IntentCorrect`, `LeaseCorrect`, `LadderCorrect`, `GenerationsCorrect`.

Assumed: only the named ASSUMEs on constants, which TLC evaluates in the runs, and the facts of the installed library.

## Findings

Four runs end in a violation, because the code does not do what a comment in it says. None of them needs more than two actors.

- `shared_database_stale`: a server that is slow to answer shares its database with an offline project command and then reports a sequence that covers events it never folded.
- `thread_attach`: `subscribeThread` forks the fiber that attaches the live stream without starting it; an event published before its first step, after the head was read, is in neither replay nor live stream. `subscribeShell` starts its fiber immediately, and its run finds no such loss.
- `thread_cache`: the finalizer of a thread view stores cursor and content without the lock under which they change, so the copy may have the cursor of an item it lacks.
- `thread_visitor`: only the creator of a thread waits at the fence; another client's session or terminal in the new incarnation can be taken down by the cleanup of the old one.

`OnlySlipsLoseEvents`, `TurnsAreShown` and `OwnersUndisturbed` show that these, the old snapshot and the mishaps named are the only exceptions in their models.

Noted while modelling, without a run of their own:

- `threads-sync.test.ts:602` says that replayed updates keep synchronizing until the completion marker arrives. The marker names no subscription, and `Stream.switchMap` (`rpc/client.ts:199`) hands on what it has queued of a stream it interrupts: after a foreground resubscription the marker of the old stream makes the client say live (`threads.ts:343`), and the replay of the new one then arrives as if live. `LiveIsCaughtUp` and `LiveRowsKeepPromise` say what "live" does promise.
- `CheckpointReactor.ts:366` says that "when a primary turn is active, only that turn may produce completion checkpoints". It is checked when the capture begins; the checkpoint is recorded after the git work. If the next turn has begun by then, the ended one becomes the latest turn again, for clients and decider, while the session runs the next (the mishap "late").
- A snapshot of an ended stream that is applied after a newer one came over HTTP takes content and cursor back, while the subscription resumes after the newer one: events in between are not sent again until the next snapshot (`threads.ts:355`, `shell.ts:151`). It takes a session lost while its snapshot waits in the queue and a client whose new session loads over HTTP before that item is applied.
- `projector.ts:683-756` ends a turn with a missing checkpoint as "interrupted", `ProjectionPipeline.ts:1514` as "completed"; a later, final checkpoint repairs it.
- `ws.ts:844-846` says that turn starts on archived threads are rejected. The decider's `thread.turn.start` only requires that the thread exists: an archived thread accepts it, and so does `StartTurn`.
- `decider.ts:35-44` and `60-65` derive pending requests from a capped list of activities and say that this is the stream the user interface counts. The pipeline keeps a table that is not capped and closes a request when the user responds, not when the provider does. `FlagsAgree` says how far they agree.
- Two minutes after a message the decider no longer counts it as a queued start, and settles the thread although the start is still under way; `SettledIsAtRest` holds because the session that comes alive then wakes it.
- `flushPersist` (`terminal/Manager.ts:1400`) waits, under the lock of the thread, until the key of the terminal is idle, and each output gives it new work with a debounce of 40 ms. `clear` and any call behind it, a close included, wait as long as a process of the terminal speaks more often than that. `restart` and `close` stop the process first; `clear` does not. `CallsReturn` is about output that pauses.
- A `session.exited` is ingested without regard to which session of the thread it came from. One that waits while a new session is started sets the new one stopped (the mishap "outrun" is one way to it).

## Limits

Only model-checked: the liveness properties (`CallsAreAnswered`, `ClientCatchesUp`, `SidebarCatchesUp`, `CreateReturns`, `KeysDrain`, `DisconnectHonoured`, `WantedIsTried`, `CallsReturn`), which are outside what the prover can do, and `SharedDatabase` as a whole. `TurnsEnd`, the second half of `TurnsAreShown`, is too. Every other property of a passing run is a theorem.

Simplified:

- An RPC request and the start of its handler are one step, an HTTP snapshot is read and applied at one moment, and the server is taken to support the completion marker.
- The output queue of `subscribeDynamic` holds 16 items; in the models any number of them may be queued there, and only those that were can be left over.
- `ThreadSubscription`: not-found and deleted threads and pages of older turns are left out. The fiber that watches the supervisor's state is not interleaved with the subscription's fiber; a lost session takes both at once.
- `ShellSubscription`: the stored copy is only a first paint, as a new session starts from a snapshot; refetches of one batch are read one after the other.
- `ThreadIncarnations`: one thread id, one event per command, and the worktree steps of a bootstrap only succeed or fail. The reactor attaches and sets its watermark in one step, since both happen before commands are accepted. History files of terminals are left out.
- `ConnectionSupervisor`: reading the network status and listening for its changes is one step; the finalizer that ends the supervisor with its environment is left out; "credentials-changed" is modelled although only tests send it so far.
- `ThreadAggregate`: titles, models, plans, the content of messages and diffs, reverts and errors of the runtime are left out; of messages and checkpoints it has what they make of the turns; a request of user input is handled as an approval is. Time is only whether the newest message is newer than the latest turn.
- `ThreadTurns`: the adapter is Cursor's; others differ in how turns are opened and steered, and Codex announces missing checkpoints during a turn. The completion of messages that are still streaming when their turn ends is an event of its own behind that turn's end. What comes to nothing, outside a git workspace for example, is not queued to be captured; conflicts between the turn counts of checkpoints are left out. Changes of the runtime mode between turns, configuration errors before a start is marked and the directory entry `sendTurn` writes at its end are left out; `session.started` and `thread.started` are one event; the stop and the read after it in a failed interrupt are one step; one parking is under way at a time.
- `TerminalSessions`: one terminal and one attached client. Writing and resizing, the metadata stream, subprocess polls, the escalation of kills, escape sequences, the limit on the history and files of older versions are left out; writes and reads of the file succeed; a spawn and the registration of its handlers are one step. The bound on outputs hides that a terminal that never pauses keeps the worker's key busy, so that `flushPersist` waits as long; and that the last 40 ms of output, which wait for their write, are lost when the server dies.
- `KeyedCoalescingWorker`: a failure or success of `process` and the transaction after it are one step.

Not modelled: the components with that status in `PROJECT.json`. For most the reason is that they come later (below). Provider adapters, SSH tunnels, the web interface and the resource monitor are translation, process plumbing, rendering and sampling: their state is that of programs outside this repository or none at all.

## Plan

In order of weight; each step names the module, what it composes with and what to prove.

1. **Done.** OrchestrationEngine with EventFeed and SharedDatabase; ThreadSubscription; ShellSubscription; DrainableWorker and ThreadIncarnations; KeyedCoalescingWorker; ConnectionSupervisor; ThreadAggregate, the decider and both folds for one thread; ThreadTurns, the actors around it with the reconciliation at start; TerminalSessions over KeyedCoalescingWorker; proofs of nine of them.
2. **ProjectionReplay**: projectors with their cursors, live against bootstrap order, a crash between them, file side effects. To prove: replay gives what live projection gives.
3. **CommandGate**: startup and readiness. The reconciliation of sessions before commands is in ThreadTurns.
4. **ThreadPages**: pages of older turns and their epochs, in ThreadSubscription.
5. Proofs about `SharedDatabase`: what two writers of one database still guarantee each other.
6. Later: reverts in ThreadAggregate, a proof of `TurnsEnd`, the session reaper, registry and supervisor together, pairing grants and sessions, desktop backend pool, scheduled tasks, background policy.
