----------------------------- MODULE DrainableWorker -----------------------------
(***************************************************************************)
(* makeDrainableWorker of packages/shared/src/DrainableWorker.ts: a queue, *)
(* one fiber that takes items and processes them, and a count of items     *)
(* accepted and not finished on which drain waits.  The reactors of the    *)
(* server INSTANCE it.  Each transaction (enqueue, take, the update of the *)
(* count) is one step; processing lies between TakeItem and FinishItem.    *)
(***************************************************************************)
EXTENDS Integers, Sequences

CONSTANT NoItem   \* what the fiber holds between two items

VARIABLES
    queue,        \* queue: items accepted and not taken
    active,       \* the item being processed
    outstanding,  \* outstanding: the count drain looks at
    alive         \* the fiber runs its loop

workerVars == <<queue, active, outstanding, alive>>

WorkerInit ==
    /\ queue = <<>>
    /\ active = NoItem
    /\ outstanding = 0
    /\ alive = TRUE

(* Accepted also when the fiber is gone: the queue stays open until the    *)
(* scope closes.                                                           *)
Enqueue(item) ==
    /\ queue' = Append(queue, item)
    /\ outstanding' = outstanding + 1
    /\ UNCHANGED <<active, alive>>

TakeItem ==
    /\ alive
    /\ active = NoItem
    /\ queue # <<>>
    /\ active' = Head(queue)
    /\ queue' = Tail(queue)
    /\ UNCHANGED <<outstanding, alive>>

FinishItem_Leaks ==              \* mutant: the count is not taken down
    /\ active # NoItem
    /\ active' = NoItem
    /\ UNCHANGED <<queue, outstanding, alive>>

(* process(a) succeeds, and Effect.ensuring takes the count down.          *)
FinishItem ==
    /\ active # NoItem
    /\ active' = NoItem
    /\ outstanding' = outstanding - 1
    /\ UNCHANGED <<queue, alive>>

(* process(a) fails or is interrupted: the count is taken down as well,    *)
(* and Effect.forever ends with the failure.                               *)
ItemEndsLoop ==
    /\ active # NoItem
    /\ active' = NoItem
    /\ outstanding' = outstanding - 1
    /\ alive' = FALSE
    /\ UNCHANGED queue

Drained_QueueEmpty ==            \* mutant: the item being processed is not waited for
    queue = <<>>

(* drain retries until the count is not positive.                          *)
Drained == ~(outstanding > 0)

-----------------------------------------------------------------------------
(* drain returns only when the worker is empty and idle, whatever was      *)
(* enqueued, failed or interrupted before.                                 *)
DrainedMeansIdle == Drained => queue = <<>> /\ active = NoItem

(* What DrainedMeansIdle rests on: the count is the number of items that   *)
(* are queued or being processed.                                          *)
CountsItems == outstanding = Len(queue) + (IF active = NoItem THEN 0 ELSE 1)
=============================================================================
