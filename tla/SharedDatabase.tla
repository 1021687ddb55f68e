----------------------------- MODULE SharedDatabase -----------------------------
(***************************************************************************)
(* The server's engine when another process writes the same database.      *)
(* `project add|remove|rename` (apps/server/src/cli/project.ts) asks the   *)
(* recorded server for a snapshot, and when no answer comes within one     *)
(* second takes the server for dead, forgets it, and runs an engine of its *)
(* own on the database.  A server that was only busy is then still there.  *)
(***************************************************************************)
EXTENDS OrchestrationEngine

CONSTANT CliRequests   \* commands of offline project commands, each with a fresh id

(* The offline engine boots on the committed state, decides and commits    *)
(* one command.  SQLite admits one writer: it waits while the server has   *)
(* rows in an open transaction.                                            *)
OfflineCommit(r) ==
    /\ txn = <<>> \/ worker.phase # "append"
    /\ receipts[IdOf[r]] = NoReceipt
    /\ LET decision == Decide(r, ReadModelOf(log, Len(log))) IN
        /\ decision # <<>>
        /\ log' = log \o [i \in 1..Len(decision) |->
                            [seq |-> Len(log) + i, req |-> r, body |-> decision[i]]]
        /\ receipts' = [receipts EXCEPT ![IdOf[r]] =
                            [status |-> "accepted", aggregate |-> AggregateOf[r],
                             seq |-> Len(log) + Len(decision)]]
    /\ UNCHANGED <<txn, readModel, loaded, queue, calls, worker, outbox, feeds, crashes, boots>>

SharedNext ==
    \/ \E r \in Requests \ CliRequests : Dispatch(r)
    \/ \E s \in Subscribers : Subscribe(s)
    \/ WorkerStep
    \/ Crash
    \/ Boot
    \/ \E r \in CliRequests : OfflineCommit(r)

SharedSpec == Init /\ [][SharedNext]_vars

-----------------------------------------------------------------------------
(* "The command read model's snapshotSequence tracks the latest committed  *)
(* event sequence": an engine between two commands has folded every event  *)
(* up to the sequence it reports.                                          *)
LatestSequenceCoversLog ==
    worker.phase = "idle" =>
        \A n \in 1..SnapshotSequence(readModel) : \E i \in 1..Len(readModel) : readModel[i].seq = n
=============================================================================
