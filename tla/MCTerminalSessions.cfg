\* Three calls: one that opens, one that changes or closes, one that opens or
\* attaches again; two outputs; one call whose client goes away.
SPECIFICATION FairSpec
CONSTANTS
    MaxCalls = 3
    MaxOutputs = 2
    MaxInterrupts = 1
INVARIANTS
    TypeOK
    ViewIsHistory
    HistoryIsSaved
    ProcessIsReachable
PROPERTIES
    CallsReturn
\* All calls have returned and the processes are silent.
CHECK_DEADLOCK FALSE
