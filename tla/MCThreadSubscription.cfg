\* Safety and liveness: two events, two breaks.
SPECIFICATION FairSpec
CONSTANTS
    Batches <- MCBatches
    MaxGap = 1
    MaxLog = 2
    MaxBreaks = 2
INVARIANTS
    TypeOK
    OnlySlipsLoseEvents
    LiveIsCaughtUp
PROPERTIES
    ClientCatchesUp
\* The log is full and everything is delivered.
CHECK_DEADLOCK FALSE
