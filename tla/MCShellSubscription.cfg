\* Safety and liveness: three events, one break.
SPECIFICATION FairSpec
CONSTANTS
    Aggregates <- MCAggregates
    Batches <- MCBatches
    MaxGap = 2
    MaxLog = 3
    MaxBreaks = 1
INVARIANTS
    TypeOK
    StaleRowsAreAhead
    LiveRowsKeepPromise
PROPERTIES
    SidebarCatchesUp
\* The log is full and everything is delivered.
CHECK_DEADLOCK FALSE
