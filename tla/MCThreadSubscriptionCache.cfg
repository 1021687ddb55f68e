\* The comment on the cursor of the cached copy.
SPECIFICATION Spec
CONSTANTS
    Batches <- MCBatches
    MaxGap = 1
    MaxLog = 2
    MaxBreaks = 2
INVARIANTS
    CacheCanCatchUp
\* The log is full and everything is delivered.
CHECK_DEADLOCK FALSE
