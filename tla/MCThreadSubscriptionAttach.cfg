\* The comment on attaching live delivery first.
SPECIFICATION Spec
CONSTANTS
    Batches <- MCBatches
    MaxGap = 1
    MaxLog = 2
    MaxBreaks = 2
INVARIANTS
    AttachLosesNothing
\* The log is full and everything is delivered.
CHECK_DEADLOCK FALSE
