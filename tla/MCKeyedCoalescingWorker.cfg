\* Safety and liveness: five values, so that two can be merged while a third is
\* processed and others wait for the other key.
SPECIFICATION FairSpec
CONSTANTS
    Keys <- MCKeys
    MaxValues = 5
INVARIANTS
    DrainedIsDone
    WaitingIsReached
PROPERTIES
    KeysDrain
\* All values are processed.
CHECK_DEADLOCK FALSE
