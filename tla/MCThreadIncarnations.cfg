\* Three events (create, delete, create; or create, turn, delete), one restart
\* and one interrupted cleanup. No symmetry, which liveness forbids.
SPECIFICATION FairSpec
CONSTANTS
    c1 = c1
    c2 = c2
    Clients <- MCClients
    MaxLog = 3
    MaxRestarts = 1
    MaxInterrupts = 1
INVARIANTS
    FenceHolds
    DrainedMeansIdle
PROPERTIES
    OwnersUndisturbed
    CreateReturns
\* The log is full and every client has given up.
CHECK_DEADLOCK FALSE
