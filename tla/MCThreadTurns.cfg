SPECIFICATION TurnsSpec
CONSTANTS
    r1 = r1
    Turns <- MCTurns
    Requests <- MCRequests
    NoTurn = 0
    MaxStarts = 2
    MaxCalls = 1
    MaxRestarts = 1
    MaxMishaps = 1
    MaxMessages = 1
CONSTRAINT OneSide
INVARIANTS
    TypeOK
    SettledIsAtRest
    FlagsAgree
    NoStuckWork
    BusyIsShown
    StoppedMeansDead
    TurnsAreShown
CHECK_DEADLOCK FALSE
