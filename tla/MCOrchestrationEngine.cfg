\* Safety and liveness: three calls, one crash, one subscription.
SPECIFICATION FairSpec
CONSTANTS
    Requests <- MCRequests
    CommandIds <- MCCommandIds
    Aggregates <- MCAggregates
    Bodies <- MCBodies
    Decisions <- MCDecisions
    IdOf <- MCIdOf
    AggregateOf <- MCAggregateOf
    Decide <- MCDecide
    Subscribers = {s1}
    ReplayLimit = 2
    MaxCalls = 3
    MaxCrashes = 1
INVARIANTS
    ReceiptsMatchLog
    DecidedOnCommittedState
    AnswersAreTruthful
    ReadModelReflectsLog
    FeedComplete
PROPERTIES
    CallsAreAnswered
    FeedSpec
\* All calls may have been answered: the engine is then idle for good.
CHECK_DEADLOCK FALSE
