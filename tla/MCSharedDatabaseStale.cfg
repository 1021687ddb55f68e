\* The comment on latestSequence, with a second writer.
SPECIFICATION SharedSpec
CONSTANTS
    Requests <- MCRequests
    CliRequests <- MCCliRequests
    CommandIds <- MCCommandIds
    Aggregates <- MCAggregates
    Bodies <- MCBodies
    Decisions <- MCDecisions
    IdOf <- MCIdOf
    AggregateOf <- MCAggregateOf
    Decide <- MCDecide
    Subscribers = {s1}
    ReplayLimit = 1
    MaxCalls = 2
    MaxCrashes = 1
INVARIANT
    LatestSequenceCoversLog
\* All calls may have been answered: the engine is then idle for good.
CHECK_DEADLOCK FALSE
