CONSTANTS
    CoreSize = 5
    MaxSize = 5
    Capacities = {1, 2}
    Desired = {4}
    Sizes = {0, 2, 5}
    PartitionSizes = {2}
    Key <- MCKey
    MaxConcurrency = 2
SPECIFICATION FairSpec
INVARIANTS
    TypeOK
    NoPartitionLost
    AdjustSizeReaches
PROPERTIES
    ImplementsParallelMap
    CompletesUnlessRejected
