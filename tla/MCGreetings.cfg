CONSTANTS
    None = None
    MaxId = 3
    MaxTime = 2
    Ids <- MCIds
    DefaultSize = 2
    Duration = 1
    Requests <- MCRequests
SPECIFICATION Spec
INVARIANT TypeOK
INVARIANT NothingSkipped
PROPERTY WindowMovesBack
CHECK_DEADLOCK FALSE
