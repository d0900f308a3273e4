CONSTANTS
    c1 = c1
    c2 = c2
    Calls = {c1, c2}
    Samples <- MCSamples
    Requests <- MCRequests
    Direct <- MCDirect
    Errors <- MCErrors
    Ids = {"1", "2"}
    Present = {"1"}
    None = None
SPECIFICATION FairSpec
CHECK_DEADLOCK FALSE
INVARIANTS
    TypeOK
    OkMeansCommitted
    ErrorsKeepTheirCode
    AnswersWereWritten
    CleanExit
    RoutesAreDisjoint
    PathWins
PROPERTIES
    NoCommitAfterStop
    StopsOnInterrupt
    ReturnsUnlessScheduled
    AnsweredOrLost
