CONSTANTS
    t1 = t1
    t2 = t2
    t3 = t3
    a = a
    b = b
    s1 = s1
    s2 = s2
    empty = empty
    None = None
    Threads <- MCThreads
    Targets <- MCTargets
    Lengths <- MCLengths
    NoTarget = empty
    DefaultLength = 100
    StubClasses <- MCStubClasses
    MaxChanges = 3
SPECIFICATION FairSpec
INVARIANT TypeOK
INVARIANT StubsOnChannel
INVARIANT ChannelCurrent
INVARIANT HolderInv
PROPERTY LockIsReleased
