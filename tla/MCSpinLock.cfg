CONSTANTS
    t1 = t1
    t2 = t2
    None = None
    Clients <- MCClients
    SimpleName = "GlobalSpinLockRedisImpl"
    Minute = 2
    Second = 1
    MaxTime = 3
SPECIFICATION SpinSpec
INVARIANT SpinLockExcludes
CHECK_DEADLOCK FALSE
