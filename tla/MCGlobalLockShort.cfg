CONSTANTS
    c1 = c1
    c2 = c2
    c3 = c3
    None = None
    Clients <- MCClients
    HolderOf <- MCHolderOf
    Expires <- MCExpires3
    Second = 3
    MaxTime = 3
    MaxPause = 0
SPECIFICATION Spec
INVARIANT MutualExclusion
CHECK_DEADLOCK FALSE
