CONSTANTS
    c1 = c1
    c2 = c2
    c3 = c3
    None = None
    Clients <- MCClients
    HolderOf <- MCHolderOf
    Expires <- MCExpires2
    Second = 2
    MaxTime = 4
    MaxPause = 1
SPECIFICATION Spec
SYMMETRY MCSymmetry
INVARIANT TypeOK
INVARIANT MutualExclusion
INVARIANT LockInv
PROPERTY OnlyExpiredRowsChangeHands
PROPERTY ImplementsLeaseLock
CHECK_DEADLOCK FALSE
