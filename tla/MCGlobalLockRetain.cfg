CONSTANTS
    c1 = c1
    c2 = c2
    c3 = c3
    None = None
    Clients <- MCClients
    HolderOf <- MCHolderOf
    Expires <- MCExpires
    Second = 2
    MaxTime = 5
    MaxPause = 5
SPECIFICATION Spec
PROPERTY RetainRenews
CHECK_DEADLOCK FALSE
