CONSTANTS
    t1 = t1
    t2 = t2
    t3 = t3
    Threads <- MCThreads
    InitialCapacity = 2
    MinCapacity = 1
    MaxCapacity = 3
    AdjustAmount = 1
    Desired <- MCDesired
    DelegateCapacity = 3
    IntMax = 15
    MaxLost = 1
SPECIFICATION FairSpec
INVARIANT TypeOK
INVARIANT SizeAccounts
INVARIANT Bounded
PROPERTY SomeCallReturns
PROPERTY AdjustsTowards
