CONSTANTS
    c1 = c1
    c2 = c2
    o1 = o1
    o2 = o2
    m1 = m1
    m2 = m2
    None = None
    Clients <- MCClients
    Writers <- MCWriters
    Objects <- MCObjects
    Types <- MCTypes
    Metas <- MCMetas
    MaxId = 4
SPECIFICATION Spec
SYMMETRY MCSymmetry
INVARIANT TypeOK
INVARIANT PairsSymmetric
INVARIANT AssocInv
PROPERTY ImplementsAssocGraph
CHECK_DEADLOCK FALSE
