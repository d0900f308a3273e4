CONSTANTS
    c1 = c1
    c2 = c2
    o1 = o1
    o2 = o2
    m1 = m1
    m2 = m2
    None = None
    Clients <- MCClients
    Writers <- MCClients
    Objects <- MCObjects
    Types <- MCTypes
    Metas <- MCOneMeta
    MaxId = 4
SPECIFICATION Spec
SYMMETRY MCSymmetry
INVARIANT PairsSymmetric
CHECK_DEADLOCK FALSE
