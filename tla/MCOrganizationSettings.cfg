SPECIFICATION Spec
CONSTANTS
    r1 = r1
    r2 = r2
    i1 = i1
    i2 = i2
    i3 = i3
    n1 = n1
    n2 = n2
    Requests <- TwoRequests
    Ids <- ThreeIds
    Names <- TwoNames
    MaxKeys = 2
    Budget = 4
INVARIANTS
    TypeOK
    EditsHold
    KeysLimited
    Coherent
PROPERTY DefaultFrozen
CHECK_DEADLOCK FALSE
