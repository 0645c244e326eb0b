SPECIFICATION Spec
CONSTANTS
    r1 = r1
    r2 = r2
    ana = ana
    ben = ben
    eva = eva
    acme = acme
    umbra = umbra
    None = None
    Requests <- TwoRequests
    Users <- People
    Orgs <- Companies
    Budget = 3
SYMMETRY Symmetry
INVARIANTS
    TypeOK
    ActiveIsMember
    OwnerIsMember
    NeverAStranger
CHECK_DEADLOCK FALSE
