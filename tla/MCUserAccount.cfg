SPECIFICATION FairSpec
CONSTANTS
    r1 = r1
    r2 = r2
    old = old
    new = new
    Requests <- TwoRequests
    Passwords <- TwoPasswords
    MaxAttempts = 2
    MaxSessions = 2
    MaxFresh = 2
    Budget = 3
INVARIANTS
    TypeOK
    RowsCoherent
    IsolatedRevocation
    IsolatedLinks
    IsolatedEdits
PROPERTIES
    OwnerRecovers
CHECK_DEADLOCK FALSE
