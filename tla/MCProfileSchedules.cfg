SPECIFICATION FairSpec
CONSTANTS
    Null = Null
    p1 = p1
    p2 = p2
    h1 = h1
    h2 = h2
    s1 = s1
    Profiles <- TwoProfiles
    Handlers <- OneHandler
    Sweepers <- OneSweeper
    MaxTime = 2
    MaxFaults = 1
INVARIANTS
    TypeOK
    OneDefault
    SweptOncePerFiring
    MarkedIsSwept
PROPERTIES
    DueIsSwept
CHECK_DEADLOCK FALSE
