SPECIFICATION Spec
CONSTANTS
    Null = Null
    p1 = p1
    p2 = p2
    h1 = h1
    h2 = h2
    s1 = s1
    Profiles <- TwoProfiles
    Handlers <- TwoHandlers
    Sweepers <- NoSweepers
    MaxTime = 0
    MaxFaults = 0
INVARIANTS
    OneDefault
CHECK_DEADLOCK FALSE
