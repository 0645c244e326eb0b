SPECIFICATION FairSpec
CONSTANTS
    h1 = h1
    h2 = h2
    w1 = w1
    w2 = w2
    a1 = a1
    Handlers <- TwoHandlers
    Workers <- OneWorker
    Artifacts <- OneArtifact
    Ops <- KeepStatusOps
    MaxLaunches = 2
    MaxFaults = 0
INVARIANTS
    NeverOrphaned
PROPERTIES
    VerificationEnds
CHECK_DEADLOCK FALSE
