SPECIFICATION Spec
CONSTANTS
    h1 = h1
    h2 = h2
    w1 = w1
    w2 = w2
    a1 = a1
    Handlers <- TwoHandlers
    Workers <- TwoWorkers
    Artifacts <- OneArtifact
    Ops <- RaceOps
    MaxLaunches = 2
    MaxFaults = 0
SYMMETRY Symmetry
INVARIANTS
    TypeOK
    VerdictBacked
    OneResultPerLaunch
    RollbackTarget
CHECK_DEADLOCK FALSE
