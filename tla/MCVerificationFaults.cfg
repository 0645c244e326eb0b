SPECIFICATION Spec
CONSTANTS
    h1 = h1
    h2 = h2
    w1 = w1
    w2 = w2
    a1 = a1
    Handlers <- OneHandler
    Workers <- OneWorker
    Artifacts <- OneArtifact
    Ops <- FaultOps
    MaxLaunches = 2
    MaxFaults = 1
INVARIANTS
    DriftBacked
    Cancellable
PROPERTIES
    KeepsPromise
CHECK_DEADLOCK FALSE
