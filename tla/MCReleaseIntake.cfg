SPECIFICATION FairSpec
CONSTANTS
    r1 = r1
    r2 = r2
    c1 = c1
    c2 = c2
    alien = alien
    k1 = k1
    k2 = k2
    Requests <- TwoRequests
    Connectors <- TwoConnectors
    Foreign <- OneForeign
    Credentials <- TwoCredentials
    Refs <- SomeRefs
    Single <- OfNobody
    Imports <- Lists
    MaxSecrets = 2
    Budget = 4
INVARIANTS
    TypeOK
    EditsHold
    OneConnectorEach
    ArtifactsAnchored
CHECK_DEADLOCK FALSE
PROPERTY TagLands
