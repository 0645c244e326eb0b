SPECIFICATION Spec
CONSTANTS
    r1 = r1
    r2 = r2
    c1 = c1
    c2 = c2
    alien = alien
    k1 = k1
    k2 = k2
    Requests <- TwoRequests
    Connectors <- TwoConnectors
    Foreign <- OneForeign
    Credentials <- TwoCredentials
    Refs <- SomeRefs
    Single <- OfNobody
    Imports <- Lists
    MaxSecrets = 2
    Budget = 1
INVARIANT WebhookLaunches
CHECK_DEADLOCK FALSE
