SPECIFICATION Spec
CONSTANTS
    Connectors <- Tools
    ConnectorType <- ToolType
    Profiles <- SomeProfiles
    Releases <- SomeReleases
INVARIANTS
    TypeOK
    NeverHarsher
    RejectionExplained
    EmptyHandedFails
    PlanMatches
    OrderIndependent
CHECK_DEADLOCK FALSE
