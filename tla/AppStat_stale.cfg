\* No failure; one primary move between a reply and list_app.
CONSTANTS
    NNodes = 3
    Apps = {1, 2}
    NPart <- MCNPart
    Replicas <- MCReplicas
    Primary0 <- MCPrimary0
    Targets <- MCTargets
    Metrics <- MCMetrics
    Fail <- MCFailNone
    MaxMoves = 1
SPECIFICATION Spec
INVARIANT PrimaryReportsOnly
CHECK_DEADLOCK FALSE
