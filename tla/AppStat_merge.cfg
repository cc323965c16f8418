\* Both modes, every error path, one primary move.  get_app_stat ends.
CONSTANTS
    NNodes = 3
    Apps = {1, 2}
    NPart <- MCNPart
    Replicas <- MCReplicas
    Primary0 <- MCPrimary0
    Targets <- MCTargets
    Metrics <- MCMetrics
    Fail <- MCFailAll
    MaxMoves = 1
SPECIFICATION Spec
INVARIANTS TypeOK CountedOnce NoDoubleCount
PROPERTIES Terminates
CHECK_DEADLOCK FALSE
