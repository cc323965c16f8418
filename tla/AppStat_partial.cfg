\* A reply fails; no primary moves.
CONSTANTS
    NNodes = 3
    Apps = {1, 2}
    NPart <- MCNPart
    Replicas <- MCReplicas
    Primary0 <- MCPrimary0
    Targets <- MCTargetsAll
    Metrics <- MCMetrics
    Fail <- MCFailReply
    MaxMoves = 0
SPECIFICATION Spec
INVARIANT TrueMeansComplete
CHECK_DEADLOCK FALSE
