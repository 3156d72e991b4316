SPECIFICATION Spec
CONSTANTS
    N = 3
    Versions = {0, 1}
    Blocks = 2
    Boundary = 0
    StallLimit = 3
    MaxKills = 2
INVARIANTS
    ProtocolAgreed
    ExitTellsFailure
PROPERTIES
    EveryoneEnds
CHECK_DEADLOCK FALSE
