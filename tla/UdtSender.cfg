SPECIFICATION Spec
CONSTANTS
    MaxSeqNo = 15
    SeqNoTH = 7
    UnitSize = 2
    MaxBlocks = 6
    SndBufSize = 3
    Chunks = {2}
    Window = 4
    LossListSize = 8
    ISNs = {0}
    NULL = NULL
INVARIANTS
    LossListIsLost
    BlocksAreStream
    RetransmitsRightBlock
CHECK_DEADLOCK FALSE
