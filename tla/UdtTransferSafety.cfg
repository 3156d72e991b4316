CONSTANTS
    N = 3
    FileBlocks = 3
    Chunk = 2
    SndBufSize = 2
    RcvBufSize = 3
    CWnds = {1, 3}
    NetCap = 2
    NULL = NULL
SPECIFICATION Spec
INVARIANTS
    RingHasRoom
    NeverSuspectsPeer
    LossIsScheduled
PROPERTIES
    AcksNeverRetreat
    IsReliableStream
