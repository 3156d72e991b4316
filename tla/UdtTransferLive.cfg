CONSTANTS
    N = 2
    FileBlocks = 2
    Chunk = 1
    SndBufSize = 2
    RcvBufSize = 2
    CWnds = {2}
    NetCap = 3
    NULL = NULL
SPECIFICATION FairSpec
PROPERTIES
    AllDelivered
