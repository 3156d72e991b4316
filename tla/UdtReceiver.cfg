SPECIFICATION Spec
CONSTANTS
    MaxSeqNo = 23
    SeqNoTH = 11
    RcvBufSize = 6
    LossListSize = 6
    ISNs = {0}
    Lens = {2}
    ReadSizes = {1, 3}
    Ahead = 6
    Late = 1
    Unread = 6
    NULL = NULL
INVARIANTS
    ListIsHoles
    RingIsStream
    ReadsTheNextByte
    RoomNeverOverstated
