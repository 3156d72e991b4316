CONSTANTS
    MaxSeqNo = 15
    SeqNoTH = 7
    Window = 3
    SndBufSize = 4
    Delay = 2
SPECIFICATION Spec
INVARIANTS
    CountIsHeld
    OrderIsAge
