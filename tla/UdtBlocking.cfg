SPECIFICATION Spec
CONSTANTS
    Blocks = 2
    SndBufSize = 1
    Coming = 1
    Wanted = 2
    Closers = {c1}
    None = None
INVARIANTS
    NoSignalMissed
    LingerKeepsData
PROPERTIES
    NothingAfterClose
    CallsReturn
    CloseReturns
CHECK_DEADLOCK FALSE
