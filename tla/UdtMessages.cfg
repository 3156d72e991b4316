SPECIFICATION Spec
CONSTANTS
    Length <- MCLength
    Ordered = {3}
    Expiring = {1, 2, 3}
    Window = 2
    SndBufSize = 4
    RingSize = 5
    QueueSize = 3
    FullNum = 2
    FullDen = 3
    MaxUnits = 6
    Lost = {1, 2, 5}
    MaxDrops = 1
INVARIANTS
    WholeMessages
    OrderKept
PROPERTIES
    AllDelivered
CHECK_DEADLOCK FALSE
