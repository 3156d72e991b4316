SPECIFICATION Spec
CONSTANTS
    Sockets = {s1, s2, s3, s4}
    MaxDelay = 1
    MaxLate = 0
    MaxUpdates = 6
    None = None
SYMMETRY Interchangeable
INVARIANTS
    LocIsPlace
    NoLostWakeup
CHECK_DEADLOCK FALSE
