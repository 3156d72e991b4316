SPECIFICATION Spec
CONSTANTS
    Clients = {c1}
    Attempts = 1
    Backlog = 1
    MaxSockets = 2
    BrokenRounds = 1
    Tidy = {TRUE, FALSE}
    None = None
INVARIANTS
    OneSocketPerRequest
    NoDangling
    RefCountIsSockets
PROPERTIES
    CleanupEnds
    BrokenAreFreed
CHECK_DEADLOCK FALSE
