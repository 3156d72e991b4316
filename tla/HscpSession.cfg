CONSTANTS
    Walk <- MCWalk
    Protocols = {0, 1}
    Faults = {"open", "create", "chmod", "utimes", "resize", "kill", "dirtimes", "shrink", "gone",
              "break", "nobuffer"}
    MaxFaults = 2
SPECIFICATION Spec
INVARIANTS
    InStep
    RightContents
    SuccessIsComplete
PROPERTIES
    Termination
CHECK_DEADLOCK FALSE
