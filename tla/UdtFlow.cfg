SPECIFICATION Spec
CONSTANTS
    Header = 1
    MinMss = 2
    MinWindow = 4
    Default <- MCDefault
    ClientConfs <- MCClientConfs
    ServerConfs <- MCServerConfs
    CwndInit = 3
    CwndLater = {5}
    HistorySize = 3
    Total = 5
    MaxAcks = 3
    NetCap = 2
CHECK_DEADLOCK FALSE
INVARIANTS
    PacketsFit
    NeverOverruns
    AckAckIsKnown
