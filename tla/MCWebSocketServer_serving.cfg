SPECIFICATION Spec
CONSTANTS
    Connections = {c1, c2, c3}
    NoConnection = NoConnection
    MaxCalls = 2
    MaxPackets = 2
SYMMETRY ConnectionSymmetry
CHECK_DEADLOCK FALSE
INVARIANTS
    TypeOK
    FlagVouchesForHandle
    OnlyOperatorsHeard
    SentInOrder
    SendNeverMeetsOwnClose
    HaltLeavesNoConnection
PROPERTY
    ConnectionsLive
