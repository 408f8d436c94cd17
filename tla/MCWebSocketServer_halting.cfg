SPECIFICATION LeavingSpec
CONSTANTS
    Connections = {c1, c2}
    NoConnection = NoConnection
    MaxCalls = 3
    MaxPackets = 2
CHECK_DEADLOCK FALSE
PROPERTIES
    HaltReturns
    QueueDrains
