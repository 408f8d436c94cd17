SPECIFICATION Spec
CONSTANTS
    Connections = {c1, c2, c3}
    NoConnection = NoConnection
    MaxCalls = 1
    MaxPackets = 1
CHECK_DEADLOCK FALSE
INVARIANT
    OneOperator
