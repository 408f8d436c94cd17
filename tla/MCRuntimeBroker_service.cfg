SPECIFICATION LeavingSpec
CONSTANTS
    one = one
    code = code
    Connections = {c1, c2}
    NoConnection = NoConnection
    Codes = {code}
    Modules = {m1}
    NoModule = NoModule
    Packets = {one}
    NoPacket = NoPacket
    Invalid = {}
    HeaderOnly = {}
    Commands <- MCCommands
    ModuleThrows = {}
    SerializerOutcomes = {"packet"}
    MaxChanges = 1
    MaxPackets = 2
CHECK_DEADLOCK FALSE
PROPERTIES
    ImplementsService
    QuitEnds
