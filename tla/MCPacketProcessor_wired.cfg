SPECIFICATION FairSpec
CONSTANTS
    none = none
    two = two
    wrong = wrong
    header = header
    code = code
    Codes = {code}
    Modules = {m1, m2}
    NoModule = NoModule
    Packets <- MCPackets
    NoPacket = NoPacket
    Invalid = {wrong}
    HeaderOnly = {header}
    Commands <- MCCommands
    ModuleThrows = {"out_of_range", "invalid_argument", "bad_alloc"}
    SerializerOutcomes = {"packet", "out_of_range"}
    MaxCalls = 3
    MaxChanges = 3
    MaxPackets = 2
CHECK_DEADLOCK FALSE
INVARIANTS
    TypeOK
    ResponseOfOnePacket
    ResponsesInOrder
PROPERTIES
    StoppedIsQuiet
    HaltReturns
    ReceptionDrains
