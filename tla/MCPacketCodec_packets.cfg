SPECIFICATION Spec
CONSTANTS
    ByteModulus = 8
    Q = 2
    WordBytes = 2
    R2CPMAGICNUMBER = 33
    RRCPMAGICNUMBER = 34
    Magics = {33}
    CommandLists <- MCCommandLists
    Bytes = {0, 1, 2, 3, 4, 7}
    MaxChanges = 2
CHECK_DEADLOCK FALSE
INVARIANTS
    AcceptedParses
    NothingLost
    CommandsArrive
    OnlyKnownCommands
    SizeIsTheFormats
    TextCarriesPacket
