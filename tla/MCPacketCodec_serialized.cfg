SPECIFICATION Spec
CONSTANTS
    ByteModulus = 8
    Q = 2
    WordBytes = 2
    R2CPMAGICNUMBER = 33
    RRCPMAGICNUMBER = 34
    Magics = {33, 34}
    CommandLists <- MCCommandLists
    Bytes = {0}
    MaxChanges = 1
CHECK_DEADLOCK FALSE
INVARIANT
    ResponsesAreSerialized
