SPECIFICATION FairSpec
CONSTANTS
    MaxSends = 2
    MaxReads = 2
CHECK_DEADLOCK FALSE
INVARIANTS
    TypeOK
    WrittenInOrder
    NothingAfterClose
    MessagesInSession
PROPERTIES
    ImplementsLife
    OutputDrains
    ExchangesEnd
