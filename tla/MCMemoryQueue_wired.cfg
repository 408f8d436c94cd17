SPECIFICATION Spec
CONSTANTS
    Producers = {p1}
    Consumers = {c1}
    empty = empty
    short = short
    long = long
    Packets <- MCPackets
    PacketSize <- MCPacketSize
    MaxPacketSize = 2
    DEFAULTMAXQUEUESIZE = 3
    Maxima = {1, 4}
    MaxLimit = 4
    WordModulus = 8
    MaxEntries = 4
    NoPacket = NoPacket
INVARIANTS
    TypeOK
    SizeIsBytesHeld
    BytesWithinLimit
    NoPopOutOfRange
PROPERTY
    ImplementsChannel
