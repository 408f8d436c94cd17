SPECIFICATION Spec
CONSTANTS
    Producers = {p1, p2, p3}
    Consumers = {c1, c2}
    empty = empty
    short = short
    long = long
    Packets <- MCPackets
    PacketSize <- MCPacketSize
    MaxPacketSize = 2
    DEFAULTMAXQUEUESIZE = 2
    Maxima = {1, 2}
    MaxLimit = 2
    WordModulus = 16
    MaxEntries = 2
    NoPacket = NoPacket
SYMMETRY ThreadSymmetry
CHECK_DEADLOCK FALSE
INVARIANT
    BytesWithinCapacity
