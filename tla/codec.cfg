\* Bytes of three bits, the fewest that hold the packet types and flags; a
\* bitmap of two bytes; a file of two chunks, of which the last is shorter.
CONSTANTS
    ByteBits = 3
    Magic = 2749
    AckBitmapBits = 6
    SessionId = 300
    FileSize = 3
    ChunkSize = 2
    Packets <- MCPackets
SPECIFICATION Spec
CHECK_DEADLOCK FALSE
INVARIANTS
    RoundTrip
    NothingMisread
