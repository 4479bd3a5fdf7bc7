\* Widths of 6, 8 and 64 values and an overhead of 1, so that MTUs of 2 to 5 are
\* valid; chunks of 1 or 2 bytes need a larger window than the bitmap.  Some
\* files need too many chunks, some have more bytes than a U32 holds, and two
\* MTU arguments are 4 and 5 only after truncation.  On one of the paths DATA of
\* an MTU of 5 fits only when the file is short.
CONSTANTS
    U16 = 6
    U32 = 8
    U64 = 64
    Overhead = 1
    DefaultWindowBytes = 7
    DefaultAckBitmapBits = 3
    MtuArguments = {1, 3, 4, 5, 6, 12, 13}
    FileSizes = {0, 1, 3, 11, 12, 21, 22, 28, 29}
    PathMtus = {4, 6}
SPECIFICATION FairSpec
INVARIANTS
    BytesInPlace
    HonestStartIsAnswered
PROPERTIES
    AcceptedIsDelivered
