\* Two chunks. The threshold of three packets is never reached by two new
\* chunks alone, so an ACK may be postponed that nothing but a retransmission
\* brings out.
CONSTANTS
    TotalChunks = 2
    LogicalWindow = 2
    SackCoverage = 2
    FastRetransmitThreshold = 1
    RepeatDelay = 1
    Rto = 1
    NoDecision = NoDecision
    File <- MCFile
    Blank = Blank
    Session = "this"
    StrayData <- NoPackets
    StrayAcks <- NoPackets
    AckPacketThreshold = 3
    AckInterval = 1
SPECIFICATION FairSpec
PROPERTIES
    KeepsDelivering
    EventuallyDone
