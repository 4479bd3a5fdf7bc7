\* Three chunks, a window of two chunks and a bitmap of two bits.
CONSTANTS
    TotalChunks = 3
    LogicalWindow = 2
    SackCoverage = 2
    FastRetransmitThreshold = 1
    RepeatDelay = 1
    Rto = 1
    NoDecision = NoDecision
    File <- MCFile
    Blank = Blank
    Session = "this"
    StrayData <- MCStrayData
    StrayAcks <- MCStrayAcks
    AckPacketThreshold = 2
    AckInterval = 1
SPECIFICATION Spec
INVARIANTS
    TypeOK
    SnapshotLossless
    AckedWasReceived
    DoneMeansDelivered
    WaitingIsTimed
PROPERTIES
    ImplementsDelivery
