\* Threshold 2 with six chunks lets chunk 0 be fast retransmitted twice; a
\* window of 2 and a coverage of 5 close both before the file ends.
CONSTANTS
    TotalChunks = 6
    LogicalWindow = 2
    SackCoverage = 5
    FastRetransmitThreshold = 2
    RepeatDelay = 1
    Rto = 2
    NoDecision = NoDecision
SPECIFICATION DriverSpec
INVARIANTS
    DriverTypeOK
    OutstandingExact
    BaseIsFirstHole
    SpanWithinSack
    RetransmissionTracked
    DeadEntriesAreAcked
    SelectionIsSendable
    EvidenceIsPast
    FastRetransmitBudget
    RetransmissionsSpaced
