\* Seven chunks and a bitmap of four: gaps inside, at the edge of and beyond
\* the reach of the bitmap.
CONSTANTS
    TotalChunks = 7
    SackCoverage = 4
SPECIFICATION TrackerSpec
INVARIANTS
    TrackerTypeOK
    CountExact
    SnapshotExact
PROPERTIES
    SnapshotMonotonic
CHECK_DEADLOCK FALSE
