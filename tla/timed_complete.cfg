\* A timeout of 4 ticks and a TIME_WAIT of 12, as 1 s and 3 s; the other times
\* are the largest that the assumption allows.
CONSTANTS
    ControlTimeout = 4
    ControlAttempts = 5
    TimeWait = 12
    MaxDelay = 1
    MaxLate = 1
    MaxSync = 13
SPECIFICATION Spec
INVARIANTS
    FailureNeedsLosses
