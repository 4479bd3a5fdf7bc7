\* A bucket of 12, packets of a third of it, of more than two thirds, and
\* larger than it; a rate that divides none of them; a longest sleep that is
\* shorter than what the largest packet needs.
CONSTANTS
    Rate = 2
    BurstCapacity = 12
    PacketSizes = {3, 4, 9, 15}
    MaximumWait = 5
    MaxSince = 9
SPECIFICATION FairSpec
INVARIANTS
    RateBound
    OversleepKept
PROPERTIES
    SlotGranted
