\* Two clients that could succeed, both of which may be killed, and a third
\* with another MTU; two chunks; the server is started twice and crashes or
\* fails at most once.
CONSTANTS
    Clients = {c1, c2, c3}
    Chunks = {0, 1}
    WrongMtu = {c3}
    ZeroRate = {}
    Killable = {c1, c2}
    ControlAttempts = 2
    MaxStarts = 2
    MaxCrashes = 1
    NoClient = NoClient
    Blank = Blank
SPECIFICATION Spec
INVARIANTS
    TypeOK
    SuccessMeansStored
    OutputIsOwners
    ConfirmedIsReceived
PROPERTIES
    OwnerKept
    StoredKept
