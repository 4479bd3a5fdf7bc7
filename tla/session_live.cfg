\* No crash of the server; one of the two clients has a rate of zero and ends
\* with the server occupied; the server is started again once it has served
\* the other.
CONSTANTS
    Clients = {c1, c2}
    Chunks = {0, 1}
    WrongMtu = {}
    ZeroRate = {c2}
    Killable = {}
    ControlAttempts = 2
    MaxStarts = 2
    MaxCrashes = 0
    NoClient = NoClient
    Blank = Blank
SPECIFICATION FairSpec
PROPERTIES
    ClientsEnd
