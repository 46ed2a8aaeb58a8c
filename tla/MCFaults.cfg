SPECIFICATION Spec
CONSTANTS
    NoPort = NoPort
    NoTCB = NoTCB
    server = server
    client = client
    other = other
    http = http
    mine = mine
    Port = {http, mine, e1, e2, e3}
    UserPort = {http, mine}
    EphemeralPort = {e1, e2, e3}
    Process = {server, client}
    Call <- Crossing
    MaxSeq = 8
    ISS <- MCISS4
    RawCopy = TRUE
    Fault = {"duplication"}
    MayExit = {client}
INVARIANTS
    OwnSynFiltered
    Agreement
    MapFollowsPort
SYMMETRY EphemeralSymmetry
CONSTRAINTS
    Monotonic
    Backlog
CHECK_DEADLOCK FALSE
