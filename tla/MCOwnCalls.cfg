SPECIFICATION Spec
CONSTANTS
    NoPort = NoPort
    NoTCB = NoTCB
    server = server
    client = client
    other = other
    http = http
    mine = mine
    Port = {http, mine, e1, e2}
    UserPort = {http, mine}
    EphemeralPort = {e1, e2}
    Process = {server, client}
    Call <- OneClient
    MaxSeq = 6
    ISS <- MCISS3
    RawCopy = FALSE
    Fault = {}
    MayExit = {client}
INVARIANTS
    OwnCallsFiltered
CHECK_DEADLOCK FALSE
