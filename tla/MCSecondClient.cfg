SPECIFICATION Spec
CONSTANTS
    NoPort = NoPort
    NoTCB = NoTCB
    server = server
    client = client
    other = other
    http = http
    mine = mine
    Port = {http, mine, e1, e2, e3}
    UserPort = {http, mine}
    EphemeralPort = {e1, e2, e3}
    Process = {server, client, other}
    Call <- TwoClients
    MaxSeq = 6
    ISS <- MCISS3
    RawCopy = FALSE
    Fault = {}
    MayExit = {}
INVARIANTS
    ListenAssertion
CHECK_DEADLOCK FALSE
