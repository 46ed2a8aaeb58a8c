SPECIFICATION Spec
CONSTANTS
    NoPort = NoPort
    NoTCB = NoTCB
    server = server
    client = client
    other = other
    http = http
    mine = mine
    Port = {http, mine, e1, e2, e3}
    UserPort = {http, mine}
    EphemeralPort = {e1, e2, e3}
    Process = {server, client, other}
    Call <- TwoClients
    MaxSeq = 8
    ISS <- MCISS4
    RawCopy = FALSE
    Fault = {"loss"}
    MayExit = {client}
PROPERTIES
    ImplementsHandshake
SYMMETRY EphemeralSymmetry
CONSTRAINTS
    Monotonic
    ListenerFirst
CHECK_DEADLOCK FALSE
