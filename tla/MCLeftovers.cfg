SPECIFICATION Spec
CONSTANTS
    NoPort = NoPort
    NoTCB = NoTCB
    server = server
    client = client
    other = other
    http = http
    mine = mine
    Port = {http, mine, e1, e2, e3}
    UserPort = {http, mine}
    EphemeralPort = {e1, e2, e3}
    Process = {server, client, other}
    Call <- TwoClients
    MaxSeq = 8
    ISS <- MCISS4
    RawCopy = TRUE
    Fault = {}
    MayExit = {client}
INVARIANTS
    Agreement
    AnswersAreUnique
PROPERTIES
    ResetReachesListener
SYMMETRY EphemeralSymmetry
CONSTRAINTS
    Monotonic
    OneAfterTheOther
    Backlog
CHECK_DEADLOCK FALSE
