SPECIFICATION FairSpec
CONSTANTS
    NoPort = NoPort
    NoTCB = NoTCB
    server = server
    client = client
    other = other
    http = http
    mine = mine
    Port = {http, mine, e1, e2}
    UserPort = {http, mine}
    EphemeralPort = {e1, e2}
    Process = {server, client}
    Call <- OneClient
    MaxSeq = 6
    ISS <- MCISS3
    RawCopy = FALSE
    Fault = {}
    MayExit = {}
INVARIANTS
    TypeOK
    OwnSynFiltered
    MapFollowsPort
    NobodyDies
PROPERTIES
    ImplementsHandshake
    HandshakeCompletes
    SegmentsSettle
CHECK_DEADLOCK FALSE
