SPECIFICATION FairSpec
CONSTANTS
    first = first
    second = second
    third = third
    http = http
    mine = mine
    UserPort = {http, mine}
    EphemeralPort = {http, e1}
    peer = peer
    Port = {http, mine, e1, peer}
    Incoming <- MCIncoming
    Call <- MCCall
    Plan <- MCPlan
    Dropper <- MCDropper
    Failure = {"startup", "socket", "bind", "recv"}
    NoKey = NoKey
    NullBlock = NullBlock
    Nobody = Nobody
INVARIANTS
    TypeOK
    NullBlockNeedsTwoCallers
    HandlesFindTheirBlock
    HeapCorruptedByDroppers
PROPERTIES
    ListenerGetsMutex
    CleanupEndsProcess
CHECK_DEADLOCK FALSE
