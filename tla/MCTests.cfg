SPECIFICATION Spec
CONSTANTS
    NoPort = NoPort
    Port = {passive, active, closed, mock}
    PASSIVE_LOCAL_PORT = passive
    ACTIVE_LOCAL_PORT = active
    ACTIVE_FOREIGN_PORT_CLOSED = closed
    MockPort = mock
    MaxSeq = 7
    ANY_NUMBER = 5
    Garbage <- MCGarbage
INVARIANTS
    TypeOK
    SectionsPass
    ErrorsAreOwn
    SilenceIsADrop
    StrayThreadsAreOfHandshakes
CHECK_DEADLOCK FALSE
