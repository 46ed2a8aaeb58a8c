SPECIFICATION Spec
CONSTANTS
    NoPort = NoPort
    Port = {up, e1}
    EphemeralPort = {e1}
    UserPort = up
    MaxSeq = 2
    Incoming <- MCIncoming
INVARIANTS
    TypeOK
    SnapshotHolds
    AnswerUndisturbed
    SequenceVariables
    PeerIsHeard
PROPERTIES
    EstablishedByAck
    ResetNotAnswered
    ImplementsConnection
CHECK_DEADLOCK FALSE
