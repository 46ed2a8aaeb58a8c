SPECIFICATION Spec
CONSTANTS
    NoPort = NoPort
    Port = {up, e1}
    EphemeralPort = {e1}
    UserPort = up
    MaxSeq = 2
    Incoming <- MCIncoming
PROPERTIES
    AckOfIssEstablishes
CHECK_DEADLOCK FALSE
