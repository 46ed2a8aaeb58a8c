SPECIFICATION Spec
CONSTANTS
    Sent <- MCSent
    Foreign <- MCForeign
INVARIANTS
    FilledAsRFC793
    ParsedAsSent
    OptionsWithinHeader
    SegLenIsPayload
    RawHeadersAgree
PROPERTIES
    ParsingEnds
CHECK_DEADLOCK FALSE
