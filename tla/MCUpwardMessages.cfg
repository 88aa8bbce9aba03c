SPECIFICATION Spec
CONSTANTS
    UserTypes <- MCUserTypes
    SessionTypes <- MCSessionTypes
    Sizes <- MCSizes
    Intervals <- MCIntervals
    MaxMessagePayloadSize = 1
    MaxMessagesPerCommit = 2
    MaxNonce = 4
    MaxBlock = 7
INVARIANTS
    TypeOK
    NoncesContiguous
    WaitIsBounded
PROPERTIES
    ImplementsChannel
CHECK_DEADLOCK FALSE
