\* One client over either socket.
SPECIFICATION Spec
CONSTANTS
    Sendable <- Frames
    Sockets = {TRUE, FALSE}
    PipeLimit = 6
    Chunk = 3
    PendingLimit = 7
    MaxFrames = 3
INVARIANTS TypeOK InOrder NothingRejected
PROPERTIES SentIsPlayed EndIsSeen
CHECK_DEADLOCK FALSE
