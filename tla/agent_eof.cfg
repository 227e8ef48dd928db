SPECIFICATION Spec
CONSTANTS
    d1 = d1
    d2 = d2
    k1 = k1
    c1 = c1
    c2 = c2
    NoConn = NoConn
    NoCode = NoCode
    Device <- OneDevice
    Caps <- OneDeviceCaps
    Code <- OneKey
    CodeCap <- OneKeyCaps
    Conn <- OneConn
    Sendable <- Presses
    BufferLimit = 3
    MaxSends = 2
    MaxSeatChanges = 3
    MaxCrashes = 0
PROPERTY
    WrittenIsPlayed
CHECK_DEADLOCK FALSE
