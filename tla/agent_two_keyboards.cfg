SPECIFICATION Spec
CONSTANTS
    d1 = d1
    d2 = d2
    k1 = k1
    c1 = c1
    c2 = c2
    NoConn = NoConn
    NoCode = NoCode
    Device <- TwoDevices
    Caps <- TwoKeyboardCaps
    Code <- OneKey
    CodeCap <- OneKeyCaps
    Conn <- OneConn
    Sendable <- Presses
    BufferLimit = 2
    MaxSends = 2
    MaxSeatChanges = 7
    MaxCrashes = 0
PROPERTY
    ReleaseLifts
CHECK_DEADLOCK FALSE
