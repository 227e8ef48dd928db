SPECIFICATION Spec
CONSTANTS
    d1 = d1
    d2 = d2
    k1 = k1
    c1 = c1
    c2 = c2
    NoConn = NoConn
    NoCode = NoCode
    Device <- TwoDevices
    Caps <- SplitCaps
    Code <- OneKey
    CodeCap <- OneKeyCaps
    Conn <- TwoConns
    Sendable <- KeyEvents
    BufferLimit = 1
    MaxSends = 2
    MaxSeatChanges = 6
    MaxCrashes = 1
INVARIANTS
    TypeOK
    HeldByCurrentClient
    NoEmulationWithoutClient
    TableAgrees
PROPERTIES
    ImplementsSeat
    ReleaseLifts
    ClosedIsReleased
    WaitingIsAnswered
    
CHECK_DEADLOCK FALSE
