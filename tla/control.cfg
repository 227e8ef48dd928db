\* Two connections of one peer; two failures within two ticks block it.
SPECIFICATION Spec
CONSTANTS
    t1 = t1  t2 = t2  p1 = p1
    Thread = {t1, t2}
    Peer = {p1}
    From <- OneOrigin
    MaxFailures = 2
    Window = 2
    MaxTime = 3
INVARIANTS TypeOK FailuresBounded
PROPERTIES AdmittedUnderLimit RefusedForAReason HungUpIsReleased
