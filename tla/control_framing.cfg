\* One connection whose stream fails.
SPECIFICATION Spec
CONSTANTS
    t1 = t1  t2 = t2  p1 = p1
    Thread = {t1}
    Peer = {p1}
    From <- OneOrigin
    MaxFailures = 2
    Window = 2
    MaxTime = 1
INVARIANT UpgradedIsFramed
