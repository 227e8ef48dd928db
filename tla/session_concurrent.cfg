\* Two requests at once.
SPECIFICATION Spec
CONSTANTS
    t1 = t1  t2 = t2
    Thread = {t1, t2}
    May <- Anything
    MaxRuntimes = 3
    MaxFailures = 3
INVARIANTS HasItsRuntime
