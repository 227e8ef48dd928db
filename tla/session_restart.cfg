\* RESTART of a desktop that is not running.
SPECIFICATION Spec
CONSTANTS
    t1 = t1  t2 = t2
    Thread = {t1}
    May <- Anything
    MaxRuntimes = 3
    MaxFailures = 3
INVARIANTS RestartStarts
