\* One lifecycle request at a time, and a second thread that provisions; the daemon may
\* die at any step.
SPECIFICATION Spec
CONSTANTS
    t1 = t1  t2 = t2
    Thread = {t1, t2}
    May <- OneAtATime
    MaxRuntimes = 3
    MaxFailures = 3
INVARIANTS TypeOK HasItsRuntime FindsItsDirectories StoppedIsClean
PROPERTIES StartsFresh UnderwaySucceeds RequestsEnd
