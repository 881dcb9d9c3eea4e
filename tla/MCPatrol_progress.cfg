\* One task of two goals, one caller, two runs in a row, a failing
\* transaction, a restart of the service.
SPECIFICATION FairSpec
CONSTANTS
    t1 = t1
    t2 = t2
    Tasks = {t1}
    Robots = {r1}
    Callers = {c1}
    Runs = {w1, w2}
    None = None
    Goals <- OneRoute
    HoldChecks = 2
    MaxDbErrors = 1
    MaxCrashes = 1
PROPERTIES
    CancelledRunEnds
    RunsEnd
CHECK_DEADLOCK FALSE
