\* Two tasks that share their robot codes, two callers, two runs, a restart.
SPECIFICATION Spec
CONSTANTS
    t1 = t1
    t2 = t2
    Tasks = {t1, t2}
    Robots = {r1, r2}
    Callers = {c1, c2}
    Runs = {w1, w2}
    None = None
    Goals <- ShortRoutes
    HoldChecks = 1
    MaxDbErrors = 0
    MaxCrashes = 1
SYMMETRY Symmetry
INVARIANTS
    TypeOK
    LiveRunCanBeStopped
    OneRunPerRobot
    AtMostOneLateGoal
PROPERTIES
    LeaseSpec
CHECK_DEADLOCK FALSE
