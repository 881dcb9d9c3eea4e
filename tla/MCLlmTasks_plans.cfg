\* Two threads, two plans of which the store keeps one, three executions, one
\* failing save or restart.
SPECIFICATION Spec
CONSTANTS
    x1 = x1
    x2 = x2
    Threads = {x1, x2}
    CodeOrder <- Spellings
    Canonical <- NormalForm
    DefaultRobot = "robot_001"
    TaskRefs = {"night", "tour", "p1"}
    Unset = "unset"
    Sentences <- TwoClauses
    Requests <- TwoRequests
    Fleets <- TwoFleets
    PatrolTasks <- SomeTasks
    MaxStored = 1
    MaxRuns = 3
    MaxFaults = 1
SYMMETRY Symmetry
INVARIANTS
    TypeOK
    ConfirmedBeforeMoving
    NoStepAfterWriteBack
    PlannerHearsStop
PROPERTIES
    AcknowledgedMotionRunsOut
CHECK_DEADLOCK FALSE
