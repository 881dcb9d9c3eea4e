\* Two inspections, two tasks of the monitor, three settings, each with a minute
\* that passes or a crash.
SPECIFICATION Spec
CONSTANTS
    None = None
    MaxInspections = 2
    m1 = m1
    m2 = m2
    Loops = {m1, m2}
    Requests <- MCRequests
    Configured <- Road
    ResultRequests <- MCResultRequests
    Finds <- MCFinds
    Cases <- MCCases
SYMMETRY Tasks
INVARIANTS
    TypeOK
    RiskIsAlarmedOnce
    AlarmKeepsItsPicture
CHECK_DEADLOCK FALSE
