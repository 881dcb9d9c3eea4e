CONSTANTS
    r1 = r1
    q1 = q1
    f1 = f1
    f2 = f2
    None = None
    Robots = {r1}
    Requests = {f1, q1}
    Formations = {f1}
    Strict = {q1}
    Members <- FormationAndMotion
    Handlers = {h1, h2}
    MaxChannel = 1
    MaxFaults <- RepeatAndOutage
SPECIFICATION Spec
ACTION_CONSTRAINT OneFault
SYMMETRY HandlerSymmetry
INVARIANTS
    TypeOK
    SuccessIsShown
    AckedWasPerformed
    ReadyWasFormed
PROPERTIES
    LedgerSpec
