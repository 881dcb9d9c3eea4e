CONSTANTS
    r1 = r1
    r2 = r2
    r3 = r3
    s1 = s1
    s2 = s2
    None = None
    Robots = {r1, r2, r3}
    Sessions = {s1, s2}
    Queue <- Queues
    Callers = {c1, c2}
    MaxCalls = 1
SPECIFICATION FairSpec
INVARIANTS
    TypeOK
    CurrentSessionRuns
    OneLateVelocity
PROPERTIES
    ReplacedSessionFallsSilent
