\* One robot, that the cache knows from the start or not, one request thread,
\* three commands, one outage.
SPECIFICATION Spec
CONSTANTS
    r1 = r1
    q1 = q1
    Robots = {r1}
    Requests = {q1}
    None = None
    Offered = {"cmd_vel", "inspect_road", "patrol_start", "capture_image"}
    MaxCommands = 3
    MaxOutages = 1
INVARIANTS
    TypeOK
PROPERTIES
    ShownStatusCatchesUp
CHECK_DEADLOCK FALSE
