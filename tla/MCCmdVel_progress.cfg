CONSTANTS
    Callers = {c1, c2}
    Motions = {m1, m2}
    None = None
    Zero = Zero
    Once = Once
    Closers = {c1}
    MaxPublishes = 1
SPECIFICATION ProgressSpec
PROPERTIES
    StartedMotionEnds
    CallsReturn
CHECK_DEADLOCK FALSE
