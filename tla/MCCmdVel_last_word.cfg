CONSTANTS
    Callers = {c1}
    Motions = {m1}
    None = None
    Zero = Zero
    Once = Once
    Closers = {c1}
    MaxPublishes = 2
SPECIFICATION Spec
INVARIANT StopHasTheLastWord
CHECK_DEADLOCK FALSE
