CONSTANTS
    Callers = {c1, c2}
    Motions = {m1, m2}
    None = None
    Zero = Zero
    Once = Once
    Closers = {c1}
    MaxPublishes = 2
SPECIFICATION Spec
SYMMETRY Symmetry
INVARIANTS
    TypeOK
    OwnerIsStoppable
    LateMessagesAreBounded
    UncancelledMotionEndsStopped
PROPERTIES
    SlotSpec
CHECK_DEADLOCK FALSE
