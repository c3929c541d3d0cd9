SPECIFICATION Spec
CONSTANTS
    Writer = {w1, w2}
    Capacity = 4
    Self = Self
    Free = Free
    HeldAge = FALSE
    None = None
CHECK_DEADLOCK FALSE
INVARIANT UnitsExclusive
