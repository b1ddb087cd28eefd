SPECIFICATION Spec
CONSTANTS
    Batches = {b1, b2}
    NoBatch = NoBatch
    MaxActs = 4
INVARIANTS
    ClosedIsIdle
PROPERTIES
    ImplementsLine
    CloseSettles
CHECK_DEADLOCK FALSE
