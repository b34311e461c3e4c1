SPECIFICATION Spec
CONSTANTS
    Client = {c1, c2, c3}
    Worker = {w1}
    NULL = NULL
    DQ = DQ
    dq_width = 1
    Kinds = {"async", "sync"}
    Calls = 3
    MaxSuspends = 1
SYMMETRY Symmetry
INVARIANTS BarrierExclusive OrderUnlessSuspended NothingLost RefsBalanced
CHECK_DEADLOCK FALSE
