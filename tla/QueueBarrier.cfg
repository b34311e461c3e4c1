SPECIFICATION Spec
CONSTANTS
    Client = {c1, c2}
    Worker = {w1}
    NULL = NULL
    DQ = DQ
    dq_width = 4
    Kinds = {"sync", "barrier_sync"}
    Calls = 3
    MaxSuspends = 0
SYMMETRY Symmetry
INVARIANTS BarrierExclusive
CHECK_DEADLOCK FALSE
