SPECIFICATION Spec
CONSTANTS
    Client = {c1, c2}
    Worker = {w1}
    NULL = NULL
    DQ = DQ
    dq_width = 1
    Kinds = {"async", "sync"}
    Calls = 3
    MaxSuspends = 1
SYMMETRY Symmetry
INVARIANTS ProgramOrder
CHECK_DEADLOCK FALSE
