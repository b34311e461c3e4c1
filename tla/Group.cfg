SPECIFICATION Spec
CONSTANTS
    Thread = {t1, t2, t3}
    Block = {b1, b2}
    NULL = NULL
    ORIG = 2
    MaxWaits = 2
SYMMETRY Symmetry
INVARIANTS
    WaitersCovered
    NotifiedOnce
    RefsBalanced
    NoWaiterStranded
PROPERTIES
    WaitReturnsAfterEmpty
CHECK_DEADLOCK FALSE
