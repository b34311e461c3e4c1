SPECIFICATION Spec
CONSTANTS
    Thread = {t1, t2}
    Block = {b1}
    NULL = NULL
    ORIG = 2
    MaxWaits = 0
INVARIANTS
    NotifyAfterEmpty
CHECK_DEADLOCK FALSE
