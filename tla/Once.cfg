SPECIFICATION FairSpec
CONSTANTS
    Thread = {t1, t2, t3, t4}
    NULL = NULL
    DONE = DONE
INVARIANTS
    RunsOnce
    WaitersAlive
    SemaphoreClean
PROPERTIES
    CallersReturn
CHECK_DEADLOCK FALSE
