SPECIFICATION FairSpec
CONSTANTS
    Thread = {t1, t2, t3}
    Orig = 1
    LONG_MAX = 2
    MaxSignals = 4
INVARIANTS
    WakeupsConserved
    NoUseAfterFree
PROPERTIES
    BalancedWaitersReturn
    ImplementsSemaphore
CHECK_DEADLOCK FALSE
