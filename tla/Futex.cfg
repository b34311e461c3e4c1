SPECIFICATION FairSpec
CONSTANTS
    Thread = {t1, t2, t3}
    VALUE_MAX = 2
    MaxSignals = 3
INVARIANTS
    NWaitersExact
    NoLostWakeup
PROPERTIES
    SleeperServed
    ImplementsSemaphore
CHECK_DEADLOCK FALSE
