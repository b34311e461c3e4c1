SPECIFICATION FairSpec
CONSTANTS
    Thread = {t1, t2, t3}
    Orig = 0
    LONG_MAX = 2
    MaxSignals = 2
PROPERTIES
    TimedWaitReturns
CHECK_DEADLOCK FALSE
