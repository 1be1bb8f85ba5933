SPECIFICATION FairSpec
CONSTANTS
    m1 = m1
    m2 = m2
    Timers = {m1, m2}
    Args <- SomeArgs
    MaxTime = 3
    MaxRefs = 2
    Lag = 1
    Fifteen = 0
CHECK_DEADLOCK FALSE
INVARIANTS
    NoMissedTimer
PROPERTIES
    TimerFires
    DestroyReturns
