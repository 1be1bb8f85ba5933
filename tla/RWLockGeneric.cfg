SPECIFICATION Spec
CONSTANTS
    Threads = {t1, t2, t3, t4}
    ReadQuota = 2
    WriteQuota = 2
    Calls <- EveryCall
SYMMETRY Symmetry
INVARIANTS
    NoLostWakeup
PROPERTIES
    InsistOriginal
    ImplementsRWLock
