SPECIFICATION FairSpec
CONSTANTS
    t1 = t1
    t2 = t2
    t3 = t3
    Threads = {t1, t2, t3}
    NoThread = NoThread
    WriteQuota = 1
    Wrap = 4
    Calls <- Mixed
INVARIANTS
    MutualExclusion
    NoLostWakeup
PROPERTIES
    WriterFIFO
    ReadersServed
