SPECIFICATION Spec
CONSTANTS
    k1 = k1
    k2 = k2
    w1 = w1
    w2 = w2
    c1 = c1
    c2 = c2
    r1 = r1
    r2 = r2
    NoTask = NoTask
    Tasks = {k1, k2}
    Workers = {w1, w2}
    Clients = {c1}
    Refs = {r1, r2}
    Quantum = 1
    MaxEvents = 1
    MaxShutdown = 1
    Ops = {"attach", "onshutdown", "shutdown", "purge", "exclusive", "privileged", "pause", "destroy", "sendlate"}
SYMMETRY Symmetry
CHECK_DEADLOCK FALSE
INVARIANTS
    OneCustodian
    ExclusiveAlone
    WorkConserving
    FreedOnce
PROPERTIES
    PrivilegedDone
