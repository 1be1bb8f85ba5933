SPECIFICATION Spec
CONSTANTS
    Half = 4
    First = 1
    IndexSize = 4
    Targets = {0, 2}
    MaxChanges = 4
    Worlds <- Compacting
CHECK_DEADLOCK FALSE
INVARIANT
    RestartReplays
