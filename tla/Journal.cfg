SPECIFICATION Spec
CONSTANTS
    Half = 4
    First = 6
    IndexSize = 2
    Targets = {0, 2, 4}
    MaxChanges = 5
    Worlds <- Orderly
CHECK_DEADLOCK FALSE
INVARIANTS
    RestartReplays
    FindExact
    IxfrHonest
    JournalCurrent
