SPECIFICATION Spec
CONSTANTS
    Readers = {r1, r2}
    Writer = Writer
    Nodes = {n1, n2}
    NoNode = NoNode
    MaxSerial = 4
    Worlds <- SmallWorlds
SYMMETRY Symmetry
INVARIANTS
    SnapshotKept
    ListInsists
    RolledBackGone
