SPECIFICATION Spec
CONSTANTS
    Trees <- MCTrees
    Dot = "."
    Offset0 = 1
    EntrySize = 2
    BufSize = 2
INVARIANTS
    RootfsIsTree
PROPERTIES
    BootEnds
\* the boot comes to an end
CHECK_DEADLOCK FALSE
