SPECIFICATION Spec
CONSTANTS
    NFrames = 7
    WordBits = 7
    Procs = {p1, p2, p3}
    Dying = dying
    NPages = 1
    ImagePages = 1
    FirstPages = 1
    Values = {a, b}
    MaxRef = 2
    Shrinking = TRUE
    Unmapped = unmapped
    NoMemory = nomemory
SYMMETRY Symmetry
CONSTRAINT NotTainted
PROPERTY
    MemoryIsPrivate
INVARIANTS
    RefcountExact
    FramesAccounted
\* init may exit, and then nothing runs
CHECK_DEADLOCK FALSE
