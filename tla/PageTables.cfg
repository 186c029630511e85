SPECIFICATION Spec
CONSTANTS
    NFrames = 37
    WordBits = 2
    Procs = {p1, p2, p3}
    Fan = 2
    Images <- MCImages
    StackPages <- MCStack
    HeapEnd = 5
    Pointers <- MCPointers
    NoSpace = nospace
VIEW FramesAside
INVARIANTS
    SpacesAreWhole
PROPERTIES
    TablesActAsOne
\* init may exit, and then nothing runs
CHECK_DEADLOCK FALSE
