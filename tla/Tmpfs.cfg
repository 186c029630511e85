SPECIFICATION Spec
CONSTANTS
    BLOCKSIZE = 2
    Names = {n1, n2}
    Inodes = {i1, i2}
    Bytes <- MCBytes
    Buffers <- MCBuffers
    NFrames = 4
    MaxLength = 5
    MaxOthers = 1
    Kinds = {"file", "dir"}
    BootMemory <- MCBootMemory
    Unused = unused
SYMMETRY Symmetric
INVARIANTS
    TransfersAreExact
    
    DirectoryListsAll
PROPERTIES
    ImplementsFlatFiles
\* Each unlink loses a frame, until no step is left.
CHECK_DEADLOCK FALSE
