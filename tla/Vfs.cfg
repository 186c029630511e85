SPECIFICATION VfsSpec
CONSTANTS
    Letters = {"d", "n"}
    MaxPath = 6
    MaxFiles = 5
    BootDirs <- MCBootDirs
    BootMounts <- MCBootMounts
    PtyDir = pts
    PtyNames <- MCPtyNames
    Pty = pty
    Device = device
    Null = null
INVARIANTS
    PathsMeanNames
PROPERTIES
    CreatedIsFound
    ImplementsNamespace
\* at the bound on files there may be none that can be removed
CHECK_DEADLOCK FALSE
