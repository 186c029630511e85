SPECIFICATION Spec
CONSTANTS
    Pids = {p1, p2}
    Absent = absent
    Regular = {file}
    Ptys = {pty}
    NNodes = 3
    Unused = unused
    Closed = closed
    Kept = 1
    MaxFds = 2
    MaxLength = 1
    Rights <- ReadOrBoth
SYMMETRY Symmetric
INVARIANTS
    SlotsOwnNodes
    OffsetsStayInside
PROPERTIES
    ImplementsDescriptors
\* the last process may exit
CHECK_DEADLOCK FALSE
