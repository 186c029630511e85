SPECIFICATION Spec
CONSTANTS
    Slots = {s1, s2, s3}
    Null = null
    Idle = idle
    Orderly = TRUE
INVARIANTS
    OrderlyNeverDangles
PROPERTIES
    EveryReadyRuns
    WaitersReturn
    InterruptsComeBack
