SPECIFICATION Spec
CONSTANTS
    Slots = {s1, s2, s3, s4}
    Null = null
    Idle = idle
    Orderly = FALSE
SYMMETRY Symmetry
CONSTRAINT Defined
INVARIANTS
    QueueHoldsReady
    ZombiesAreAwaited
PROPERTY
    OnlyExitDrains
