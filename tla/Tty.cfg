SPECIFICATION Spec
CONSTANTS
    Keys <- MCKeys
    Values <- MCChars
    Size = 3
    MaxTransfer = 2
    KbdBuffer = 2
    MaxTyped = 3
INVARIANTS
    ReadsFollowKeys
PROPERTIES
    TypedAsMeant
    ImplementsFifo
