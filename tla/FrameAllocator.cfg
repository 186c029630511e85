SPECIFICATION Spec
CONSTANTS
    NFrames = 8
    WordBits = 3
    FirstPages = 1
    MaxRun = 2
INVARIANTS
    HintSound
    HeldStaysLocked
    UsedMemoryExact
PROPERTY
    ImplementsFrameSet
