SPECIFICATION Spec
CONSTANTS
    MaxPid = 2
    WordBytes = 2
    Calls = {0, 1, 7, 24, 25, 26}
    R15Words <- MCR15Words
    Irqs = {0, 1, 7, 15}
    Depth = 2
INVARIANTS
    UserStateSurvives
    InterruptsStayPossible
\* no step after the last pid, or where a page_directory with an overwritten
\* byte would be used
CHECK_DEADLOCK FALSE
