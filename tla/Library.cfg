SPECIFICATION Spec
CONSTANTS
    IntBits = 5
    LongBits = 8
    ShortBits = 4
    NUL = NUL
    Capacity = 16
    Untouched = Untouched
    Idle = Idle
    Calls <- MCCalls
    Room = 6
    Texts <- MCTexts
    Movable <- MCMovable
    Delimiters <- MCDelimiters
    Bytes = {a, nl}
    EndOfLine = nl
    Paths <- MCPaths
    BUFSIZ = 2
    Sizes = {3}
    EOF = eof
    NoByte = nobyte
    MaxLength = 3
    VGA_WIDTH = 2
    VGA_HEIGHT = 3
    Columns = 3
    Rows = 3
    Newline = Newline
    Letters = {"a", "b"}
    Formats <- MCFormats
    MaxText = 10
INVARIANTS
    StringHoldsText
    TextFollowsC
    ScreenShowsPaper
    ResultsAreExact
    PositionIsKnown
    MovesAreExact
PROPERTIES
    ImplementsFileStream
\* the kernel's text comes to an end
CHECK_DEADLOCK FALSE
