SPECIFICATION Spec
CONSTANTS
    NUM_ROWS = 3
    NUM_COLS = 2
    NUM_TERMS = 3
    Chars = {"a"}
CONSTRAINT NotAstray
CONSTRAINT OneBlank
INVARIANT BlankPastCursor
INVARIANT NoThirdTerminal
INVARIANT CursorShown
PROPERTY ImplementsConsole
