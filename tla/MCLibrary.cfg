SPECIFICATION LibSpec
CONSTANTS
    SIZE = 14
    WORD = 65536
    Memories <- Tagged
    Fills <- Patterns
    Prints <- Formats
PROPERTY BytesExact
INVARIANT NumberReads
