SPECIFICATION FairSpec
CONSTANTS
    NUM_TERMS = 2
    MAX_CHA_BUF = 2
    MAX_HISTORY = 1
    ReadSizes <- WholeLines
CONSTRAINT EmptyBetweenReads
PROPERTY LineReturns
