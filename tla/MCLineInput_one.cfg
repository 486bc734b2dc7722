SPECIFICATION Spec
CONSTANTS
    NUM_TERMS = 1
    MAX_CHA_BUF = 3
    MAX_HISTORY = 3
    ReadSizes <- WholeLines
CONSTRAINT NotAstray
INVARIANT CountMatches
INVARIANT LineRead
INVARIANT UpAndDownAgree
 
