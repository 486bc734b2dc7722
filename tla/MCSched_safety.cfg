SPECIFICATION Spec
CONSTANTS
    MAX_PROCESSES = 4
    NUM_SCHES = 3
    ALARM_TICKS = 2
CONSTRAINT UntilTorn
INVARIANT ProcessForest
INVARIANT RunningConsistent
INVARIANT ReadyContexts
INVARIANT NoStaleJump
INVARIANT VideoFollows
