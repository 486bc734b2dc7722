SPECIFICATION FairSpec
CONSTANTS
    NumStacks = 2
    ALARM_TICKS = 2
    MAX_DEPTH = 3
INVARIANT InServiceOwned
INVARIANT TimerAndMouseKept
PROPERTY BootEnds
PROPERTY EveryLineServed
