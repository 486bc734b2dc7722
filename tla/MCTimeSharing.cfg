SPECIFICATION FairSpec
CONSTANTS
    MAX_PROCESSES = 3
    NUM_SCHES = 2
    ALARM_TICKS = 2
CONSTRAINT UntilTorn
PROPERTY ImplementsTerminals
PROPERTY EveryTerminalRuns
PROPERTY ShellRestarts
PROPERTY SignalKills
