SPECIFICATION Spec
CONSTANTS
    MAX_PROCESSES = 3
    NUM_SCHES = 2
    ALARM_TICKS = 2
INVARIANT SwitchResumesAProcess
