SPECIFICATION FairSpec
CONSTANTS
    START = 35999
    MAX_UPDATES = 2
    BCD = TRUE
    Terms = {t1, t2}
    BASE = 2
    SCREEN_RATE = 2
    Frequencies = {0, 1, 2, 3}
INVARIANT WaitsOnePeriod
INVARIANT TimeShownWasReal
PROPERTY ReadReturns
PROPERTY ScreenRedrawn
