SPECIFICATION Spec
CONSTANTS
    NUM_TERMS = 3
    VGA_DIMX = 4
    VGA_DIMY = 4
    POINTER = 1
    STATUS_BAR_HEIGHT = 1
    STATUS_BAR_TERM_W = 1
    WINDOW_W = 2
    WINDOW_H = 2
    SPEAKER <- Speaker
    Start <- Corners
    Bytes <- OneStep
CONSTRAINT Few
VIEW View
INVARIANT KeysGoToTop
INVARIANT NoteEnds
PROPERTY HeldByOnePoint
PROPERTY TakenIsSeen
