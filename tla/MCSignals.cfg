SPECIFICATION FairSpec
CONSTANTS
    Faults = {0, 14, 17}
    Handled = {1, 3}
    MAX_NEST = 2
    MAX_DEPTH = 3
CONSTRAINT Nesting
INVARIANT FramesIntact
INVARIANT ContextFound
PROPERTY ReturnsToInterrupted
PROPERTY KillIsActedOn
