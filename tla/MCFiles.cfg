SPECIFICATION Spec
CONSTANTS
    Pids = {0, 1}
    MAX_FILES = 4
    BLOCK_SIZE = 2
    FILENAME_LEN = 4
    INT_MAX = 7
    direntries <- Image
    inodes <- Inodes
    blocks <- Blocks
    Sizes <- NBytes
VIEW View
INVARIANT FreePidsClosed
INVARIANT BytesInOrder
PROPERTY NameFits
PROPERTY EofMeansAll
