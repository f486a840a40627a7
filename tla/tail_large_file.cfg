SPECIFICATION Spec
CONSTANTS
    MMAP_MAXSIZE = 2
    PAGE = 2
    BSZ = 2
    Opts <- LargeFiles
    Inodes = {1, 2, 3}
    MaxChanges = 3
INVARIANT DisplaysAsked
CHECK_DEADLOCK FALSE
