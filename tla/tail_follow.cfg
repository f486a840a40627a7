SPECIFICATION FairSpec
CONSTANTS
    MMAP_MAXSIZE = 2
    PAGE = 2
    BSZ = 2
    Opts <- DisplayAndFollow
    Inodes = {1, 2, 3}
    MaxChanges = 3
INVARIANTS DisplaysAskedUsually ShownInOrder
PROPERTIES CaughtUp FollowsName
CHECK_DEADLOCK FALSE
