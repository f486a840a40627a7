SPECIFICATION FairSpec
CONSTANTS
    Clients = {c1, c2}
    Pids = {p1, p2}
    Inodes = {i1, i2, i3}
    NoInode = NoInode
    NoClient = NoClient
    Style <- OneStyle
    MaxAge = 2
    MaxCrashes = 0
    Faults <- NoFaults
    ReuseInodes = FALSE
PROPERTY StaleLockRecovered
