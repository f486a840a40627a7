SPECIFICATION Spec
CONSTANTS
    Clients = {c1, c2}
    Pids = {p1, p2}
    Inodes = {i1, i2, i3, i4}
    NoInode = NoInode
    NoClient = NoClient
    Style <- OneStyle
    MaxAge = 2
    MaxCrashes = 1
    Faults <- SomeFaults
    ReuseInodes = FALSE
SYMMETRY Symmetry
INVARIANT LockInv
PROPERTY ImplementsAbstractLock
