SPECIFICATION Spec
CONSTANTS
    Sources = 2
    Blocks = 2
    MaxFails = 3
    Inherited = {FALSE}
INVARIANTS NeverLost ExitTrue NoPartLeft
PROPERTY ImplementsAbstractMove
CHECK_DEADLOCK FALSE
