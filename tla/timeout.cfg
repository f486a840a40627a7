SPECIFICATION FairSpec
CONSTANTS
    KillSigs <- AllKillSigs
    Numbers <- ZeroOrMore
    Units <- PlainOrSeconds
    MaxSignals = 2
    MaxStops = 1
    Inherited = TRUE
CHECK_DEADLOCK FALSE
INVARIANTS
    ReturnsForChild NeverAbandons ChildDeathRemembered OwnSignalIgnored
PROPERTIES DeadlineUnlessInterrupted ExitNoticed
