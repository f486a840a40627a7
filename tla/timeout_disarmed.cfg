SPECIFICATION FairSpec
CONSTANTS
    KillSigs <- SoftKillSigs
    Numbers <- Positive
    Units <- PlainOrSeconds
    MaxSignals = 1
    MaxStops = 0
    Inherited = FALSE
CHECK_DEADLOCK FALSE
PROPERTY DeadlineEnforced
