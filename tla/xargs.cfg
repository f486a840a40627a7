SPECIFICATION FairSpec
CONSTANTS
    Inputs <- InputsFor
    Options <- AllOptions
    Results <- ResultsFor
    Faults <- FaultsFor
CHECK_DEADLOCK FALSE
INVARIANTS
    WithinLimits ArgsInOrder AllButLastEmpty LineReplaced AtMostMaxProcs StatusOfAll
PROPERTY Terminates
