SPECIFICATION FairSpec
CONSTANTS
    root = root
    sub1 = sub1
    sub2 = sub2
    Root = root
    SubMakes = {sub1, sub2}
    Parent <- SubsOfRoot
    Work <- SomeWork
    Later <- SomeLater
    MaxJobs = 2
    PipeSize = 3
    Options <- AllOptions
    MaxKills = 1
CHECK_DEADLOCK FALSE
INVARIANTS
    TokenPerJob TokensConserved AtMostMaxJobs StopperKept StatusOfBuild
PROPERTY EveryMakeEnds
