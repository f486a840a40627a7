SPECIFICATION FairSpec
CONSTANTS
    MaxJobs = 2
    Pids = {1, 2, 3}
    Envs <- MixedEnvs
INVARIANTS NoDangling StateTrue PipelineUnreaped
PROPERTIES ZombieBound KnownKept WaitReturns
CHECK_DEADLOCK FALSE
