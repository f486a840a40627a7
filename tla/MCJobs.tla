------------------------------- MODULE MCJobs -------------------------------
(* Instances of Jobs for TLC.                                              *)
EXTENDS Jobs

Script == [talking |-> FALSE, notify |-> FALSE, monitor |-> FALSE,
           jobs |-> 2, stages |-> 1, reuse |-> FALSE, stops |-> 0, forkfails |-> 0,
           pipefails |-> 0, traps |-> 0, changes |-> 0, child_max |-> 1, failed |-> FALSE,
           freed |-> 0]
Interactive == [Script EXCEPT !.talking = TRUE, !.monitor = TRUE]

\* One circumstance at a time; two changes of -m let bg free async_job.
MixedEnvs ==
    {[Script EXCEPT !.child_max = 0],
     [Script EXCEPT !.reuse = TRUE], [Script EXCEPT !.traps = 1], [Script EXCEPT !.stops = 1],
     [Interactive EXCEPT !.traps = 1], [Interactive EXCEPT !.notify = TRUE],
     [Interactive EXCEPT !.stops = 1],
     [Interactive EXCEPT !.stops = 1, !.notify = TRUE, !.jobs = 1],
     [Interactive EXCEPT !.changes = 2, !.forkfails = 1, !.child_max = 0],
     [Interactive EXCEPT !.monitor = FALSE, !.stages = 2, !.forkfails = 1],
     [Interactive EXCEPT !.stages = 2, !.forkfails = 1, !.jobs = 1],
     [Interactive EXCEPT !.stages = 2, !.pipefails = 1, !.jobs = 1],
     [Script EXCEPT !.stages = 2, !.pipefails = 1, !.jobs = 1]}
=============================================================================
