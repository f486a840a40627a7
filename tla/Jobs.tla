-------------------------------- MODULE Jobs --------------------------------
(***************************************************************************)
(* bin/ksh, jobs.c: the shell's job table.                                 *)
(*                                                                         *)
(* The table is changed by the commands of the shell, which block SIGCHLD  *)
(* meanwhile, and by the SIGCHLD handler j_sigchld(), which runs between   *)
(* two commands, between the stages of a pipeline and inside sigsuspend()  *)
(* in j_waitj().  The handler does nothing while a job is only partly      *)
(* started, and j_startjob() sends the shell the signal again.             *)
(*                                                                         *)
(* A job is known by its age (njobs when it was made), so that a pointer   *)
(* to a job that has been removed shows.  remove_job() puts the structure  *)
(* on a free list: until new_job() hands it out again its flags are still  *)
(* there for whoever has kept a pointer to it.                             *)
(***************************************************************************)
EXTENDS Integers, Sequences, FiniteSets

CONSTANTS
    MaxJobs,     \* bound: how many jobs the shell starts at most
    Pids,        \* process ids
    Envs         \* the shells and circumstances considered, see Env

(* Env: the options FTALKING (interactive), FNOTIFY (-b) and FMONITOR (-m) *)
(* of the shell; how many jobs it starts and how many stages a pipeline    *)
(* has; may the pid of a process that has been waited for be given to a    *)
(* new one (reuse); how many stops, failing fork()s or pipe()s, trapped    *)
(* signals and changes of -m there are; what sysconf() says of CHILD_MAX.  *)
(* History, at first FALSE and 0: has a pipeline been given up, with news  *)
(* of children that is held for ever (failed); the job that bg has freed   *)
(* and made async_job in one go (freed).                                   *)
Env == [talking : BOOLEAN, notify : BOOLEAN, monitor : BOOLEAN,
        jobs : 0..MaxJobs, stages : Nat, reuse : BOOLEAN, stops : Nat, forkfails : Nat,
        pipefails : Nat, traps : Nat, changes : Nat, child_max : Int, failed : BOOLEAN,
        freed : 0..MaxJobs]

ASSUME JobsAssumption ==
    /\ MaxJobs \in Nat
    /\ Pids \subseteq Nat \ {0}
    /\ Envs \subseteq {e \in Env : ~e.failed /\ e.freed = 0}

\* Order important!
PRUNNING == 0
PEXITED == 1
PSIGNALLED == 2
PSTOPPED == 3
Terminal == {PEXITED, PSIGNALLED}

Flags == {"STARTED", "WAITING", "XXCOM", "FG", "KNOWN", "ZOMBIE"}
JobIds == 1..MaxJobs

VARIABLES
    env,       \* one of Envs; its numbers count down
    monitor,   \* Flag(FMONITOR), which starts as env.monitor
    tab,       \* the job table: job_list, the jobs, last_job, async_job, nzombie
    held_sigchld,
    main,      \* where the shell is: at, the job, the kind of job or wait
    handler,   \* is j_sigchld() in its waitpid() loop
    chld,      \* is SIGCHLD pending
    trap,      \* has a signal with a trap arrived that has not been dealt with
    kern,      \* the kernel's view of the children
    tty        \* the foreground process group of the tty, 0 for the shell's

vars == <<env, monitor, tab, held_sigchld, main, handler, chld, trap, kern, tty>>

Idle == [at |-> "idle", j |-> 0, kind |-> "none"]
Kinds == {"fg", "bg", "sub"}                  \* XBGND, XXCOM or neither

-----------------------------------------------------------------------------
(* The table.  Each operator below is one function of jobs.c and maps a    *)
(* table to a table.                                                       *)

Listed(t) == {t.list[i] : i \in DOMAIN t.list}
Zombies(t) == {j \in Listed(t) : "ZOMBIE" \in t.job[j].flags}
LastProc(job) == job.procs[Len(job.procs)]
PidsOf(job) == {job.procs[i].pid : i \in DOMAIN job.procs}

NoJob == [flags |-> {}, state |-> PRUNNING, status |-> 0, pgrp |-> 0, procs |-> <<>>]

NoJobs == [list |-> <<>>, job |-> [j \in JobIds |-> NoJob], njobs |-> 0,
           last |-> 0, async |-> 0, nzombie |-> 0]

SetFlags(t, j, f) == [t EXCEPT !.job[j].flags = @ \cup f]
ClearFlags(t, j, f) == [t EXCEPT !.job[j].flags = @ \ f]

\* The list without the jobs of S.
Without(list, S) ==
    LET upTo[i \in 0..Len(list)] ==
          IF i = 0 THEN <<>>
          ELSE IF list[i] \in S THEN upTo[i - 1] ELSE Append(upTo[i - 1], list[i])
    IN  upTo[Len(list)]

(* remove_job() for each job of S; one that is not in the list stays as it *)
(* is.  Of a structure on the free list only the flags are looked at.      *)
RemoveJobs(t, S) ==
    LET R == S \cap Listed(t) IN
    [t EXCEPT !.list = Without(@, R),
              !.job = [j \in JobIds |-> IF j \in R THEN [NoJob EXCEPT !.flags = t.job[j].flags]
                                       ELSE t.job[j]],
              !.nzombie = @ - Cardinality(S \cap Zombies(t)),
              !.last = IF @ \in R THEN 0 ELSE @,
              !.async = IF @ \in R THEN 0 ELSE @]

\* put_job(): at the front, or just past any stopped jobs.
PutJob(t, j, front) ==
    LET others == Without(t.list, {j})
        stopped == {n \in 0..Len(others) :
                       \A i \in 1..n : t.job[others[i]].state = PSTOPPED}
        n == IF front THEN 0 ELSE CHOOSE m \in stopped : \A k \in stopped : k <= m
    IN  [t EXCEPT !.list = SubSeq(others, 1, n) \o <<j>> \o SubSeq(others, n + 1, Len(others))]

\* The n oldest jobs of S, which is what a loop that removes the oldest one removes.
Oldest(S, n) == {j \in S : Cardinality({k \in S : k < j}) < n}

\* A zombie that $! was not used for.
UnknownZombie(job) == job.flags \cap {"KNOWN", "ZOMBIE"} = {"ZOMBIE"}

\* Wrong variant: the last asynchronous job is dropped although $! was used.
SetAsyncForgets(t, j) ==
    LET t1 == IF t.async # 0 /\ "ZOMBIE" \in t.job[t.async].flags
              THEN RemoveJobs(t, {t.async}) ELSE t
    IN  [t1 EXCEPT !.async = j]
\* Wrong variant: no limit on the number of zombies.
SetAsyncNoTrim(t, j) ==
    LET t1 == IF t.async # 0 /\ UnknownZombie(t.job[t.async])
              THEN RemoveJobs(t, {t.async}) ELSE t
    IN  [t1 EXCEPT !.async = j]

(* j_set_async(): an older asynchronous job nobody asked for goes, and     *)
(* once the job is known to be started so do the oldest zombies beyond     *)
(* child_max; if there are not enough of them the count is thought to be   *)
(* wrong and is reset.  The older one may be j itself: it is freed, but    *)
(* its flags say that it has been started, and it becomes async_job again. *)
SetAsync(t, j) ==
    LET t1 == IF t.async # 0 /\ UnknownZombie(t.job[t.async])
              THEN RemoveJobs(t, {t.async}) ELSE t
        others == Zombies(t1) \ {j}
        excess == t1.nzombie - env.child_max
        t2 == [RemoveJobs(t1, Oldest(others, excess)) EXCEPT !.async = j]
    IN  IF "STARTED" \notin t1.job[j].flags THEN t1
        ELSE IF excess > Cardinality(others) /\ ("ZOMBIE" \notin t2.job[j].flags \/ t2.nzombie # 1)
        THEN [t2 EXCEPT !.nzombie = 0] ELSE t2

\* Wrong variant: the status of the first process.
FirstStatus(job) == IF job.procs[1].state = PSTOPPED THEN 0 ELSE job.procs[1].state

\* The status of a job is how its last process ended, 0 if that one has stopped.
StatusOf(job) == IF LastProc(job).state = PSTOPPED THEN 0 ELSE LastProc(job).state

\* Wrong variant: the job that j_waitj() sleeps on is not spared.
SparedForeground(job) == "FG" \in job.flags

\* The jobs that check_job() leaves to j_waitj().
Spared(job) == job.flags \cap {"WAITING", "FG"} # {}

(* check_job(): once no process of the job runs, its state is the greatest *)
(* of theirs.  Then the job is announced and removed, or becomes a zombie, *)
(* or stays.                                                               *)
CheckJob(t, j) ==
    LET job == t.job[j]
        states == {job.procs[i].state : i \in DOMAIN job.procs}
        state == CHOOSE s \in states : \A r \in states : r <= s
        t1 == [t EXCEPT !.job[j].state = state, !.job[j].status = StatusOf(job)]
        t2 == IF state = PSTOPPED THEN PutJob(t1, j, TRUE) ELSE t1
    IN  IF "STARTED" \notin job.flags \/ PRUNNING \in states THEN t
        ELSE IF monitor
        THEN IF "XXCOM" \in job.flags THEN t1
             ELSE IF env.notify /\ "WAITING" \notin job.flags /\ state # PSTOPPED
             THEN RemoveJobs(t2, {j}) ELSE t2
        ELSE IF Spared(job) \/ state = PSTOPPED THEN t1
        ELSE IF j = t.async \/ "KNOWN" \in job.flags
        THEN [SetFlags(t1, j, {"ZOMBIE"}) EXCEPT !.nzombie = @ + 1]
        ELSE RemoveJobs(t1, {j})

\* The jobs with a process pid, and the one the handler's search finds first.
WithPid(t, pid) == {i \in DOMAIN t.list : pid \in PidsOf(t.job[t.list[i]])}
First(t, S) == t.list[CHOOSE i \in S : \A k \in S : i <= k]

\* The body of j_sigchld()'s loop for child pid, whose new state is s.
Reported(t, pid, s) ==
    LET j == First(t, WithPid(t, pid))
        procs == t.job[j].procs
        hits == {i \in DOMAIN procs : procs[i].pid = pid}
        n == CHOOSE i \in hits : \A k \in hits : i <= k
    IN  IF WithPid(t, pid) = {} THEN t
        ELSE CheckJob([t EXCEPT !.job[j].procs[n].state = s], j)

-----------------------------------------------------------------------------
\* The kernel's side.

Free == [st |-> "free", new |-> FALSE, sig |-> FALSE, job |-> 0]
Children(j) == {p \in Pids : kern[p].st # "free" /\ kern[p].job = j}
Alive(j) == {p \in Children(j) : kern[p].st # "dead"}

\* Does waitpid() have something to say about child p?
Reportable(p) == kern[p].st = "dead" \/ (kern[p].st = "stop" /\ kern[p].new)

(* The pids fork() may return.  Without reuse, one that is not in the job  *)
(* table; then it makes no difference which one.                           *)
FreePids ==
    LET free == {p \in Pids : kern[p].st = "free"}
        fresh == {p \in free : WithPid(tab, p) = {}}
    IN  IF env.reuse THEN free ELSE {p \in fresh : \A q \in fresh : p <= q}

Kill(k, S) == [p \in Pids |-> IF p \in S
                  THEN [k[p] EXCEPT !.st = "dead", !.sig = TRUE] ELSE k[p]]
Cont(k, S) == [p \in Pids |-> IF p \in S /\ k[p].st = "stop"
                  THEN [k[p] EXCEPT !.st = "run", !.new = FALSE] ELSE k[p]]

\* A child ends, by itself or by a signal, which reaches a stopped one too.
Exit(p, sig) ==
    /\ kern[p].st = "run" \/ (kern[p].st = "stop" /\ sig)
    /\ kern' = [kern EXCEPT ![p] = [@ EXCEPT !.st = "dead", !.sig = sig]]
    /\ chld' = TRUE
    /\ UNCHANGED <<env, monitor, tab, held_sigchld, main, handler, trap, tty>>

Stop(p) ==
    /\ kern[p].st = "run" /\ env.stops > 0
    /\ kern' = [kern EXCEPT ![p] = [@ EXCEPT !.st = "stop", !.new = TRUE]]
    /\ env' = [env EXCEPT !.stops = @ - 1]
    /\ chld' = TRUE
    /\ UNCHANGED <<monitor, tab, held_sigchld, main, handler, trap, tty>>

\* Somebody else sends the child SIGCONT.
Continue(p) ==
    /\ kern[p].st = "stop"
    /\ kern' = Cont(kern, {p})
    /\ UNCHANGED <<env, monitor, tab, held_sigchld, main, handler, chld, trap, tty>>

-----------------------------------------------------------------------------
\* The SIGCHLD handler.

\* The handler returns: sigsuspend() does too.
WakeUp == main' = IF main.at = "sleep" THEN [main EXCEPT !.at = "woke"] ELSE main

PartlyStarted(t) == \E j \in Listed(t) : "STARTED" \notin t.job[j].flags

Unblocked == main.at \in {"idle", "pipe", "reading", "any", "sleep"}

\* Wrong variant: waits although a job is only partly started.
SigchldNeverHolds ==
    /\ chld /\ ~handler /\ Unblocked
    /\ chld' = FALSE
    /\ handler' = TRUE /\ UNCHANGED <<held_sigchld, main>>
    /\ UNCHANGED <<env, monitor, tab, trap, kern, tty>>

\* j_sigchld() up to the loop.
Sigchld ==
    /\ chld /\ ~handler /\ Unblocked
    /\ chld' = FALSE
    /\ IF PartlyStarted(tab)
       THEN held_sigchld' = TRUE /\ WakeUp /\ UNCHANGED handler
       ELSE handler' = TRUE /\ UNCHANGED <<held_sigchld, main>>
    /\ UNCHANGED <<env, monitor, tab, trap, kern, tty>>

\* One iteration: waitpid() returns p.
Waitpid(p) ==
    /\ handler /\ Reportable(p)
    /\ IF kern[p].st = "dead"
       THEN /\ kern' = [kern EXCEPT ![p] = Free]
            /\ tab' = Reported(tab, p, IF kern[p].sig THEN PSIGNALLED ELSE PEXITED)
       ELSE /\ kern' = [kern EXCEPT ![p].new = FALSE]
            /\ tab' = Reported(tab, p, PSTOPPED)
    /\ UNCHANGED <<env, monitor, held_sigchld, main, handler, chld, trap, tty>>

\* waitpid() has nothing more.
SigchldReturns ==
    /\ handler /\ \A p \in Pids : ~Reportable(p)
    /\ handler' = FALSE
    /\ WakeUp
    /\ UNCHANGED <<env, monitor, tab, held_sigchld, chld, trap, kern, tty>>

-----------------------------------------------------------------------------
\* The shell's commands.  Each blocks SIGCHLD, so none runs inside the handler.

\* errorf(): an interactive shell prompts again, another one exits.
Errorf == main' = IF env.talking THEN Idle ELSE [Idle EXCEPT !.at = "gone"]

\* j_waitj() up to its loop.
WaitJ(t, j, kind) ==
    /\ tab' = SetFlags(t, j, {"WAITING"})
    /\ main' = [at |-> "check", j |-> j, kind |-> kind]

\* Wrong variant: the signal that was held is forgotten.
StartJobForgets ==
    /\ held_sigchld' = FALSE
    /\ chld' = chld

\* j_startjob(), whose callers below set JF_STARTED: a signal that was held is sent again.
StartJob ==
    /\ held_sigchld' = FALSE
    /\ chld' = (chld \/ held_sigchld)

(* exchild() in the parent.  The job is made by the first stage; the last  *)
(* one (not XPIPEO) starts it and waits for it or makes it asynchronous.   *)
(* All stages of a `command` are XPIPEO, and startlast() follows.  When    *)
(* async_job has been freed, new_job() may return it (recycled).           *)
Exchild(kind, pid, pipeo, recycled) ==
    LET first == main.at = "idle"
        j == IF first THEN tab.njobs + 1 ELSE tab.last
        flags == CASE kind = "sub" -> {"XXCOM"} [] kind = "bg" -> {} [] kind = "fg" -> {"FG"}
        t1 == IF first
              THEN PutJob([tab EXCEPT !.njobs = j, !.last = j,
                                      !.async = IF recycled THEN j ELSE @,
                                      !.job[j] = [NoJob EXCEPT !.flags = flags]], j, FALSE)
              ELSE tab
        control == monitor /\ kind # "sub"
        t2 == [t1 EXCEPT !.job[j].procs = Append(@, [pid |-> pid, state |-> PRUNNING]),
                         !.job[j].pgrp = IF control /\ @ = 0 THEN pid ELSE @]
        t3 == SetFlags(t2, j, {"STARTED"})
    IN  /\ ~handler
        /\ \/ first /\ tab.njobs < env.jobs
           \/ main.at = "pipe" /\ main.kind = kind /\ Len(tab.job[j].procs) < env.stages
        /\ kind = "sub" => pipeo
        /\ recycled => first /\ tab.async \notin Listed(tab) \cup {0}
        /\ kern' = [kern EXCEPT ![pid] = [Free EXCEPT !.st = "run", !.job = j]]
        /\ tty' = IF control /\ first /\ kind # "bg" THEN pid ELSE tty
        /\ IF pipeo
           THEN /\ tab' = t2
                /\ main' = [at |-> "pipe", j |-> j, kind |-> kind]
                /\ UNCHANGED <<held_sigchld, chld>>
           ELSE /\ StartJob
                /\ \/ kind = "bg" /\ tab' = SetAsync(t3, j) /\ main' = Idle
                   \/ kind = "fg" /\ WaitJ(t3, j, "fg")
        /\ UNCHANGED <<env, monitor, handler, trap>>

(* fork() fails: the job, which its first stage has made, is killed and    *)
(* removed.  The tty and held_sigchld stay as they are.                    *)
ForkFails(recycled) ==
    LET first == main.at = "idle" IN
    /\ ~handler /\ env.forkfails > 0 /\ main.at \in {"idle", "pipe"}
    /\ first => tab.njobs < env.jobs
    /\ recycled => first /\ tab.async \notin Listed(tab) \cup {0}
    /\ IF first
       THEN /\ tab' = [tab EXCEPT !.njobs = @ + 1, !.last = 0,
                                  !.async = IF recycled THEN 0 ELSE @]
            /\ UNCHANGED <<kern, chld>>
       ELSE /\ tab' = RemoveJobs(tab, {tab.last})
            /\ kern' = Kill(kern, Alive(tab.last))
            /\ chld' = (chld \/ Alive(tab.last) # {})
    /\ env' = [env EXCEPT !.forkfails = @ - 1, !.failed = @ \/ (held_sigchld /\ ~chld')]
    /\ Errorf
    /\ UNCHANGED <<monitor, held_sigchld, handler, trap, tty>>

\* openpipe() fails before the next stage, in execute().
PipeFails ==
    /\ ~handler /\ env.pipefails > 0 /\ main.at = "pipe"
    /\ env' = [env EXCEPT !.pipefails = @ - 1, !.failed = TRUE]
    /\ Errorf
    /\ UNCHANGED <<monitor, tab, held_sigchld, handler, chld, trap, kern, tty>>

\* startlast(): the output of `command` is read from now on.
StartLast ==
    /\ ~handler /\ main.at = "pipe" /\ main.kind = "sub"
    /\ tab' = SetFlags(tab, tab.last, {"WAITING", "STARTED"})
    /\ StartJob
    /\ main' = [main EXCEPT !.at = "reading"]
    /\ UNCHANGED <<env, monitor, handler, trap, kern, tty>>

\* waitlast(), at the end of the output; 125 if there is no such job.
WaitLast ==
    /\ ~handler /\ main.at = "reading"
    /\ IF tab.last = 0 \/ "STARTED" \notin tab.job[tab.last].flags
       THEN main' = Idle /\ UNCHANGED tab
       ELSE WaitJ(tab, tab.last, "fg")
    /\ UNCHANGED <<env, monitor, held_sigchld, handler, chld, trap, kern, tty>>

\* SIGINT while an interactive shell reads the output: waitlast() is not reached.
AbandonSub ==
    /\ ~handler /\ main.at = "reading" /\ env.talking /\ env.traps > 0
    /\ env' = [env EXCEPT !.traps = @ - 1]
    /\ main' = Idle
    /\ UNCHANGED <<monitor, tab, held_sigchld, handler, chld, trap, kern, tty>>

(* waitfor() with a pid: the job is looked for by its last process, then   *)
(* by its process group.                                                   *)
Lookup(t, pid) ==
    LET started == {i \in DOMAIN t.list : "STARTED" \in t.job[t.list[i]].flags}
        byPid == {i \in started : LastProc(t.job[t.list[i]]).pid = pid}
        byPgrp == {i \in DOMAIN t.list : t.job[t.list[i]].pgrp = pid}
    IN  IF byPid # {} THEN {First(t, byPid)}
        ELSE IF byPgrp # {} THEN {First(t, byPgrp)} ELSE {}

WaitPid(pid) ==
    /\ ~handler /\ main.at = "idle"
    /\ \E j \in Lookup(tab, pid) : WaitJ(tab, j, "pid")
    /\ UNCHANGED <<env, monitor, held_sigchld, handler, chld, trap, kern, tty>>

\* wait without a job: c_wait() calls waitfor() until no job runs.
WaitAny ==
    LET running == {i \in DOMAIN tab.list : tab.job[tab.list[i]].state = PRUNNING}
    IN  /\ ~handler /\ main.at \in {"idle", "any"}
        /\ IF running # {}
           THEN WaitJ(tab, First(tab, running), "any")
           ELSE main.at = "any" /\ main' = Idle /\ UNCHANGED tab
        /\ UNCHANGED <<env, monitor, held_sigchld, handler, chld, trap, kern, tty>>

\* The loop's condition (JW_STOPPEDWAIT without FMONITOR).
StillWaits(j) == tab.job[j].state \in {PRUNNING} \cup (IF monitor THEN {} ELSE {PSTOPPED})

\* sigsuspend().
Sleep ==
    /\ ~handler /\ main.at = "check" /\ StillWaits(main.j)
    /\ main' = [main EXCEPT !.at = "sleep"]
    /\ UNCHANGED <<env, monitor, tab, held_sigchld, handler, chld, trap, kern, tty>>

(* sigsuspend() has returned: a signal that is fatal ends the shell; wait, *)
(* but no other command, looks for a trap.                                 *)
Woke ==
    /\ ~handler /\ main.at = "woke"
    /\ \/ /\ trap /\ tab' = ClearFlags(tab, main.j, {"WAITING"})
          /\ \/ main' = [Idle EXCEPT !.at = "gone"]
             \/ main.kind \in {"pid", "any"} /\ main' = Idle
       \/ /\ ~(trap /\ main.kind \in {"pid", "any"})
          /\ main' = [main EXCEPT !.at = "check"] /\ UNCHANGED tab
    /\ UNCHANGED <<env, monitor, held_sigchld, handler, chld, trap, kern, tty>>

\* The rest of j_waitj(): the tty is taken back and the job removed.
WaitDone ==
    LET j == main.j
        t1 == ClearFlags(tab, j, {"WAITING", "FG"})
    IN  /\ ~handler /\ main.at = "check" /\ ~StillWaits(j)
        /\ tty' = IF "FG" \in tab.job[j].flags /\ monitor /\ tab.job[j].pgrp # 0
                  THEN 0 ELSE tty
        /\ tab' = IF tab.job[j].state # PSTOPPED /\ (~monitor \/ main.kind # "any")
                  THEN RemoveJobs(t1, {j}) ELSE t1
        /\ main' = IF main.kind = "any" THEN [at |-> "any", j |-> 0, kind |-> "any"] ELSE Idle
        /\ UNCHANGED <<env, monitor, held_sigchld, handler, chld, trap, kern>>

(* j_resume(): bg, or fg, which gives the job the tty, or gives up if it   *)
(* cannot, and waits for it.                                               *)
Resume(j, bg) ==
    LET job == tab.job[j]
        procs == [i \in DOMAIN job.procs |-> IF job.procs[i].state = PSTOPPED
                     THEN [job.procs[i] EXCEPT !.state = PRUNNING] ELSE job.procs[i]]
        running == procs # job.procs \/ job.state = PRUNNING
        t1 == PutJob([tab EXCEPT !.job[j].procs = procs,
                                 !.job[j].state = IF running THEN PRUNNING ELSE @], j, FALSE)
        t2 == [SetFlags(ClearFlags(t1, j, {"KNOWN"}), j, {"FG"})
                   EXCEPT !.async = IF @ = j THEN 0 ELSE @]
        continued == IF running THEN Cont(kern, Children(j)) ELSE kern
    IN  /\ ~handler /\ main.at = "idle" /\ monitor
        /\ j \in Listed(tab) /\ job.pgrp # 0
        /\ \/ /\ bg /\ tab' = SetAsync(t1, j) /\ UNCHANGED <<main, tty>>
              /\ env' = [env EXCEPT !.freed = IF tab.async = j /\ UnknownZombie(job)
                                               THEN j ELSE @]
              /\ kern' = continued
           \/ /\ ~bg /\ WaitJ(t2, j, "fg") /\ tty' = IF running THEN job.pgrp ELSE tty
              /\ kern' = continued
              /\ UNCHANGED env
           \/ /\ ~bg /\ running /\ tab' = t1
              /\ UNCHANGED <<env, main, tty, kern>>
        /\ UNCHANGED <<monitor, held_sigchld, handler, chld, trap>>

(* j_jobs(): what has been shown as done is removed.  All jobs are shown,  *)
(* one of them, or (-n) the ones marked JF_CHANGED, which may be any;      *)
(* zombies only with -z.                                                   *)
Jobs(S, z) ==
    LET shown == IF z THEN S ELSE S \ Zombies(tab)
        done == {j \in shown : tab.job[j].state \in Terminal}
    IN  /\ ~handler /\ main.at = "idle" /\ done # {}
        /\ z => S = Listed(tab) \/ Cardinality(S) = 1
        /\ tab' = RemoveJobs(tab, done)
        /\ UNCHANGED <<env, monitor, held_sigchld, main, handler, chld, trap, kern, tty>>

\* j_notify(), before an interactive shell's prompt.
Notify ==
    LET done == {j \in Listed(tab) : tab.job[j].state \in Terminal}
    IN  /\ ~handler /\ main.at = "idle" /\ env.talking /\ done # {}
        /\ tab' = RemoveJobs(tab, done)
        /\ UNCHANGED <<env, monitor, held_sigchld, main, handler, chld, trap, kern, tty>>

\* j_async(): $! is used.
Async ==
    /\ ~handler /\ main.at = "idle" /\ tab.async # 0
    /\ tab' = SetFlags(tab, tab.async, {"KNOWN"})
    /\ UNCHANGED <<env, monitor, held_sigchld, main, handler, chld, trap, kern, tty>>

\* set -m or set +m, and j_change(), which waits to be given the tty.
Change ==
    /\ ~handler /\ main.at = "idle" /\ (~monitor => tty = 0) /\ env.changes > 0
    /\ env' = [env EXCEPT !.changes = @ - 1]
    /\ monitor' = ~monitor
    /\ UNCHANGED <<tab, held_sigchld, main, handler, chld, trap, kern, tty>>

\* A signal with a trap arrives; it is not one that is blocked.
Trapsig ==
    /\ env.traps > 0 /\ main.at # "gone"
    /\ env' = [env EXCEPT !.traps = @ - 1]
    /\ trap' = TRUE
    /\ IF handler THEN UNCHANGED main ELSE WakeUp
    /\ UNCHANGED <<monitor, tab, held_sigchld, handler, chld, kern, tty>>

\* runtraps(), between two commands.
Runtraps ==
    /\ ~handler /\ main.at = "idle" /\ trap
    /\ trap' = FALSE
    /\ UNCHANGED <<env, monitor, tab, held_sigchld, main, handler, chld, kern, tty>>

-----------------------------------------------------------------------------
Init ==
    /\ env \in Envs
    /\ monitor = env.monitor
    /\ tab = NoJobs
    /\ held_sigchld = FALSE
    /\ main = Idle
    /\ handler = FALSE /\ chld = FALSE /\ trap = FALSE
    /\ kern = [p \in Pids |-> Free]
    /\ tty = 0

Child == \E p \in Pids : Exit(p, TRUE) \/ Exit(p, FALSE) \/ Stop(p) \/ Continue(p)

Handler == Sigchld \/ SigchldReturns \/ \E p \in Pids : Waitpid(p)

\* What the shell does without being told to.
Main == Sleep \/ Woke \/ WaitDone \/ WaitLast \/ (main.at = "any" /\ WaitAny)

Command ==
    \/ \E kind \in Kinds, pid \in FreePids, pipeo, recycled \in BOOLEAN :
          Exchild(kind, pid, pipeo, recycled)
    \/ \E recycled \in BOOLEAN : ForkFails(recycled)
    \/ PipeFails \/ StartLast \/ AbandonSub
    \/ main.at = "idle" /\ WaitAny
    \/ \E p \in Pids : WaitPid(p)
    \/ \E j \in JobIds, bg \in BOOLEAN : Resume(j, bg)
    \/ \E S \in SUBSET Listed(tab), z \in BOOLEAN : Jobs(S, z)
    \/ Notify \/ Async \/ Change \/ Trapsig \/ Runtraps

Next == Child \/ Handler \/ Main \/ Command

Spec == Init /\ [][Next]_vars

\* The shell, one thread with its handler, goes on; children and users do as they like.
FairSpec == Spec /\ WF_vars(Handler \/ Main)

-----------------------------------------------------------------------------
\* Every variable has its type.
TypeOK ==
    /\ env \in Env
    /\ monitor \in BOOLEAN
    /\ tab.list \in Seq(JobIds) /\ Len(tab.list) <= MaxJobs
    /\ tab.job \in [JobIds -> [flags : SUBSET Flags, state : 0..3, status : 0..2,
                               pgrp : Pids \cup {0},
                               procs : Seq([pid : Pids, state : 0..3])]]
    /\ tab.njobs \in 0..MaxJobs /\ tab.last \in 0..MaxJobs /\ tab.async \in 0..MaxJobs
    /\ tab.nzombie \in Int
    /\ main \in [at : {"idle", "pipe", "reading", "any", "check", "sleep", "woke", "gone"},
                 j : 0..MaxJobs, kind : {"none", "pid", "any"} \cup Kinds]
    /\ {held_sigchld, handler, chld, trap} \subseteq BOOLEAN
    /\ kern \in [Pids -> [st : {"free", "run", "stop", "dead"}, new : BOOLEAN,
                          sig : BOOLEAN, job : 0..MaxJobs]]
    /\ tty \in Pids \cup {0}

(* Whatever the handler has done in the meantime, the pointers the shell   *)
(* goes on to use point into the job list: the job j_waitj() sleeps on,    *)
(* last_job of a pipeline, async_job; and waitlast() finds the `command`   *)
(* that startlast() started.  Only the job that bg was given while it was  *)
(* async_job, a zombie that $! was not used for, is freed and pointed to.  *)
NoDangling ==
    /\ main.at \in {"check", "sleep", "woke"} => main.j \in Listed(tab)
    /\ main.at \in {"pipe", "reading"} => tab.last = main.j
    /\ main.at = "reading" => "STARTED" \in tab.job[main.j].flags
    /\ tab.last \in Listed(tab) \cup {0}
    /\ tab.async \in Listed(tab) \cup {0, env.freed}

(* remove_job() "keeps [...] async_job up to date": async_job is in the    *)
(* job list.  bg breaks this.                                              *)
AsyncListed == tab.async \in Listed(tab) \cup {0}

(* We keep CHILD_MAX zombie processes around: when a job has become the    *)
(* asynchronous one there are not more, whatever nzombie was thought to    *)
(* be.  The job itself, which j_set_async() spares, is not counted: after  *)
(* set +m and set -m it may be a zombie that bg was given.  A new job in   *)
(* the structure a stale async_job points to has not gone through          *)
(* j_set_async().                                                          *)
ZombieBound ==
    [][env.child_max >= 0 /\ AsyncListed /\ tab'.async \notin {0, tab.async} =>
          Cardinality(Zombies(tab') \ {tab'.async}) <= env.child_max]_vars

(* A job counts as ended only when all its processes have, and its status  *)
(* is how the last one ended; it counts as running only while one runs or  *)
(* the news of the end is still to come.                                   *)
StateTrue ==
    \A j \in Listed(tab) :
        LET job == tab.job[j] IN
        /\ job.state \in Terminal => Alive(j) = {} /\ job.status = LastProc(job).state
        /\ job.state = PRUNNING /\ Alive(j) = {} =>
              chld \/ handler \/ held_sigchld

(* While a pipeline is being built none of its processes has been waited   *)
(* for: the process group leader is there for setpgid(), and the pids that *)
(* a failing fork() has killed are the job's.                              *)
PipelineUnreaped ==
    main.at = "pipe" => PidsOf(tab.job[main.j]) \subseteq Children(main.j)

(* A job $! was used for is not dropped behind the script's back: it goes  *)
(* when it is waited for, when its end has been announced (set -b), shown  *)
(* by jobs or at the prompt, or when it is one of too many zombies.        *)
KnownKept ==
    [][\A j \in Listed(tab) \ Listed(tab') :
          "KNOWN" \in tab.job[j].flags =>
             \/ main.j = j
             \/ handler /\ monitor /\ env.notify
             \/ ~handler /\ tab.job[j].state \in Terminal /\ tab'.async \in {0, tab.async}
             \/ ~handler /\ Cardinality(Zombies(tab)) > env.child_max]_vars

(* The shell does not sleep for ever on a job all whose processes have     *)
(* ended, unless a pipeline has been given up and the signal that was held *)
(* for it is not sent again.                                               *)
WaitReturns ==
    (main.at = "sleep" /\ Alive(main.j) = {} /\ ~env.failed)
        ~> main.at \in {"idle", "any", "gone"}
=============================================================================
