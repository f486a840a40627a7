# NetBase: TLA+ models and proofs

NetBase is a port of about a hundred NetBSD (and a few OpenBSD) userland
utilities to Linux. The programs are separate processes; they meet in the file
system, through signals, through pipes and through `wait(2)`. Most are sequential
filters. This project models the ones whose correctness depends on interleavings,
partial failure and time: `shlock`, `timeout`, `xargs`, the job table of `ksh`,
`mv`, `tail` and the job tokens of `make`.

## Inventory

| component | state | operations | what is hard | what makes it correct |
|---|---|---|---|---|
| `usr.bin/shlock` | lock file, per-process temporary file and second link, inode link counts and change times | `xtmpfile`, `mklock`, `cklock`, `p_exists` | processes interleave between any two system calls; kills; failing calls; pid and inode reuse | mutual exclusion; only a dead script's lock is broken, once; no links left behind; stale locks go away |
| `usr.bin/timeout` | four handler flags, blocked and pending signals, interval timer, `killsig`, `second_kill` | `sig_handler`, `set_interval`, `parse_duration`, the `sigsuspend` loop | signal delivery before, while and after blocking; stops; coalesced `SIGCHLD`; a timer rearmed by two paths | outlives its command; truthful status; the deadline is kept |
| `usr.bin/xargs` | argument buffer and pointers, quote flags, line count, `inpline`, `curprocs`, `childerr`, `rval` | `parse_input`, `prerun`, `strnsubst`, `run`, `waitchildren` | limits met in the middle of an argument; children ending in any order; shared `childerr` | arguments whole and in order; limits kept; lines replaced in full; status of all; termination |
| `bin/ksh` (`jobs.c`) | job list, process lists, `last_job`, `async_job`, `nzombie`, `held_sigchld` | `exchild`, `startlast`, `waitlast`, `waitfor`, `j_waitj`, `j_resume`, `j_jobs`, `j_notify`, `j_sigchld` | the `SIGCHLD` handler removes jobs between any two steps of the shell; half-started pipelines | no pointer to a removed job; true states; no wait for ever |
| `bin/mv` | source and target names, the copy under way, the child | `do_move`, `fastcopy`, `copy` | failure or kill between copy and remove | the contents are never lost; the status is true |
| `usr.bin/tail` | ring buffers, mapped chunks, open file and position, `action` of each file | `forward`, `reverse`, `rlines`, `displaybytes`, `displaylines`, `r_reg`, `r_buf` | buffer edges; truncation, rename and replacement while followed | what was asked for, each byte once and in order |
| `usr.bin/make` (`job.c`, `make.c`) | job pipe, `jobTokensRunning`, `wantToken`, `aborting` of each make | `Job_TokenWithdraw`, `Job_TokenReturn`, `MakeStartJobs`, `Make_Run`, `JobFinish` | several makes read and write one pipe; failures; kills | tokens neither made nor lost; a failure stops everybody and is reported; no deadlock |
| `bin/dd`, `usr.bin/tee`, `csplit`, `split`, `sort`, `xinstall`, `bin/cp` | buffers, output lists, temporary files | main loops, clean-up | one step of several failing; signals | outputs complete or removed (see Plan) |
| `bin/sh` | job table, parser, expansion | many | job control as in ksh | not planned |
| the other programs of `bin`, `sbin`, `usr.bin`, `usr.sbin`, `src.openbsd`; the rest of ksh and make | none across steps, or large data | argument parsing, text processing and output | data, not control | not modelled |
| `lib` | none of its own | compatibility functions | none | not modelled |

`shlock` and `make` are in the tree but not in the `SUBDIR` list of
`usr.bin/Makefile`. They are modelled all the same: shlock's whole purpose is a
concurrent protocol, and the port is built with a make of this kind (`bmake`).

## Modules

| module | models | kind |
|---|---|---|
| `Shlock` | `shlock.c` | component, its properties and its inductive invariant |
| `AbstractLock` | what "reliable locks" means | abstract specification |
| `MCShlock` | | instances for TLC |
| `ShlockProofs` | | theorems about `Shlock` |
| `Timeout`, `MCTimeout`, `TimeoutProofs` | `timeout.c` | component, instances, theorems |
| `Xargs`, `MCXargs`, `XargsProofs` | `xargs.c`, `strnsubst.c` | component, instances, theorems |
| `Jobs`, `MCJobs`, `JobsProofs` | ksh `jobs.c` | component, instances, theorems |
| `Mv`, `MvProofs` | `mv.c` | component, small enough to be checked as it is; theorems |
| `AbstractMove` | what moving files may look like from outside | abstract specification |
| `TailDisplay` | `forward.c`, `read.c`, `reverse.c`: what is displayed | operators, with a reference definition |
| `Tail`, `MCTail`, `TailProofs` | `tail.c`, `forward()` and following | component, instances, theorems |
| `JobTokens`, `MCJobTokens` | make `job.c`, `make.c`, `main.c` | component (all makes of a build), instances |
| `JobTokensProofs` | | theorems about each make, and about the tokens of all |
| `Induction` | | lemmas on induction and recursion over an interval |

Definitions named as variants ("Wrong variant") are not part of any
specification: each is a plausible mistake in the definition that follows it and
is used to see that a property notices it. `TypeOK` in each module says what its
variables range over; Shlock's is proved and in a run, those of Mv, Timeout and
JobTokens are proved, and all can be added to the `INVARIANTS` of their module's
run, which they pass.

### Shlock

A *client* is a script, known by the pid it passes with `-p`; a *process* is one
run of shlock. Directory entries are variables (`lockf`, `tmp[p]`, `tmp2[p]`)
that hold inode numbers, so `st_nlink` is computed and not stored. An inode has
an `owner` (the pid written in it) and an `age` (seconds since `st_ctime`, which
the code only compares). `pc[p]` names the next system call: each that others
can observe is one action (`Link`, `CkOpen`, `CkFstat`, `CkRead`, `StatTmp`,
`Link2`, `Stat2`, `Rm`, `Rm2`, `StatMine`, `Out2`, `Out`). Calls on files that
nobody else names yet are joined: `open` and `write` of the temporary file,
`stat(tmp)` with `unlink(tmp2)`, and `read` with `kill(pid, 0)`, because a lock's
contents never change once it is linked. `SysErr` and `ExitErr` are the error
paths, `Crash` kills a process and leaves its files. `Start`, `Release`, `Die`
and `Tick` are the scripts and the clock; a script that holds the lock gives it
back by removing the file, as scripts do.

`out2` may be reached before `tmp2` has been filled in; the model takes the
uninitialised buffer to name no file of the protocol. A failing `write` whose
`unlink` fails as well, which leaves a temporary file without a pid, is left out:
a later process of that pid unlinks whatever it finds under the name.

Check-only mode (no `-p`) changes nothing: it is `CkOpen` and `CkRead`.

### Timeout

One thread and its handler. `phase` is the position in `main()`. Before
`sigprocmask()` a signal runs `Handle` at once; afterwards it joins `pending`
and one `Sigsuspend` step handles one signal, since the handler's mask blocks
the others and the blocking mask returns with it. `KillAndGoOn` is the tail that
the timer branch and the signal branch share. `pgid` is what `setpgid()`
returned, 0, so `killpg` means timeout's own group and the signal reaches
timeout too. The command is `preexec` until its exec (with timeout's handlers in
place), then `running`, `stopped`, `zombie`, `reaped`; it may catch everything
but `SIGKILL`. `sent` is a history variable.

`fork()` may fail, after which `err()` ends timeout without a command. The kernel
sends `SIGCHLD` when the command ends, stops and, as Linux does without
`SA_NOCLDSTOP`, when it continues.

SIGHUP and SIGQUIT behave as SIGTERM and SIGINT, which stand for them. Left out:
`-s` with `SIGSTOP` or 0; durations with a fraction, and those too long for a
`time_t`. On the whole seconds of the model the conversion in `set_interval()`
changes nothing.

### Xargs

The buffer holds positions of the input instead of characters, so that a lost or
misplaced byte shows, and pointers are offsets from `bbp`. One action reads one
character; `EndArg` is the code from label `arg2`, `AddCh`, `AddChRefused` and
`AddChCarry` the code from `addch`. The options are one record, and inputs,
results and faults are chosen for each. With `-I` the argument also joins
`inpline`, whose allocated size is kept, and `prerun()` gives each argument of
the utility to `strnsubst()` with the limit of `-S`. `vfork` makes the parent
wait for exec or `_exit`, so a failed exec sets `childerr` in the same step as
`Run`. `WaitReap` and `WaitDone` are the iterations and the end of
`waitchildren()`. `Words` is the reference for splitting: the arguments of an
input by a definition that knows no buffer; `Joined` and `Substituted` are the
reference for `-I`. Left out: `-J`, `-t`, `-o`, and `-I` without a utility.

### Jobs

A job is known by its age, so that a pointer to a job that was removed shows.
`remove_job()` puts a job on the free list with its flags still set, and so does
`RemoveJobs`: `j_set_async()` reads the flags of a job it may have removed.
`new_job()` takes from the free list, so that a freed job that `async_job` still
points to may come back as a new one (`recycled`).

Each function of `jobs.c` that changes the table is an operator from a table to
a table (`RemoveJobs`, `PutJob`, `SetAsync`, `CheckJob`). The handler is three
kinds of step, `Sigchld` (entry, and `held_sigchld` while a pipeline is half
started), `Waitpid` (one child) and `SigchldReturns`; it may run wherever the
shell does not block `SIGCHLD` (`Unblocked`). `main.at` says where the shell is:
between commands, between two stages of a pipeline, reading a substitution, in
`wait` without an argument, or before, inside and after `sigsuspend()` in
`j_waitj()`, or that it has gone (`errorf()` in a script, a signal that is fatal).
`kern` is the kernel's view of the children, which may end, stop and continue at
any time. The circumstances (interactive or not, stops, traps,
failing `fork()` or `pipe()`, pid reuse, changes of `-m`) come from `env`, which
also has two history fields: `failed` (a pipeline was given up and the signal held
for it will not come again) and `freed` (the job that `bg` has freed and made
`async_job`). `jobs` shows all jobs, one, or with `-n` any set (the mark
`JF_CHANGED` is not kept), and zombies only with `-z`.

Left out: coprocesses, `j_kill`, `j_exit`, tty modes, printing, the child's side
of `exchild()`, a failing `killpg()` in `j_resume()`, and the `SIGCHLD` of a child
that continues, for which `waitpid()` has nothing to report.

### Mv

One action is one system call that can fail or be seen, or the end of a child;
`Killed` may come between any two. What is under a name is `whole`, a `part`,
`old` (the former target), a `link` to the source, or nothing. `same` says that
target and source are on one file system, which decides whether `rename()` works.
`fastcopy()` copies block by block; other kinds of files go to `cp` and `rm`,
which may fail at any point. `why` is a history variable. Attributes, whose
failure is only reported, and messages are left out. So are an `lstat()` of an
existing target that fails, and two sources with the same basename in one call:
the second replaces what the first has become, as it would any other old target,
so `NeverLost` speaks of sources with targets of their own.

### Tail

Bytes are numbers, so that the output shows what was lost or repeated.
`TailDisplay` has each algorithm next to a reference definition of what it should
display: `rlines()` in mapped chunks, `displaybytes()` and `displaylines()` with
their rings, `r_reg()` and `r_buf()`. `Tail` opens, displays and follows: `action`
is the state machine of `forward()`. `kqueue()` and `kevent()` are the stubs of
`include/sys/event.h`, which return 0 at once; that is what the port links.
Others append, truncate, rename, remove and create files, or give a renamed file
its name back, at any point. `hist` is a history variable. One file argument, not
standard input; headers and the obsolete syntax are left out.

### JobTokens

The pipe is a sequence of bytes, `+` and `E`. Each `read()` and `write()` of it is
a step; `hand` is a byte between the two. The graph of targets is abstracted to
`todo` (nodes in `toBeMade`) and `later` (nodes that wait for others), which any
finished node may move. A job is a shell or a sub-make; shells end well or badly,
sub-makes run the same code and may be killed. Left out: special targets, signals
that make catches, `-q`, `-n`, `-t`, meta mode, the collection of output.

## Runs

Deadlock is checked in the shlock runs: time always passes. It is off for the
others, whose programs end.

| run | shows |
|---|---|
| `shlock_mutex` | `Mutex`, `OnlyStaleBroken`, `CleanExit` and `TypeOK` with three scripts, two processes, four inodes |
| `shlock_crash` | with a kill at any point and failing calls: the inductive invariant `LockInv`, and that scripts see an atomic lock (`ImplementsAbstractLock`) |
| `shlock_recovery` | a dead script's lock goes away while a live one keeps trying |
| `timeout` | timeout outlives its command, tells the truth, remembers `SIGCHLD`, ignores its own signal; under fairness the deadline is kept and the command's end is noticed |
| `xargs` | inputs up to 5 characters under 58 option sets, and pools of one and two utilities with failing `vfork` and `exec`: limits, order, completeness, replacement, the bound of `-P`, the status of all utilities, and that xargs ends |
| `ksh_jobs` | no pointer to a removed job but the one that `bg` frees, true states, pipelines unreaped while they are built, jobs of `$!` kept, zombies bounded, and no sleep for ever on a job that has ended, under 13 circumstances |
| `mv_faults` | two sources, three failing calls and a kill: nothing lost, true status, no partial copies, and the refinement of `AbstractMove` |
| `tail_follow` | all texts up to 6 bytes under every style against the reference; `-f` and `-F` against three changes: shown in order, caught up with, and the new file found |
| `make_tokens` | a root and two sub-makes with `-j 2`: a token for each job, tokens conserved, at most `-j` shells, the stopper kept, the failure reported, and every make ends |

Runs that are expected to fail show where the code does not do what a comment or
its usage text says:

| run | shows |
|---|---|
| `shlock_inode_reuse` | a reused inode number defeats the `st_ino` comparison: two holders |
| `timeout_disarmed` | foreground: a signal after the first kill disarms the SIGKILL timer |
| `tail_large_file` | a file larger than `MMAP_MAXSIZE` whose size is not a multiple of the page size: `mmap()` is refused and nothing is displayed |

Other behaviours of the code that surprise; the models contain those of the first
list, each to be seen by changing a `.cfg` as said or in the definition named.

* shlock: `-u` and text users of one lock break each other's live locks (`Mutex`
  with `Style <- MixedStyle`, `ReuseInodes = FALSE`).
* shlock: a winner that sees a breaker's second link at `StatMine` answers
  `LOCK_FAIL` and leaves its lock file in place.
* shlock: a kill between `link` and `unlink` leaves a lock that is never broken,
  although `shlock.c:214-217` expects no trouble (`shlock_recovery` with
  `MaxCrashes = 1`).
* timeout: `sig_term` is never cleared, so after a user's signal and with `-k`,
  SIGKILL follows at the next wake-up (`DispatchTerm`).
* timeout: a stopped command sends timeout into `wait()` with `SIGALRM` blocked
  (`timeout_disarmed` with `MaxSignals = 0`, `MaxStops = 1`).
* timeout: a negative duration without a unit makes timeout exit after it has
  started its command (`NeverAbandons` with `Numbers <- AnySign`).
* timeout: an inherited child's `SIGCHLD` may swallow the command's, since
  `wait()` is called once for both (the exception in `ChildDeathRemembered`).
* xargs: a quoted empty argument that ends the input right after a run is dropped
  (`AllButLastEmpty`); a proper prefix of the `-E` string, even the empty one
  between two blanks, ends the input (`FoundEof`).
* xargs: `-x` without `-L` runs the utility at every separator (`LimitReached`);
  with `-I` a blank line runs it with an empty replacement; an argument that
  becomes exactly `-S` bytes long loses its last one (`LineReplaced`).
* xargs: with `-P 2` a failed exec may be forgotten, because the next run clears
  `childerr` (the condition in `StatusOfAll`); each inherited child reaped lets
  one more utility run than `-P` says (`AtMostMaxProcs`).
* ksh: `set -m; cmd & set +m`, the end of `cmd`, `set -m; bg`: `cmd` is a zombie and
  `async_job`, so `j_set_async()` removes it, finds its flags as they were and
  makes the freed job `async_job`, although `jobs.c:1679` says that `remove_job()`
  keeps `async_job` up to date. The next job may then be given the same structure
  (`AsyncListed` as an invariant of `ksh_jobs`; the exception in `NoDangling`).
* ksh: after a `pipe()` that fails in the middle of a pipeline the job stays half
  started, `SIGCHLD` is held for ever and later waits do not return. After a
  `fork()` that fails there the job is killed and removed, but `held_sigchld`
  stays set: a `SIGCHLD` that was held is lost unless one of the killed stages
  sends another, and a `wait` for the job it was about sleeps for ever
  (`env.failed`, the exception in `WaitReturns`, which fails without it). In
  neither case is the tty taken back.
* ksh: a trapped signal that arrives just before `sigsuspend()` is noticed only
  after the next one.
* mv: if `vfork()` fails and mv has an inherited child that ends with 0, `rm -rf`
  follows although nothing was copied (`NeverLost` with `Inherited = {TRUE}`).
* mv: a failing `malloc()` or `close()` leaves a partial target (`NoPartLeft`); a
  target that is a link to the source stays, and so does the source, with status
  0; the old target is lost when the copy fails.
* tail: a newline that ends a mapped chunk is overlooked, `-r -c` on a pipe
  drops the first line of a short input, `r_buf()` reads a length that was never
  set (the exceptions of `DisplaysAskedUsually`).
* tail: a truncation while following is never noticed; one between `fstat()` and
  `mmap()` ends in `SIGBUS`; following is a busy loop; a failing `freopen()` ends
  `-F`.
* make: with `-k`, a target that make does not know how to make kills the running
  jobs all the same (`Die`), although `job.c:1366-1368` says otherwise; a
  killed or dying sub-make takes its tokens with it; a `+` may precede the stopper
  in the pipe, so that one more job starts.

Outside the models: timeout's positive duration below a microsecond means no
limit; `buf[len + 1]` in `cklock()` is one byte beyond the terminator's place; the
pid of a dead owner may be given to a new process, which makes its lock valid; in
ksh `CHILD_MAX` may be -1, which removes all other zombies each time; mv does
not `fsync()` before it removes the source; make's `exit(6)` in a quiet
abort leaves shells running, and a pipe that holds fewer bytes than `-j` says
blocks `Job_ServerStart` (the assumption `PipeSize >= MaxJobs`).

### Bounds

* Shlock: two processes at a time, each pid reused by later ones. The
  protocol compares with link counts of 1 and 2, so two are the fewest that
  disturb each other; the theorems cover any number. Three scripts let a third
  take the lock while two breakers work. Four inodes let both processes, the
  lock and a remembered number be distinct. `MaxAge = 2`: ages saturate; `Tick`
  bounds the life of one shlock process to `MaxAge - 1` seconds, so that
  saturation never confuses the one comparison. `ReuseInodes = FALSE` means that
  an inode number is not handed out while a process remembers it.
* Timeout: durations 0 and 1 with and without a unit, two signals (one may follow
  the first kill), one stop, an inherited child or none.
* Xargs: sizes 1 to 6 and counts 1, 2 and "no limit" make inputs of 5 characters
  meet every limit in the middle and at the end of an argument. Four
  words make a pool of two overflow. `-S` 3, 6 and 9 lie below, among and above
  the lengths of the replaced arguments.
* Jobs: two jobs, pipelines of up to two stages, three pids; one circumstance at a
  time and each falling anywhere. `CHILD_MAX` is 0 or 1, so that one zombie may
  be too many; that the right number is removed of any more is proved. Two changes of `-m` are what it takes to make `bg`
  free `async_job`.
* Mv: two sources, so that a failure is followed by a success; two blocks, so
  that a copy may stop half-way; three failures, since the clean-up after one may
  fail too.
* Tail: `MMAP_MAXSIZE`, the page and the block are 2 bytes and offsets 0 to 3, so
  that 6 bytes are three chunks and wrap every ring; three inodes and three
  changes allow two rotations.
* JobTokens: all options (`.MAKE.DIE_QUIETLY` without `-k` only, since with `-k` no
  failing job stops anybody), `-j 2` with three makes, so that tokens are short; two or one nodes
  each, and one that waits for others; a pipe of 3 bytes; one kill.

### Fairness

* Shlock: each process goes on (`WF` on its steps), time passes, and a live
  script that was refused tries again, as the usual `until shlock ...` loop does.
  Nothing forces a script to release, die or be killed. `StaleLockRecovered` is
  checked with two scripts, hence one live contender; two contenders in step may
  refuse each other for ever, which the code does nothing to prevent.
* Timeout: `main()` goes on, a running timer expires, the command reaches its
  exec. The command need never end, stop or continue.
* Xargs: xargs goes on, and utilities end.
* Jobs: the handler and the waiting shell go on; children and commands need not.
* Tail: tail goes on with `-f` and `-F`; the others need not change anything.
* JobTokens: each make goes on when it can, and every shell ends.

Mv has no fairness; all its properties are about safety.

## Proofs

Every theorem holds for all values of the constants: any number of scripts,
processes, files, blocks, jobs, pids or makes, any options, inputs, faults and
kills. It rests on the `ASSUME`s of its module, which say what the constants
range over, and on the hypotheses named here. In each proof the inductive
invariant was checked by TLC before it was proved.

| theorem | states | hypothesis |
|---|---|---|
| `ShlockProofs!TypeCorrect` | `TypeOK` | |
| `LockInvariant`, `MutualExclusion`, `HolderKeepsLock`, `OneBreaker`, `StaleOnly`, `Refinement` | `LockInv`, `Mutex`, ..., `OnlyStaleBroken`, `ImplementsAbstractLock` | `SoundUse` |
| `NothingLeft` | `CleanExit` | `Undisturbed` |
| `MvProofs!TypeCorrect`, `NoPart` | `TypeOK`, `NoPartLeft` | |
| `ContentsKept`, `StatusTrue`, `Refinement` | `NeverLost`, `ExitTrue`, `ImplementsAbstractMove` | `NoneInherited` |
| `TimeoutProofs!TypeCorrect`, `ReturnsChild`, `DeathRemembered`, `OwnIgnored` | `TypeOK`, `ReturnsForChild`, `ChildDeathRemembered`, `OwnSignalIgnored` | |
| `NotAbandoned` | `NeverAbandons` | `NonNegative` |
| `XargsProofs!PoolBounded`, `StatusTrue`, `LimitsKept` | `AtMostMaxProcs`, `StatusOfAll`, `WithinLimits` | |
| `ArgsDelivered`, `AllDelivered`, `LinesReplaced` | `ArgsInOrder`, `AllButLastEmpty`, `LineReplaced` | |
| `JobsProofs!PointersValid`, `StagesThere` | `NoDangling`, `PipelineUnreaped` | |
| `StatesTrue`, `KnownStay`, `ZombiesBounded` | `StateTrue`, `KnownKept`, `ZombieBound` | `NoReuse` |
| `JobTokensProofs!TypeCorrect`, `TokensCounted`, `StatusTrue`, `StopperStays` | `TypeOK`, `TokenPerJob`, `StatusOfBuild`, `StopperKept` | |
| `TokensKept`, `JobsBounded` | `TokensConserved`, `AtMostMaxJobs` | |
| `TailProofs!InOrder` | `ShownInOrder` | |
| `DisplaysForward` | `DisplaysAskedUsually` | `Forwards` |

The hypotheses. `SoundUse`: inode numbers are not reused while remembered,
`cklock()`'s read does not fail and all scripts use one format; the run
`shlock_inode_reuse` shows that the first cannot be dropped, and the same run with
`Style <- MixedStyle`, `ReuseInodes = FALSE` and no symmetry shows it of the last.
`Undisturbed`: no kills and no failing calls, which do leave links behind.
`NoneInherited`: mv was not given a child by an `exec`; with one, `NeverLost` is
false. `NonNegative`: the durations are not negative; with one that is,
`NeverAbandons` is false. `NoReuse`: no pid that the job table still names is
given to a new process; with stopped pipelines and reuse, the handler's search can
find an older stopped job with the pid of the one that ended, so `StateTrue` is
false. The run `ksh_jobs` has reuse and stops in different circumstances.
`Forwards`: no `-r`, and a file or, with `+`, any input; that is, the cases in
which `forward()` displays without the ring buffers of `read.c` and `reverse.c`.

### Shlock

Mutual exclusion follows from `HolderHasLock`: the lock's inode has
one pid in it. For that to be inductive, every removal of the lock must be of a
dead script's file, which needs who owns what at each label:
`ClientWaits` (a process has one client, which waits or has died), `TmpOwned`
and `TmpPrivate` (until `link`, the temporary file has the client's pid in it
and nobody else can name or remember it), `WonHasLock` (from `link` to exit the
lock is that file), `FdOpen` and `LockOwned` (what `cklock` reads),
`BreaksStale` (what is being broken belonged to a dead script; scripts do not
come back) and `SecondLink` (at `unlink(file)` the lock is still the file
examined, with the process's own second link on it, and nobody else is there).
Only `Stat2` needs to count: two processes with second links and the lock itself
make a link count of at least 3 (`TwoBreakersSeen`), so both cannot have read 2.
`TypeOK` alone is not inductive, because `CkFstat` applies `age` to `fd[p]`; it
is proved together with `FdOpen`. `CleanExit` needs `LinksInv`: there is a second
link only between `link2` and `out2`, and then `st` holds what makes `out2`
unlink it.

### Mv

`PartInv` says what is under the new name at each call of `fastcopy()`, and that
later sources have not been touched. `MoveInv` adds, for the contents: past
`rename()` the names are on different file systems (`Apart`), the source is whole
until the target is (`CurrentKept`), what `rm` is started for (`ChildTrue`), and
why each earlier source ended as it did (`OutcomeTrue`). The refinement follows
step by step; the copying of a block and the failures are stutters.

### Timeout

`ReturnsForChild` needs that the last `wait()` is entered only after a signal
(`StatusKnown`) and that `timedout` implies one sent by the alarm branch
(`AlarmSent`). `OwnSignalIgnored` needs `OwnSignalKnown`: as long as nobody sent a
signal, the only terminating signal pending is the one in `sig_ign`; and once
that is set `killsig` is `SIGKILL`, so that it is not overwritten before the
handler has cleared it.

### Xargs

`PoolInv`: `curprocs` is the number of utilities not reaped, less the inherited
children that were reaped in their place. `StatusInv`: `rval` tells whether a child
reaped so far ended with 1; with one utility at a time `childerr` is about the
only child there is. `WithinLimits` needs `BufferInv`: the complete arguments,
each with its `\0`, and then the begun one fill the buffer up to `p` without a gap
(`Packed`), so that the bytes given to a utility are at most `p`. The sum over a
batch is a recursive function; its value is found by induction (`Induction!UpTo`).

`ArgsInOrder` compares the in-place parser with `Words`, which reads the whole
input first. `ParseInv` relates the two after every character, for inputs of any
length: the arguments already run, then the complete ones in the buffer, then the
begun one are what the reference has found in as many characters (`Agreed`), with the same
quotes and the same escape pending; once the input is given up they are a prefix
of it. `Words` is a recursive function of the number of characters
(`WordsUpTo`), and `WordsUnfold` gives its one step, so that each step of the
parser meets one step of the reference. `EofInv` adds that no argument seen is
the `-E` string. For `AllButLastEmpty`, `Whole` says that at the end of the input
without `-E` nothing is left out but one empty argument. `TextAssumption` says only
that the characters of the input are those the model distinguishes.

`LineReplaced` needs that `inpline` is the text of the arguments in the
buffer joined by blanks (`LineText`), and that each run was given `prerun()` of its own
(`RunsGiven`). That `strnsubst()`, which goes from one match to the next and
watches `-S`, then makes what replacing every match makes is `SubstExact`: its
loop and the reference unfold together, character by character, as long as the result
stays below the limit (`SubstLengths`).

### Jobs

`PointersValid` needs only `Typed`, `PlaceInv` and `AsyncInv`: a job that is waited
for or read from has `JF_WAITING`, so that `check_job()` does not remove it, and
while a pipeline is built its job is not `JF_STARTED`, so that there is no handler.
`AsyncInv` is about `async_job`: it is in the list, or it is `env.freed`, the job
that `bg` found to be an unknown zombie and `async_job` already. Any number of
changes of `-m` is allowed; that `AsyncListed` fails in `ksh_jobs` shows
that the exception is needed.
`StagesThere` adds which child belongs to which job. `StatesTrue` needs the whole
agreement between table and kernel (`TableInv`: each child is a process of exactly
the job the kernel has it under, process states follow the kernel's, job states
follow the processes') and `NewsInv` (an unreaped death is pending, held or being
handled). `KnownKept` and `ZombieBound` rest on the same agreement and on
`ZombiesTrue`: `nzombie` is the number of zombies, and all processes of a zombie have
been waited for. Hence `check_job()`, which is called when a child has just been
waited for, never makes a job a zombie twice, and `j_set_async()` removes as
many as are too many; how many `Oldest` leaves is a counting argument
(`OldestFacts`). With reused pids a zombie can be checked again and be counted
twice, which is why `NoReuse` is needed. `ZombieBound` leaves out the job that
becomes the asynchronous one: `j_set_async()` spares it, and with two changes
of `-m` (`set +m`, `set -m`) `bg` can make a zombie that job, so that there are
`CHILD_MAX + 1` with it; and it speaks of jobs that go through `j_set_async()`,
which one that `new_job()` puts in the place of a freed `async_job` does not.
`Without` unlinks jobs by a recursive function, whose result is found
with `Induction!Recursion`.

### JobTokens

`MakeInv` is about each make's record and its sub-makes: `jobTokensRunning` balances
(`Balanced`), and a make with a sub-make not yet reaped has not exited with
success (`ParentKnows`). Every step changes a record as `StepOK` allows. That a
failure deep in the tree reaches the root is an induction along `Parent`, for which
`TreeAssumption` says that processes form a tree. `TokensConserved` is part of
its own invariant, `CountInv`, with where a make may put tokens back and that
there is no stopper as long as nobody aborts. `AtMostMaxJobs` follows by giving
each shell but the first of each make its own token, and each first one the
token of the parent that started the make.

`AtMostMaxJobs` counts the shells of the makes all of whose ancestors run. For a
tree of makes that is deeper than the run's, the count over all makes is wrong: a
killed make leaves its sub-makes behind, and the parent gives the token of the dead
one to another job.

### Tail

`InOrder`: `FollowInv` says that every byte is in one file and one file has the
name (`FilesApart`), that the file tail has open is the one `sbp` names and is not
given to anybody else while it is open (`KnowsFile`), that nothing has been shown of
another file that has the name (`OtherUnseen`), and, for the file that is open,
`ShownInOrder` itself (`FileShown`). `OtherUnseen` is what makes it inductive:
`freopen()` starts a file at its first byte, which must not have been shown. At the start
of the following `hist.first` and the offset come from the display, so the
positions that `rlines()` and the skipping of lines return have to be in the
file (`RlinesWithin`, `SkipWithin`).

`DisplaysForward`: `DisplayInv` says that what has been written, followed by what is
left to read from the offset, is what was asked for. The work is in `rlines()`.
After any number of chunks the search has counted the newlines behind it and has
that many fewer to find, or it has found the start of the line (`Right`,
`ChunkRight`); the reference counts from the starts of lines instead, of which
there is one for each newline but the last byte's, and one more (`StartsCount`).
That no newline ends a chunk is used once, where the search goes on to the next
chunk; it is where the code goes wrong without it.

`OptsAssumption` says that sizes and offsets are natural numbers and that newlines
are positions in the input.

### Only model-checked

* Liveness under fairness, which the prover does not do: `StaleLockRecovered`, the
  deadline and the end of Timeout, `Terminates`, `WaitReturns`, `CaughtUp`,
  `FollowsName`, `EveryMakeEnds`.
* `DisplaysAskedUsually` with `-r` and for the last bytes or lines of a pipe: the
  ring buffers are folds of the community modules, whose definition is a recursion
  over sets that the prover cannot unfold. Where a recursion runs over an interval
  (`Bytes`, `Without`, `Words`, `ArgsOf`, `Joined`, `Substituted`, `strnsubst`,
  `rlines`) the lemmas of `Induction` find what it computes; they are stated for sets
  and functions, because the prover cannot apply the library's induction theorems,
  which take an operator.

## Plan

Done: all modules, and theorems for all components that are modelled.

Left: `Tee`, `Dd`, `Csplit`, for one output or step of several failing and
clean-up. `xinstall`'s temporary file and `rename()` ask what Mv has answered.

## Not modelled

The repository has some 930,000 lines in more than 2,400 files. The port's
makefiles build about a hundred programs of it; the rest is NetBSD source that
came with the import, among it all daemons of `usr.sbin` and `sbin` (of which
only `chroot`, `link`, `unlink`, `chown` and `mknod` are built).

What is built is nearly all without concurrency or persistent state: filters,
parsers, formatters, interpreters. Its correctness is in what it computes from
unbounded data, which a model checker would see only on tiny inputs and a test
sees better. The models therefore stand for a small share of the lines, the share
in which an interleaving, a failure in the middle or a clock decides the outcome.
The daemons that are not built have such parts of their own (`rpc.lockd`,
`timed`, `lpr`); they are left out because nothing in the port runs them.

`bin/sh` has job control of its own; its questions are those `Jobs` asks of ksh,
and the repository's README advises against its use.
