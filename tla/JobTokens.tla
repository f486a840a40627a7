------------------------------ MODULE JobTokens ------------------------------
(***************************************************************************)
(* usr.bin/make: the job tokens that the makes of a parallel build share   *)
(* (job.c), and the loop of each of them that takes a token for every job  *)
(* it starts and gives it back when the job has ended (make.c).            *)
(*                                                                         *)
(* The tokens are bytes in a pipe that the root make creates and its       *)
(* sub-makes inherit: "+" allows one more job, "E" tells everybody that a  *)
(* job failed.  A make needs no token for its first job: that is the one   *)
(* its parent took to start it.  Every read() and write() of the pipe is a *)
(* step of its own; reads do not block, writes do when the pipe is full.   *)
(*                                                                         *)
(* The graph of targets is abstracted to how many nodes are in toBeMade    *)
(* and how many wait for their children.  Jobs are counted; a job is a     *)
(* shell with commands or a sub-make.  Left out: special targets, signals  *)
(* that make catches, -q, -n and -t, meta mode.                            *)
(***************************************************************************)
EXTENDS Integers, Sequences, FiniteSets

CONSTANTS
    Root, SubMakes,  \* the makes of the build
    Parent,          \* [SubMakes -> makes]: who starts a sub-make
    Work, Later,     \* [makes -> Nat]: nodes that can be made at first, and
                     \* those that some other node must be made before
    MaxJobs,         \* -j
    PipeSize,        \* how many bytes the pipe holds
    Options,         \* records [keepgoing, quiet, missing]: -k,
                     \* .MAKE.DIE_QUIETLY, and whether there may be targets
                     \* that make does not know how to make
    MaxKills         \* bound: how many sub-makes are killed

Makes == {Root} \cup SubMakes

ASSUME JobTokensAssumption ==
    /\ Root \notin SubMakes /\ IsFiniteSet(SubMakes)
    /\ Parent \in [SubMakes -> Makes]
    /\ Work \in [Makes -> Nat] /\ Later \in [Makes -> Nat]
    /\ MaxJobs \in Nat \ {0} /\ MaxKills \in Nat
    /\ PipeSize \in Nat /\ PipeSize >= MaxJobs   \* "should clip maxJobs against PIPE_BUF"
    /\ Options \subseteq [keepgoing : BOOLEAN, quiet : BOOLEAN, missing : BOOLEAN]

\* Processes form a tree: a set of sub-makes does not hold all their parents.
ASSUME TreeAssumption ==
    \A S \in SUBSET SubMakes : S # {} => \E s \in S : Parent[s] \notin S

VARIABLES
    opt,    \* the options, fixed from the start and the same for every make
    pipe,   \* the bytes in the job pipe
    mk,     \* the state of each make
    kills,  \* how many sub-makes have been killed
    failed  \* history: has a shell failed

vars == <<opt, pipe, mk, kills, failed>>

-----------------------------------------------------------------------------
None == "none"

(* jobs is how many shells run, good and bad how many have ended so and    *)
(* not been reaped; running is jobTokensRunning and hand a byte that has   *)
(* been read or is about to be written.                                    *)
NewMake(m, pc) ==
    [pc |-> pc, ret |-> None, hand |-> None, aborting |-> None, fatal |-> FALSE,
     running |-> 0, want |-> FALSE, have |-> FALSE, errors |-> FALSE,
     todo |-> Work[m], later |-> Later[m],
     jobs |-> 0, good |-> 0, bad |-> 0, status |-> None]

\* Sub-makes are started by their parents.
Init ==
    /\ opt \in Options
    /\ pipe = <<>>
    /\ mk = [m \in Makes |-> NewMake(m, IF m = Root THEN "server" ELSE None)]
    /\ kills = 0
    /\ failed = FALSE

Live(m) == mk[m].pc \notin {None, "exited"}

\* JOB_TOKENS[aborting].
Token(r) == IF r.aborting = "error" THEN "E" ELSE "+"

\* The process ends: what it runs goes on without it.
Exited(r, status) ==
    [r EXCEPT !.pc = "exited", !.status = status, !.hand = None, !.ret = None]

\* The condition of the loop of Make_Run() or Job_Wait(), and what follows it.
Looped(r) ==
    IF r.running > 0 \/ (~r.fatal /\ r.todo > 0) THEN [r EXCEPT !.pc = "catch"]
    ELSE Exited(r, IF r.fatal \/ r.errors THEN "bad" ELSE "good")

\* The end of JobFinish(): Finish() if the last job is gone after an error.
JobFinished(r) ==
    IF r.aborting = "error" /\ r.running = 0 THEN Exited(r, "bad")
    ELSE [r EXCEPT !.pc = "catch"]

\* Where a make goes on when Job_TokenReturn() returns.
Returned(r, ret) ==
    CASE ret = "loop"   -> Looped(r)
      [] ret = "finish" -> JobFinished(r)
      [] ret = "start"  -> [r EXCEPT !.pc = "start"]

\* Wrong variants: puts the token of the first job in the pipe too; keeps all.
TokenReturnedAlways(r, ret) ==
    [r EXCEPT !.running = @ - 1, !.hand = Token(r), !.ret = ret,
              !.pc = IF Token(r) = "+" THEN "addwrite" ELSE "addflush"]
TokenReturnedNever(r, ret) == Returned([r EXCEPT !.running = @ - 1], ret)

\* Job_TokenReturn(), up to the first system call of JobTokenAdd().
TokenReturned(r, ret) ==
    IF r.running # 1 \/ Token(r) # "+"
    THEN [r EXCEPT !.running = @ - 1, !.hand = Token(r), !.ret = ret,
                   !.pc = IF Token(r) = "+" THEN "addwrite" ELSE "addflush"]
    ELSE Returned([r EXCEPT !.running = 0], ret)

(* Make_Update(): a node has been made, and some of those that waited for  *)
(* it can be made now.                                                     *)
Updated(r) == {[r EXCEPT !.todo = @ + k, !.later = @ - k] : k \in 0..r.later}

\* Only make m takes a step, and its state becomes r.
Becomes(m, r) ==
    /\ mk' = [mk EXCEPT ![m] = r]
    /\ UNCHANGED <<opt, kills, failed>>

-----------------------------------------------------------------------------
(* Job_ServerStart() and JobTokenAdd(). *)

\* One token per job, but for the root's first.
ServerStart(m) ==
    /\ mk[m].pc = "server"
    /\ IF Len(pipe) < MaxJobs - 1
       THEN Len(pipe) < PipeSize /\ pipe' = Append(pipe, "+") /\ Becomes(m, mk[m])
       ELSE UNCHANGED pipe /\ Becomes(m, [mk[m] EXCEPT !.pc = "start"])

\* "If we are depositing an error token flush everything else."
AddFlush(m) ==
    /\ mk[m].pc = "addflush"
    /\ IF pipe = <<>>
       THEN UNCHANGED pipe /\ Becomes(m, [mk[m] EXCEPT !.pc = "addwrite"])
       ELSE pipe' = Tail(pipe) /\ Becomes(m, mk[m])

AddWrite(m) ==
    /\ mk[m].pc = "addwrite"
    /\ Len(pipe) < PipeSize
    /\ pipe' = Append(pipe, mk[m].hand)
    /\ Becomes(m, Returned([mk[m] EXCEPT !.hand = None, !.ret = None], mk[m].ret))

-----------------------------------------------------------------------------
(* MakeStartJobs() and Job_TokenWithdraw(). *)

\* The head of the loop over toBeMade.
StartJobs(m) ==
    LET r == mk[m]
        r0 == [r EXCEPT !.have = FALSE]
        w == [r EXCEPT !.want = FALSE]
    IN
    /\ r.pc = "start"
    /\ Becomes(m,
         CASE r.todo = 0 /\ r.have  -> TokenReturned(r0, "loop")
           [] r.todo = 0 /\ ~r.have -> Looped(r)
           [] r.todo # 0 /\ r.have  -> [r EXCEPT !.pc = "examine"]
           [] r.todo # 0 /\ ~r.have ->
                IF r.aborting # None \/ r.running >= MaxJobs THEN Looped(w)
                ELSE [w EXCEPT !.pc = "read"])
    /\ UNCHANGED pipe

Withdrawn(r) == [r EXCEPT !.running = @ + 1, !.have = TRUE, !.pc = "examine", !.hand = None]

\* Wrong variant: waits for a token also without a job.
WithdrawEmptyWaits(m) ==
    /\ mk[m].pc = "read"
    /\ pipe = <<>>
    /\ Becomes(m, Looped([mk[m] EXCEPT !.want = TRUE]))
    /\ UNCHANGED pipe

\* No token: a make without a job takes the one it was started with.
WithdrawEmpty(m) ==
    /\ mk[m].pc = "read"
    /\ pipe = <<>>
    /\ Becomes(m, IF mk[m].running # 0 THEN Looped([mk[m] EXCEPT !.want = TRUE])
                  ELSE Withdrawn(mk[m]))
    /\ UNCHANGED pipe

\* "We didn't want the token really."
WithdrawToken(m) ==
    /\ mk[m].pc = "read"
    /\ pipe # <<>> /\ Head(pipe) = "+"
    /\ pipe' = Tail(pipe)
    /\ Becomes(m, IF mk[m].running = 0 THEN [mk[m] EXCEPT !.hand = "+", !.pc = "putback"]
                  ELSE Withdrawn(mk[m]))

PutBack(m) ==
    /\ mk[m].pc = "putback"
    /\ Len(pipe) < PipeSize
    /\ pipe' = Append(pipe, mk[m].hand)
    /\ Becomes(m, Withdrawn(mk[m]))

\* "make being aborted - remove any other job tokens"
WithdrawStopper(m) ==
    /\ mk[m].pc = "read"
    /\ pipe # <<>> /\ Head(pipe) # "+"
    /\ pipe' = Tail(pipe)
    /\ Becomes(m, [mk[m] EXCEPT !.hand = Head(pipe), !.pc = "stopflush"])

StopFlush(m) ==
    /\ mk[m].pc = "stopflush"
    /\ IF pipe = <<>>
       THEN UNCHANGED pipe /\ Becomes(m, [mk[m] EXCEPT !.pc = "stopput"])
       ELSE pipe' = Tail(pipe) /\ Becomes(m, mk[m])

\* Wrong variant: keeps the stopper.
StopPutNot(m) ==
    /\ mk[m].pc = "stopput"
    /\ UNCHANGED pipe
    /\ Becomes(m, IF opt.quiet THEN Exited(mk[m], "bad")
                  ELSE Looped([mk[m] EXCEPT !.hand = None, !.fatal = TRUE,
                                            !.aborting = "wait"]))

\* "And put the stopper back"; then exit(6), or Fatal() with Job_Wait().
StopPut(m) ==
    /\ mk[m].pc = "stopput"
    /\ Len(pipe) < PipeSize
    /\ pipe' = Append(pipe, mk[m].hand)
    /\ Becomes(m, IF opt.quiet THEN Exited(mk[m], "bad")
                  ELSE Looped([mk[m] EXCEPT !.hand = None, !.fatal = TRUE,
                                            !.aborting = "wait"]))

-----------------------------------------------------------------------------
(* What becomes of the node that MakeStartJobs() takes from toBeMade. *)

Dequeued(m) == [mk[m] EXCEPT !.todo = @ - 1, !.pc = "start"]

UpToDate(m) ==
    /\ mk[m].pc = "examine"
    /\ \E r \in Updated(Dequeued(m)) : Becomes(m, r)
    /\ UNCHANGED pipe

\* The node has children in toBeMade or being made, or was looked at before.
Defer(m) ==
    /\ mk[m].pc = "examine"
    /\ Becomes(m, [Dequeued(m) EXCEPT !.later = @ + 1])
    /\ UNCHANGED pipe

\* Wrong variant: the next node is made with the same token.
StartShellHolds(m) ==
    /\ mk[m].pc = "examine"
    /\ Becomes(m, [Dequeued(m) EXCEPT !.jobs = @ + 1])
    /\ UNCHANGED pipe

\* JobStart() with a shell to run.
StartShell(m) ==
    /\ mk[m].pc = "examine"
    /\ Becomes(m, [Dequeued(m) EXCEPT !.jobs = @ + 1, !.have = FALSE])
    /\ UNCHANGED pipe

\* The shell runs a make, which has nothing else to do with the shell.
StartSubMake(m, s) ==
    /\ mk[m].pc = "examine"
    /\ Parent[s] = m /\ mk[s].pc = None /\ mk[s].status = None
    /\ mk' = [mk EXCEPT ![m] = [Dequeued(m) EXCEPT !.have = FALSE],
                        ![s] = NewMake(s, "start")]
    /\ UNCHANGED <<opt, pipe, kills, failed>>

\* JobStart() of a node without commands.
StartNothing(m) ==
    /\ mk[m].pc = "examine"
    /\ \E r \in IF mk[m].aborting = None THEN Updated(Dequeued(m)) ELSE {Dequeued(m)} :
          Becomes(m, TokenReturned([r EXCEPT !.have = FALSE], "start"))
    /\ UNCHANGED pipe

\* The sub-makes of m that run.
Running(m) == {s \in SubMakes : Parent[s] = m /\ Live(s)}

(* DieHorribly(): the target is unknown, or vfork() fails.  The process    *)
(* groups of the jobs are killed; the jobs of a sub-make have their own.   *)
Die(m) ==
    /\ mk[m].pc = "examine"
    /\ opt.missing
    /\ mk' = [x \in Makes |->
                IF x = m THEN [Exited(mk[m], "bad") EXCEPT !.jobs = 0]
                ELSE IF x \in Running(m) THEN Exited(mk[x], "bad") ELSE mk[x]]
    /\ UNCHANGED <<opt, pipe, kills, failed>>

-----------------------------------------------------------------------------
(* Job_CatchOutput() and JobFinish(). *)

\* Wrong variant: a failure counts only for a make that goes on.
FinishedForgets(r, ok) ==
    {TokenReturned(u, "finish") : u \in IF ok THEN Updated(r) ELSE {r}}

(* JobFinish() of a job that ended with status 0 or not, up to the return  *)
(* of its token.                                                           *)
Finished(r, ok) ==
    LET e == [r EXCEPT !.errors = @ \/ ~ok]
        a == [e EXCEPT !.aborting = IF e.errors /\ ~opt.keepgoing THEN "error" ELSE @]
    IN  {TokenReturned(u, "finish") :
            u \in IF ok /\ r.aborting # "error" THEN Updated(a) ELSE {a}}

\* poll() returns, and waitpid() has the end of a shell to report.
CatchShell(m, ok) ==
    LET r == mk[m]
        which == IF ok THEN r.good ELSE r.bad
        reaped == IF ok THEN [r EXCEPT !.good = @ - 1] ELSE [r EXCEPT !.bad = @ - 1]
    IN
    /\ r.pc = "catch"
    /\ which > 0
    /\ \E x \in Finished(reaped, ok) : Becomes(m, x)
    /\ UNCHANGED pipe

\* The same for a sub-make, whose status tells whether it has been reaped.
CatchSubMake(m, s) ==
    /\ mk[m].pc = "catch"
    /\ Parent[s] = m /\ mk[s].pc = "exited"
    /\ \E x \in Finished(mk[m], mk[s].status = "good") :
          mk' = [mk EXCEPT ![m] = x, ![s].pc = None]
    /\ UNCHANGED <<opt, pipe, kills, failed>>

Unreaped(m) ==
    \/ mk[m].good + mk[m].bad > 0
    \/ \E s \in SubMakes : Parent[s] = m /\ mk[s].pc = "exited"

(* No child has ended: poll() returns for output, for a token that is      *)
(* wanted, or after POLL_MSEC.                                             *)
CatchNothing(m) ==
    /\ mk[m].pc = "catch"
    /\ ~Unreaped(m)
    /\ Becomes(m, IF mk[m].fatal THEN Looped(mk[m]) ELSE [mk[m] EXCEPT !.pc = "start"])
    /\ UNCHANGED pipe

-----------------------------------------------------------------------------
(* The surroundings. *)

\* A shell ends, and leaves a status for its make if that is still there.
ShellEnds(m, ok) ==
    /\ mk[m].jobs > 0
    /\ LET r == mk[m] IN
       mk' = [mk EXCEPT ![m] =
                IF Live(m) /\ ok THEN [r EXCEPT !.jobs = @ - 1, !.good = @ + 1]
                ELSE IF Live(m) THEN [r EXCEPT !.jobs = @ - 1, !.bad = @ + 1]
                ELSE [r EXCEPT !.jobs = @ - 1]]
    /\ failed' = (failed \/ ~ok)
    /\ UNCHANGED <<opt, pipe, kills>>

\* SIGKILL, or a signal for which JobInterrupt() calls exit().
Kill(s) ==
    /\ Live(s)
    /\ kills < MaxKills
    /\ kills' = kills + 1
    /\ mk' = [mk EXCEPT ![s] = Exited(@, "bad")]
    /\ UNCHANGED <<opt, pipe, failed>>

Step(m) ==
    \/ ServerStart(m) \/ AddFlush(m) \/ AddWrite(m)
    \/ StartJobs(m) \/ WithdrawEmpty(m) \/ WithdrawToken(m) \/ PutBack(m)
    \/ WithdrawStopper(m) \/ StopFlush(m) \/ StopPut(m)
    \/ UpToDate(m) \/ Defer(m) \/ StartShell(m) \/ StartNothing(m) \/ Die(m)
    \/ CatchNothing(m)
    \/ \E ok \in BOOLEAN : CatchShell(m, ok)
    \/ \E s \in SubMakes : StartSubMake(m, s) \/ CatchSubMake(m, s)

Next ==
    \/ \E m \in Makes : Step(m) \/ \E ok \in BOOLEAN : ShellEnds(m, ok)
    \/ \E s \in SubMakes : Kill(s)

Spec == Init /\ [][Next]_vars

\* Every make runs when it can, and every shell ends.
FairSpec ==
    /\ Spec
    /\ \A m \in Makes : WF_vars(Step(m)) /\ WF_vars(\E ok \in BOOLEAN : ShellEnds(m, ok))

-----------------------------------------------------------------------------
\* Every variable of the model stays in its range.
TypeOK ==
    /\ opt \in Options
    /\ pipe \in Seq({"+", "E"}) /\ Len(pipe) <= PipeSize
    /\ mk \in [Makes ->
         [pc : {None, "server", "addflush", "addwrite", "start", "read", "putback",
                "stopflush", "stopput", "examine", "catch", "exited"},
          ret : {None, "start", "loop", "finish"}, hand : {None, "+", "E"},
          aborting : {None, "error", "wait"}, fatal : BOOLEAN,
          running : 0..MaxJobs, want : BOOLEAN, have : BOOLEAN, errors : BOOLEAN,
          todo : Nat, later : Nat, jobs : Nat, good : Nat, bad : Nat,
          status : {None, "good", "bad"}]]
    /\ kills \in 0..MaxKills /\ failed \in BOOLEAN

(* jobTokensRunning counts exactly the jobs that have not been reaped and  *)
(* the token MakeStartJobs() holds: it reaches neither -1 ("token botch")  *)
(* nor more jobs than job_table has slots ("no job slots vacant").         *)
TokenPerJob ==
    \A m \in Makes : Live(m) =>
        mk[m].running = mk[m].jobs + mk[m].good + mk[m].bad + (IF mk[m].have THEN 1 ELSE 0)
            + Cardinality({s \in SubMakes : Parent[s] = m
                                            /\ (Live(s) \/ mk[s].pc = "exited")})

\* How many tokens a make has taken out of the pipe.
TakenBy(r) ==
    IF r.pc \in {None, "exited"} THEN 0
    ELSE (IF r.running > 1 THEN r.running - 1 ELSE 0) + (IF r.hand = "+" THEN 1 ELSE 0)

\* The tokens in the pipe, and those of the makes.
InPipe == {k \in 1..Len(pipe) : pipe[k] = "+"}
Held == {t \in Makes \X (1..MaxJobs) : t[2] <= TakenBy(mk[t[1]])}

Tokens == Cardinality(InPipe) + Cardinality(Held)

\* No make has aborted, died or been killed.
Undisturbed == kills = 0 /\ ~opt.missing /\ \A m \in Makes : mk[m].aborting = None

(* The makes never have more tokens than the -j of the root, whatever      *)
(* fails and whoever dies between a read() and a write(); and none is lost *)
(* unless a make was aborted, died or was killed: failing jobs with -k do  *)
(* not lose any.                                                           *)
TokensConserved ==
    /\ Tokens <= MaxJobs - 1
    /\ Undisturbed /\ mk[Root].pc # "server" /\ Live(Root) => Tokens = MaxJobs - 1

(* The makes all of whose ancestors run: those in a set of running makes   *)
(* with the parent of each.                                                *)
Attached ==
    UNION {L \in SUBSET Makes :
             \A m \in L : Live(m) /\ (m # Root => Parent[m] \in L)}

Shells == {j \in Attached \X (1..MaxJobs) : j[2] <= mk[j[1]].jobs}

(* -j: over all makes, no more shells run at the same time.  A make that   *)
(* dies leaves its shells and its sub-makes behind, and its parent gives   *)
(* the token it was started with to others: those are not counted.         *)
AtMostMaxJobs == Cardinality(Shells) <= MaxJobs

Stopped == \E m \in Makes : mk[m].aborting = "error" /\ mk[m].status = "bad"

(* Once a make has failed and exited, the stopper stays in the pipe, or in *)
(* the hands of one that is about to write it, for all the others to find, *)
(* although each that finds it takes it out.                               *)
StopperKept ==
    Stopped /\ kills = 0 /\ ~opt.missing =>
        \/ \E k \in 1..Len(pipe) : pipe[k] = "E"
        \/ \E m \in Makes : mk[m].hand = "E"

(* If the root returns success, no job of any make has failed and no       *)
(* sub-make was killed.                                                    *)
StatusOfBuild == mk[Root].status = "good" => ~failed /\ kills = 0

(* Every make that is started comes to an end if the shells do: nobody     *)
(* waits for ever for a token that somebody else has, lost or destroyed.   *)
EveryMakeEnds == \A m \in Makes : Live(m) ~> ~Live(m)

=============================================================================
