------------------------------- MODULE Timeout -------------------------------
(***************************************************************************)
(* usr.bin/timeout: run a command, signal it when its time is up, and send *)
(* SIGKILL when it is still there a second interval later (-k).            *)
(*                                                                         *)
(* The process is one thread and its signal handler.  Before sigprocmask() *)
(* a signal runs the handler at once; afterwards it stays pending, and one *)
(* sigsuspend() lets one handler run, because the handler's mask blocks    *)
(* the others and the blocking mask is back when it returns.               *)
(***************************************************************************)
EXTENDS Integers

CONSTANTS
    KillSigs,     \* values of -s considered, among those with a handler, and "KILL"
    Numbers,      \* the numbers in the duration arguments considered
    Units,        \* and the units after them: "", "s", "m", "h", "d"
    MaxSignals,   \* bound: how many SIGTERM, SIGINT... timeout is sent
    MaxStops,     \* bound: how many times the command stops (job control)
    Inherited     \* BOOLEAN: may timeout be exec'ed by a process with a child

TermSigs == {"TERM", "INT"}                  \* also HUP and QUIT in the code
None == "none"

ASSUME TimeoutAssumption ==
    /\ KillSigs \subseteq TermSigs \cup {"USR1", "KILL"}
    /\ Numbers \subseteq Int
    /\ MaxSignals \in Nat /\ MaxStops \in Nat
    /\ Inherited \in BOOLEAN

ASSUME UnitsAssumption == Units \subseteq {"", "s", "m", "h", "d"}

VARIABLES
    opt,       \* the options, fixed from the start
    phase,     \* where main() is
    flags,     \* sig_chld, sig_alrm, sig_term, sig_ign
    pending,   \* blocked signals waiting for sigsuspend()
    timer,     \* is ITIMER_REAL running
    killsig, second, timedout,  \* the locals of main() that change
    child,     \* the command
    other,     \* a child that timeout inherited, or None
    status,    \* whose wait status pstat holds, or None
    sent,      \* history: the signals sent, with the branch that sent them
    signals, stops   \* how many signals and stops so far

vars == <<opt, phase, flags, pending, timer, killsig, second, timedout,
          child, other, status, sent, signals, stops>>

ended == {"done", "err", "killed"}

-----------------------------------------------------------------------------
\* Wrong variant: sig_ign is not looked at.
HandleNoIgn(f, s) ==
    [f EXCEPT !.chld = @ \/ s = "CHLD",
              !.alrm = @ \/ s = "ALRM",
              !.term = IF s \in TermSigs THEN s ELSE @]

\* sig_handler(): what the handler for s makes of the flags f.
Handle(f, s) ==
    IF f.ign # None /\ s = f.ign
    THEN [f EXCEPT !.ign = None]
    ELSE [f EXCEPT !.chld = @ \/ s = "CHLD",
                   !.alrm = @ \/ s = "ALRM",
                   !.term = IF s \in TermSigs THEN s ELSE @]

\* Signal s reaches timeout, which may be in any phase.
Deliver(s) ==
    IF phase \in {"prefork", "preblock"}
    THEN flags' = Handle(flags, s) /\ UNCHANGED pending
    ELSE pending' = pending \cup {s} /\ UNCHANGED flags

(* parse_duration(): the seconds that number n with unit u stands for, or  *)
(* nothing if it is refused; the range is checked only if there is a unit. *)
Scale(u) == CASE u = "m" -> 60 [] u = "h" -> 3600 [] u = "d" -> 86400 [] OTHER -> 1

OutOfRange(t) == t < 0 \/ t >= 100000000

ParseDuration(n, u) ==
    LET t == n * Scale(u) IN
    IF u # "" /\ OutOfRange(t) THEN {} ELSE {t}

Durations == UNION {ParseDuration(n, u) : n \in Numbers, u \in Units}

\* Wrong variant: one second is too short.
TimerForLonger(d) == d > 1

(* set_interval(): setitimer() refuses a negative time, and 0 turns it     *)
(* off.  Durations are whole seconds that fit time_t.                      *)
TimerFor(d) == d > 0
SetitimerFails(d) == d < 0

Live == {"preexec", "running", "stopped"}

(* The states the command may be in after signal s: SIGKILL ends it; until *)
(* exec it still has timeout's handlers, which only set flags; afterwards  *)
(* it dies of s or has s caught or ignored; a stopped one takes s later.   *)
After(s) ==
    IF child \in Live /\ s = "KILL" THEN {"zombie"}
    ELSE IF child = "running" THEN {"running", "zombie"}
    ELSE {child}

-----------------------------------------------------------------------------
\* Options parsed, process group made, handlers installed.
Init ==
    /\ opt \in [foreground : BOOLEAN, again : BOOLEAN, sig : KillSigs,
                first : Durations, second : Durations]
    /\ phase = "prefork"
    /\ flags = [chld |-> FALSE, alrm |-> FALSE, term |-> None, ign |-> None]
    /\ pending = {}
    /\ timer = FALSE
    /\ killsig = opt.sig
    /\ second = opt.second
    /\ timedout = FALSE
    /\ child = None
    /\ other \in IF Inherited THEN {"running", None} ELSE {None}
    /\ status = None
    /\ sent = {}
    /\ signals = 0
    /\ stops = 0

\* fork(), which may fail: err().
Fork ==
    /\ phase = "prefork"
    /\ \/ phase' = "preblock" /\ child' = "preexec"
       \/ phase' = "err" /\ UNCHANGED child
    /\ UNCHANGED <<opt, flags, pending, timer, killsig, second, timedout,
                   other, status, sent, signals, stops>>

\* Wrong variant: forgets what the handler has seen before the signals are blocked.
BlockForgets ==
    /\ phase = "preblock"
    /\ phase' = "arm"
    /\ flags' = [flags EXCEPT !.chld = FALSE]
    /\ UNCHANGED <<opt, pending, timer, killsig, second, timedout,
                   child, other, status, sent, signals, stops>>

Block ==
    /\ phase = "preblock"
    /\ phase' = "arm"
    /\ UNCHANGED <<opt, flags, pending, timer, killsig, second, timedout,
                   child, other, status, sent, signals, stops>>

Arm ==
    /\ phase = "arm"
    /\ timer' = TimerFor(opt.first)
    /\ phase' = IF SetitimerFails(opt.first) THEN "err" ELSE "suspend"
    /\ UNCHANGED <<opt, flags, pending, killsig, second, timedout,
                   child, other, status, sent, signals, stops>>

\* Wrong variant: one handler runs and the other pending signals are lost.
SigsuspendDrops ==
    /\ phase = "suspend"
    /\ \E s \in pending : flags' = Handle(flags, s)
    /\ pending' = {}
    /\ phase' = "woke"
    /\ UNCHANGED <<opt, timer, killsig, second, timedout,
                   child, other, status, sent, signals, stops>>

Sigsuspend ==
    /\ phase = "suspend"
    /\ \E s \in pending :
          /\ pending' = pending \ {s}
          /\ flags' = Handle(flags, s)
    /\ phase' = "woke"
    /\ UNCHANGED <<opt, timer, killsig, second, timedout,
                   child, other, status, sent, signals, stops>>

\* if (sig_chld): clear it and call wait(), which blocks until a child ends.
DispatchChld ==
    /\ phase = "woke"
    /\ flags.chld
    /\ flags' = [flags EXCEPT !.chld = FALSE]
    /\ phase' = "wait"
    /\ UNCHANGED <<opt, pending, timer, killsig, second, timedout,
                   child, other, status, sent, signals, stops>>

\* Wrong variant: does not compare cpid with pid.
WaitChldAny ==
    /\ phase = "wait"
    /\ phase' = "done"
    /\ \/ child = "zombie" /\ child' = "reaped" /\ status' = "child" /\ UNCHANGED other
       \/ other = "zombie" /\ other' = "reaped" /\ status' = "other" /\ UNCHANGED child
    /\ UNCHANGED <<opt, flags, pending, timer, killsig, second, timedout,
                   sent, signals, stops>>

WaitChld ==
    /\ phase = "wait"
    /\ \/ child = "zombie" /\ child' = "reaped" /\ status' = "child"
          /\ phase' = "done" /\ UNCHANGED other
       \/ other = "zombie" /\ other' = "reaped"
          /\ phase' = "suspend" /\ UNCHANGED <<child, status>>
    /\ UNCHANGED <<opt, flags, pending, timer, killsig, second, timedout,
                   sent, signals, stops>>

(* kill(pid, s) in the foreground, else killpg(0, s): pgid is what         *)
(* setpgid() returned, 0, so the group is timeout's own and timeout gets   *)
(* the signal too.  Then, with -k, arm the second interval and go on; else *)
(* leave the loop.                                                         *)
KillAndGoOn(s, why, f) ==
    LET toSelf == ~opt.foreground
        dies == toSelf /\ s = "KILL" IN
    /\ child' \in After(s)
    /\ pending' = pending
          \cup (IF toSelf /\ s # "KILL" THEN {s} ELSE {})
          \cup (IF child \in Live /\ child' = "zombie" THEN {"CHLD"} ELSE {})
    /\ sent' = sent \cup {<<s, why>>}
    /\ IF opt.again
       THEN /\ timer' = TimerFor(second)
            /\ second' = 0
            /\ flags' = [f EXCEPT !.ign = killsig]
            /\ killsig' = "KILL"
            /\ phase' = IF dies THEN "killed"
                        ELSE IF SetitimerFails(second) THEN "err" ELSE "suspend"
       ELSE /\ flags' = f
            /\ phase' = IF dies THEN "killed" ELSE "final"
            /\ UNCHANGED <<timer, second, killsig>>

DispatchAlrm ==
    /\ phase = "woke"
    /\ ~flags.chld /\ flags.alrm
    /\ timedout' = TRUE
    /\ KillAndGoOn(killsig, "alrm", [flags EXCEPT !.alrm = FALSE])
    /\ UNCHANGED <<opt, other, status, signals, stops>>

\* sig_term is never cleared.
DispatchTerm ==
    /\ phase = "woke"
    /\ ~flags.chld /\ ~flags.alrm /\ flags.term # None
    /\ KillAndGoOn(IF opt.foreground THEN flags.term ELSE killsig, "term", flags)
    /\ UNCHANGED <<opt, timedout, other, status, signals, stops>>

DispatchNone ==
    /\ phase = "woke"
    /\ ~flags.chld /\ ~flags.alrm /\ flags.term = None
    /\ phase' = "suspend"
    /\ UNCHANGED <<opt, flags, pending, timer, killsig, second, timedout,
                   child, other, status, sent, signals, stops>>

\* Wrong variant: returns without the last wait().
FinalNoWait ==
    /\ phase = "final"
    /\ phase' = "done"
    /\ UNCHANGED <<opt, flags, pending, timer, killsig, second, timedout,
                   child, other, status, sent, signals, stops>>

\* The last wait() takes the first child that ends, whichever it is.
FinalWait ==
    /\ phase = "final"
    /\ \/ child = "zombie" /\ child' = "reaped" /\ status' = "child"
          /\ UNCHANGED other
       \/ other = "zombie" /\ other' = "reaped" /\ status' = "other"
          /\ UNCHANGED child
    /\ phase' = "done"
    /\ UNCHANGED <<opt, flags, pending, timer, killsig, second, timedout,
                   sent, signals, stops>>

-----------------------------------------------------------------------------
(* The surroundings: the kernel's timer, the command, the user. *)

Expire ==
    /\ phase \notin ended
    /\ timer
    /\ timer' = FALSE
    /\ Deliver("ALRM")
    /\ UNCHANGED <<opt, phase, killsig, second, timedout,
                   child, other, status, sent, signals, stops>>

Signal(s) ==
    /\ phase \notin ended
    /\ signals < MaxSignals
    /\ signals' = signals + 1
    /\ Deliver(s)
    /\ UNCHANGED <<opt, phase, timer, killsig, second, timedout,
                   child, other, status, sent, stops>>

Exec ==
    /\ child = "preexec"
    /\ child' = "running"
    /\ UNCHANGED <<opt, phase, flags, pending, timer, killsig, second, timedout,
                   other, status, sent, signals, stops>>

\* The command ends, or cannot be executed.
ChildExit ==
    /\ child \in {"preexec", "running"}
    /\ child' = "zombie"
    /\ Deliver("CHLD")
    /\ UNCHANGED <<opt, phase, timer, killsig, second, timedout,
                   other, status, sent, signals, stops>>

\* SA_NOCLDSTOP is not set: a stop sends SIGCHLD as well.
ChildStop ==
    /\ child = "running"
    /\ stops < MaxStops
    /\ stops' = stops + 1
    /\ child' = "stopped"
    /\ Deliver("CHLD")
    /\ UNCHANGED <<opt, phase, timer, killsig, second, timedout,
                   other, status, sent, signals>>

\* And so does a SIGCONT from somebody else, on Linux.
ChildCont ==
    /\ child = "stopped"
    /\ child' = "running"
    /\ Deliver("CHLD")
    /\ UNCHANGED <<opt, phase, timer, killsig, second, timedout,
                   other, status, sent, signals, stops>>

OtherExit ==
    /\ other = "running"
    /\ other' = "zombie"
    /\ Deliver("CHLD")
    /\ UNCHANGED <<opt, phase, timer, killsig, second, timedout,
                   child, status, sent, signals, stops>>

Main == \/ Fork \/ Block \/ Arm \/ Sigsuspend
        \/ DispatchChld \/ WaitChld \/ DispatchAlrm \/ DispatchTerm \/ DispatchNone
        \/ FinalWait

Environment == \/ Expire \/ Exec \/ ChildExit \/ ChildStop \/ ChildCont \/ OtherExit
               \/ \E s \in TermSigs : Signal(s)

Next == Main \/ Environment

Spec == Init /\ [][Next]_vars

(* timeout runs when it can, a running timer expires and the command gets  *)
(* to its exec; nothing makes the command end, stop or continue.           *)
Fairness == WF_vars(Main) /\ WF_vars(Expire) /\ WF_vars(Exec)

FairSpec == Spec /\ Fairness

-----------------------------------------------------------------------------
(* What main() returns: 124, or the wait status it holds. *)
ExitStatus(preserve) == IF timedout /\ ~preserve THEN "124" ELSE status

Signals == TermSigs \cup {"CHLD", "ALRM", "USR1"}

\* Every variable of the model stays in its range.
TypeOK ==
    /\ opt \in [foreground : BOOLEAN, again : BOOLEAN, sig : KillSigs,
                first : Durations, second : Durations]
    /\ phase \in {"prefork", "preblock", "arm", "suspend", "woke", "wait", "final"}
                    \cup ended
    /\ flags \in [chld : BOOLEAN, alrm : BOOLEAN, term : TermSigs \cup {None},
                  ign : TermSigs \cup {"USR1", "KILL", None}]
    /\ pending \in SUBSET Signals
    /\ timer \in BOOLEAN /\ timedout \in BOOLEAN
    /\ killsig \in KillSigs \cup {"KILL"}
    /\ second \in Durations \cup {0}
    /\ child \in Live \cup {"zombie", "reaped", None}
    /\ other \in {"running", "zombie", "reaped", None}
    /\ status \in {"child", "other", None}
    /\ sent \in SUBSET ((KillSigs \cup TermSigs \cup {"KILL"}) \X {"alrm", "term"})
    /\ signals \in 0..MaxSignals /\ stops \in 0..MaxStops

(* When timeout has returned, and it had no inherited child or signalled   *)
(* nobody, its command has ended and been reaped, even if another child    *)
(* ended first (cpid == pid); the status is the command's own or 124, and  *)
(* 124 only when timeout signalled the command because the time was up.    *)
ReturnsForChild ==
    phase = "done" /\ (other = None \/ sent = {}) =>
        /\ child = "reaped"
        /\ \A preserve \in BOOLEAN :
              /\ ExitStatus(preserve) \in {"124", "child"}
              /\ ExitStatus(preserve) = "124" =>
                    \E s \in KillSigs \cup {"KILL"} : <<s, "alrm">> \in sent

(* timeout is not gone while its command is still running, whichever way   *)
(* main() ends: return, err() or being killed along with its own group;    *)
(* only the end of an inherited child may be mistaken for the command's.   *)
NeverAbandons ==
    phase \in ended => child \notin Live \/ status = "other"

(* The end of the command is never forgotten: until main() has seen it,    *)
(* SIGCHLD is pending or sig_chld is set, also when it ended before        *)
(* sigprocmask() or together with an expiry of the timer.  An inherited    *)
(* child is excepted: its SIGCHLD and the command's may be one, for which  *)
(* wait() is called once.                                                  *)
ChildDeathRemembered ==
    child = "zombie" /\ other = None /\ phase \in {"preblock", "arm", "suspend", "woke"} =>
        "CHLD" \in pending \/ flags.chld

(* The signal that timeout sends to its own process group is not mistaken  *)
(* for one sent by a user: sig_term is set only if somebody sent one.      *)
OwnSignalIgnored == flags.term # None => signals > 0

Limit == opt.first > 0 /\ opt.again /\ opt.second > 0

(* With a time limit and a kill-after time, timeout ends, and its command  *)
(* with it, even if the command catches or ignores every signal it can.    *)
DeadlineEnforced ==
    Limit ~> (phase \in ended /\ child \notin Live)

(* The same, except in the foreground after somebody sent timeout a        *)
(* terminating signal; in its own process group that is not excepted.  A   *)
(* stop of the command is, since wait() is then entered for a command that *)
(* has not ended, and so is an inherited child.                            *)
DeadlineUnlessInterrupted ==
    Limit /\ other = None ~>
        \/ phase \in ended /\ child \notin Live
        \/ opt.foreground /\ signals > 0
        \/ stops > 0

(* A timeout with a time limit and no inherited child returns once its     *)
(* command has ended, even if SIGCHLD came before sigsuspend() could be    *)
(* woken by it, or for a stop of the command before.                       *)
ExitNoticed ==
    (opt.first > 0 /\ other = None /\ child = "zombie") ~> phase \in ended
=============================================================================
