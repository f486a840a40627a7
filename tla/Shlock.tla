------------------------------- MODULE Shlock -------------------------------
(***************************************************************************)
(* usr.bin/shlock: lock files for shell scripts.                           *)
(*                                                                         *)
(* A client (a shell script, known by its pid) runs shlock to take one     *)
(* lock file.  Each invocation is a process p of its own: it writes the    *)
(* client's pid into a temporary file "shlock<p>", tries to link(2) that   *)
(* file to the lock name, and, when the name exists, decides whether the   *)
(* lock is stale and removes it under the protection of a second link      *)
(* "shlock<p>-2".  Nothing but the file system is shared, so the model has *)
(* one action per system call that another process could observe.         *)
(*                                                                         *)
(* Directory entries are variables holding inode numbers.  Link counts are *)
(* computed from them.  An inode's change time is kept as its age in       *)
(* seconds, saturating at MaxAge: the code only compares change times.     *)
(***************************************************************************)
EXTENDS Naturals, FiniteSets

CONSTANTS
    Clients,      \* the scripts, identified by the pid they pass with -p
    Pids,         \* pids of shlock processes; a pid is reused after its exit
    Inodes,       \* inode numbers of the file system
    NoInode,      \* "no such directory entry"
    NoClient,     \* "no client"
    Style,        \* Style[c]: the lock format client c uses (-u or text)
    MaxAge,       \* bound: ages saturate here
    MaxCrashes,   \* bound: how many shlock processes are killed half-way
    Faults,       \* labels of the system calls that may fail (EIO, EACCES...)
    ReuseInodes   \* may a freed inode number be reused while it is remembered

ASSUME ShlockAssumption ==
    /\ IsFiniteSet(Pids)
    /\ NoInode \notin Inodes
    /\ NoClient \notin Clients
    /\ MaxAge \in Nat /\ MaxAge >= 2
    /\ MaxCrashes \in Nat
    /\ ReuseInodes \in BOOLEAN

VARIABLES
    lockf,    \* the inode the lock name refers to, or NoInode
    tmp,      \* tmp[p]: the inode of "shlock<p>", or NoInode
    tmp2,     \* tmp2[p]: the inode of "shlock<p>-2", or NoInode
    owner,    \* owner[i]: the pid written in inode i
    age,      \* age[i]: seconds since i's st_ctime
    pc,       \* pc[p]: the next system call of p
    cl,       \* cl[p]: the client p runs for
    fd,       \* fd[p]: the inode cklock() has open
    st,       \* st[p]: stlock, what fstat() said of the existing lock
    cstate,   \* cstate[c]: the client's own view of the lock
    crashes   \* how many shlock processes have been killed

files == <<lockf, tmp, tmp2, owner, age>>
procs == <<pc, cl, fd, st>>
vars == <<files, procs, cstate, crashes>>

-----------------------------------------------------------------------------
(* The file system, as far as shlock uses it. *)

Entries == Inodes \cup {NoInode}

NoStat == [ino |-> NoInode, age |-> 0, nlink |-> 0]

\* The processes whose entry in the directory d (tmp or tmp2) is inode i.
Linked(d, i) == {p \in Pids : d[p] = i}

\* st_nlink of inode i.
Nlink(i) ==
    (IF lockf = i THEN 1 ELSE 0)
        + Cardinality(Linked(tmp, i)) + Cardinality(Linked(tmp2, i))

(* An inode the file system may hand out: no name and no descriptor refers *)
(* to it.  Unless ReuseInodes, no process may remember its number either,  *)
(* which makes the number as good as one never used before.                *)
Fresh(i) ==
    /\ lockf # i
    /\ \A q \in Pids : tmp[q] # i /\ tmp2[q] # i /\ fd[q] # i
    /\ ReuseInodes \/ \A q \in Pids : st[q].ino # i

\* link(2) and unlink(2) set the inode's change time to now.
Touch(i) == age' = [j \in Inodes |-> IF j = i THEN 0 ELSE age[j]]

Older(a) == IF a < MaxAge THEN a + 1 ELSE a

Alive(c) == cstate[c] # "dead"

\* cklock() understands only the format (-u or text) it was asked to read.
Readable(p, i) == Style[cl[p]] = Style[owner[i]]

Goto(p, l) == pc' = [pc EXCEPT ![p] = l]

-----------------------------------------------------------------------------
Init ==
    /\ lockf = NoInode
    /\ tmp = [p \in Pids |-> NoInode]
    /\ tmp2 = [p \in Pids |-> NoInode]
    /\ owner \in [Inodes -> {NoClient}]
    /\ age = [i \in Inodes |-> 0]
    /\ pc = [p \in Pids |-> "idle"]
    /\ cl = [p \in Pids |-> NoClient]
    /\ fd = [p \in Pids |-> NoInode]
    /\ st = [p \in Pids |-> NoStat]
    /\ cstate = [c \in Clients |-> "idle"]
    /\ crashes = 0

\* A script runs "shlock -f file -p $$": the kernel picks any free pid.
Start(p, c) ==
    /\ pc[p] = "idle"
    /\ cstate[c] = "idle"
    /\ Goto(p, "xtmp")
    /\ cl' = [cl EXCEPT ![p] = c]
    /\ cstate' = [cstate EXCEPT ![c] = "trying"]
    /\ UNCHANGED <<files, fd, st, crashes>>

(* xtmpfile(): open with O_EXCL; a file left by an earlier process of the  *)
(* same pid is unlinked and the open retried.                              *)
XtmpUnlink(p) ==
    /\ pc[p] = "xtmp"
    /\ tmp[p] # NoInode
    /\ tmp' = [tmp EXCEPT ![p] = NoInode]
    /\ Touch(tmp[p])
    /\ UNCHANGED <<lockf, tmp2, owner, procs, cstate, crashes>>

\* Wrong variant: writes shlock's own pid instead of the client's.
XtmpCreateOwnPid(p) ==
    /\ pc[p] = "xtmp"
    /\ tmp[p] = NoInode
    /\ \E i \in Inodes :
          /\ Fresh(i)
          /\ tmp' = [tmp EXCEPT ![p] = i]
          /\ owner' = [owner EXCEPT ![i] = p]
          /\ Touch(i)
    /\ Goto(p, "link")
    /\ UNCHANGED <<lockf, tmp2, cl, fd, st, cstate, crashes>>

XtmpCreate(p) ==
    /\ pc[p] = "xtmp"
    /\ tmp[p] = NoInode
    /\ \E i \in Inodes :
          /\ Fresh(i)
          /\ tmp' = [tmp EXCEPT ![p] = i]
          /\ owner' = [owner EXCEPT ![i] = cl[p]]
          /\ Touch(i)
    /\ Goto(p, "link")
    /\ UNCHANGED <<lockf, tmp2, cl, fd, st, cstate, crashes>>

\* mklock(): the while condition, link(tmp, file).
Link(p) ==
    /\ pc[p] = "link"
    /\ IF lockf = NoInode
       THEN /\ lockf' = tmp[p]
            /\ Touch(tmp[p])
            /\ Goto(p, "statmine")
       ELSE /\ UNCHANGED <<lockf, age>>
            /\ Goto(p, "ckopen")
    /\ UNCHANGED <<tmp, tmp2, owner, cl, fd, st, cstate, crashes>>

\* cklock(): open(); a lock that has just vanished counts as valid.
CkOpen(p) ==
    /\ pc[p] = "ckopen"
    /\ fd' = [fd EXCEPT ![p] = lockf]
    /\ Goto(p, IF lockf = NoInode THEN "out" ELSE "ckfstat")
    /\ UNCHANGED <<files, cl, st, cstate, crashes>>

CkFstat(p) ==
    /\ pc[p] = "ckfstat"
    /\ st' = [st EXCEPT ![p] =
                [ino |-> fd[p], age |-> age[fd[p]], nlink |-> Nlink(fd[p])]]
    /\ Goto(p, "ckread")
    /\ UNCHANGED <<files, cl, fd, cstate, crashes>>

\* Wrong variant: takes every process for dead.
CkReadAllDead(p) ==
    /\ pc[p] = "ckread"
    /\ Goto(p, "stattmp")
    /\ fd' = [fd EXCEPT ![p] = NoInode]
    /\ UNCHANGED <<files, cl, st, cstate, crashes>>

(* cklock() and p_exists(): read the pid, close, kill(pid, 0).  What cannot *)
(* be read as a pid is an invalid lock.                                    *)
CkRead(p) ==
    /\ pc[p] = "ckread"
    /\ Goto(p, IF Readable(p, fd[p]) /\ Alive(owner[fd[p]])
               THEN "out" ELSE "stattmp")
    /\ fd' = [fd EXCEPT ![p] = NoInode]
    /\ UNCHANGED <<files, cl, st, cstate, crashes>>

\* Wrong variant: expects two links where the stale lock has one.
StatTmpTwoLinks(p) ==
    /\ pc[p] = "stattmp"
    /\ tmp2' = [tmp2 EXCEPT ![p] = NoInode]
    /\ Touch(tmp2[p])
    /\ Goto(p, IF st[p].age <= age[tmp[p]] \/ st[p].nlink # 2
               THEN "out" ELSE "link2")
    /\ UNCHANGED <<lockf, tmp, owner, cl, fd, st, cstate, crashes>>

(* stat(tmp), unlink(tmp2) if an earlier process of this pid left one, and *)
(* the two tests on the lock's first stat; st_ctime >= st_ctime means that *)
(* the lock is no older than our own temporary file.                       *)
StatTmp(p) ==
    /\ pc[p] = "stattmp"
    /\ tmp2' = [tmp2 EXCEPT ![p] = NoInode]
    /\ Touch(tmp2[p])
    /\ Goto(p, IF st[p].age <= age[tmp[p]] \/ st[p].nlink # 1
               THEN "out" ELSE "link2")
    /\ UNCHANGED <<lockf, tmp, owner, cl, fd, st, cstate, crashes>>

\* link(file, tmp2): fails when the lock has gone.
Link2(p) ==
    /\ pc[p] = "link2"
    /\ tmp2' = [tmp2 EXCEPT ![p] = lockf]
    /\ Touch(lockf)
    /\ Goto(p, IF lockf = NoInode THEN "out2" ELSE "stat2")
    /\ UNCHANGED <<lockf, tmp, owner, cl, fd, st, cstate, crashes>>

\* Wrong variant: without the link count.
SafeToBreakAnyLinks(p) == lockf = st[p].ino

\* stat(file) again: still the same inode, and linked only by tmp2?
SafeToBreak(p) == lockf = st[p].ino /\ Nlink(lockf) = 2

Stat2(p) ==
    /\ pc[p] = "stat2"
    /\ Goto(p, IF SafeToBreak(p) THEN "rm" ELSE "out2")
    /\ UNCHANGED <<files, cl, fd, st, cstate, crashes>>

\* unlink(file): the stale lock is broken (ENOENT goes to out2).
Rm(p) ==
    /\ pc[p] = "rm"
    /\ lockf' = NoInode
    /\ Touch(lockf)
    /\ Goto(p, IF lockf = NoInode THEN "out2" ELSE "rm2")
    /\ UNCHANGED <<tmp, tmp2, owner, cl, fd, st, cstate, crashes>>

\* unlink(tmp2), and back to the link() of the while condition.
Rm2(p) ==
    /\ pc[p] = "rm2"
    /\ tmp2' = [tmp2 EXCEPT ![p] = NoInode]
    /\ Touch(tmp2[p])
    /\ Goto(p, "link")
    /\ UNCHANGED <<lockf, tmp, owner, cl, fd, st, cstate, crashes>>

\* stat(tmp) after the link succeeded: ours if it has exactly two names.
StatMine(p) ==
    /\ pc[p] = "statmine"
    /\ Goto(p, IF Nlink(tmp[p]) = 2 THEN "outset" ELSE "out2")
    /\ UNCHANGED <<files, cl, fd, st, cstate, crashes>>

\* Wrong variant: leaves the second link.
Out2NoUnlink(p) ==
    /\ pc[p] = "out2"
    /\ Goto(p, "out")
    /\ UNCHANGED <<files, cl, fd, st, cstate, crashes>>

(* out2: unlink(tmp2).  Before the first StatTmp the buffer tmp2 has not   *)
(* been filled in; the bytes in it name no file of the protocol.           *)
Out2(p) ==
    /\ pc[p] = "out2"
    /\ IF st[p] = NoStat
       THEN UNCHANGED <<tmp2, age>>
       ELSE tmp2' = [tmp2 EXCEPT ![p] = NoInode] /\ Touch(tmp2[p])
    /\ Goto(p, "out")
    /\ UNCHANGED <<lockf, tmp, owner, cl, fd, st, cstate, crashes>>

\* Process p is gone; its client, if still there, learns r.
Exit(p, r) ==
    /\ pc' = [pc EXCEPT ![p] = "idle"]
    /\ cl' = [cl EXCEPT ![p] = NoClient]
    /\ fd' = [fd EXCEPT ![p] = NoInode]
    /\ st' = [st EXCEPT ![p] = NoStat]
    /\ cstate' = [c \in Clients |->
                    IF c = cl[p] /\ cstate[c] = "trying" THEN r ELSE cstate[c]]

\* out: unlink(tmp), return retcode, exit(LOCK_SET or LOCK_FAIL).
Out(p) ==
    /\ pc[p] \in {"out", "outset"}
    /\ tmp' = [tmp EXCEPT ![p] = NoInode]
    /\ Touch(tmp[p])
    /\ Exit(p, IF pc[p] = "outset" THEN "holding" ELSE "idle")
    /\ UNCHANGED <<lockf, tmp2, owner, crashes>>

-----------------------------------------------------------------------------
\* Wrong variant: a lock that cannot be opened counts as invalid.
AfterErrorOpenInvalid(l) ==
    CASE l \in {"link", "ckfstat", "stattmp", "statmine"} -> "out"
      [] l \in {"ckopen", "ckread"} -> "stattmp"
      [] l \in {"link2", "stat2", "rm", "rm2"} -> "out2"
      [] l = "out2" -> "out"
      [] OTHER -> l

(* The error paths: the system call labelled pc[p] fails without effect.   *)
(* cklock() takes a failing open or fstat for a valid lock and a failing   *)
(* read for an invalid one.                                                *)
AfterError(l) ==
    CASE l \in {"link", "ckopen", "ckfstat", "stattmp", "statmine"} -> "out"
      [] l = "ckread" -> "stattmp"
      [] l \in {"link2", "stat2", "rm", "rm2"} -> "out2"
      [] l = "out2" -> "out"
      [] OTHER -> l

SysErr(p) ==
    /\ pc[p] \in Faults \cap {"link", "ckopen", "ckfstat", "ckread", "stattmp",
                     "link2", "stat2", "rm", "rm2", "statmine", "out2"}
    /\ Goto(p, AfterError(pc[p]))
    /\ fd' = [fd EXCEPT ![p] = NoInode]
    /\ UNCHANGED <<files, cl, st, cstate, crashes>>

(* xtmpfile() fails and leaves what it found, or the last unlink(tmp)      *)
(* fails: the process exits and "shlock<p>" stays.                         *)
ExitErr(p) ==
    /\ pc[p] \in Faults \cap {"xtmp", "out", "outset"}
    /\ Exit(p, IF pc[p] = "outset" THEN "holding" ELSE "idle")
    /\ UNCHANGED <<files, crashes>>

\* Process p is killed: its files stay, its client sees a failure.
Crash(p) ==
    /\ pc[p] # "idle"
    /\ crashes < MaxCrashes
    /\ crashes' = crashes + 1
    /\ Exit(p, "idle")
    /\ UNCHANGED files

-----------------------------------------------------------------------------
(* What happens outside shlock. *)

\* A script that holds the lock gives it back: rm -f file.
Release(c) ==
    /\ cstate[c] = "holding"
    /\ cstate' = [cstate EXCEPT ![c] = "idle"]
    /\ lockf' = NoInode
    /\ Touch(lockf)
    /\ UNCHANGED <<tmp, tmp2, owner, procs, crashes>>

\* A script dies, in whatever state; a shlock it has started runs on.
Die(c) ==
    /\ Alive(c)
    /\ cstate' = [cstate EXCEPT ![c] = "dead"]
    /\ UNCHANGED <<files, procs, crashes>>

(* A second passes.  Bound: no process runs for more than MaxAge - 1       *)
(* seconds, so that a saturated age is older than any temporary file's.    *)
Tick ==
    /\ \A p \in Pids :
          pc[p] # "idle" /\ tmp[p] # NoInode => age[tmp[p]] + 1 < MaxAge
    /\ age' = [i \in Inodes |-> Older(age[i])]
    /\ st' = [p \in Pids |->
                IF st[p] = NoStat THEN NoStat
                ELSE [st[p] EXCEPT !.age = Older(@)]]
    /\ UNCHANGED <<lockf, tmp, tmp2, owner, pc, cl, fd, cstate, crashes>>

Step(p) ==
    \/ XtmpUnlink(p) \/ XtmpCreate(p)
    \/ Link(p) \/ CkOpen(p) \/ CkFstat(p) \/ CkRead(p)
    \/ StatTmp(p) \/ Link2(p) \/ Stat2(p) \/ Rm(p) \/ Rm2(p)
    \/ StatMine(p) \/ Out2(p) \/ Out(p)

Next ==
    \/ \E p \in Pids : Step(p) \/ SysErr(p) \/ ExitErr(p) \/ Crash(p)
    \/ \E p \in Pids, c \in Clients : Start(p, c)
    \/ \E c \in Clients : Release(c) \/ Die(c)
    \/ Tick

Spec == Init /\ [][Next]_vars

(* A running shlock keeps running, time passes, and a live script that was *)
(* refused tries again; nothing makes a script release, die or crash.      *)
Fairness ==
    /\ \A p \in Pids : WF_vars(Step(p))
    /\ \A c \in Clients : WF_vars(\E p \in Pids : Start(p, c))
    /\ WF_vars(Tick)

FairSpec == Spec /\ Fairness

-----------------------------------------------------------------------------
(* Properties. *)

Labels == {"idle", "xtmp", "link", "ckopen", "ckfstat", "ckread", "stattmp",
           "link2", "stat2", "rm", "rm2", "statmine", "out2", "out", "outset"}

\* Every variable of the model stays in its range.
TypeOK ==
    /\ lockf \in Entries
    /\ tmp \in [Pids -> Entries]
    /\ tmp2 \in [Pids -> Entries]
    /\ owner \in [Inodes -> Clients \cup {NoClient}]
    /\ age \in [Inodes -> 0..MaxAge]
    /\ pc \in [Pids -> Labels]
    /\ cl \in [Pids -> Clients \cup {NoClient}]
    /\ fd \in [Pids -> Entries]
    /\ st \in [Pids -> [ino : Entries, age : 0..MaxAge, nlink : Nat]]
    /\ cstate \in [Clients -> {"idle", "trying", "holding", "dead"}]
    /\ crashes \in 0..MaxCrashes

(* Mutual exclusion: of all the scripts whose shlock answered LOCK_SET and *)
(* that have neither released the lock nor died, there is at most one.     *)
Mutex ==
    \A c, d \in Clients :
        cstate[c] = "holding" /\ cstate[d] = "holding" => c = d

(* As long as a script holds the lock, the lock file exists and has the    *)
(* script's pid in it: what the next cklock() reads protects the holder.   *)
HolderHasLock ==
    \A c \in Clients :
        cstate[c] = "holding" => lockf # NoInode /\ owner[lockf] = c

(* "take another lock against the lock file to protect it against multiple *)
(* removals": at most one process is between its second stat and unlink,   *)
(* and what it unlinks there is the dead client's file that it examined.   *)
SingleBreaker ==
    \A p \in Pids : pc[p] = "rm" =>
        /\ \A q \in Pids : pc[q] = "rm" => q = p
        /\ lockf = st[p].ino
        /\ ~Alive(owner[lockf])

(* The lock name changes only when the lock was free, when its owner is    *)
(* dead, or when its owner removes it; a live script's lock is never       *)
(* broken or replaced by another process, even one not yet told it has it. *)
OnlyStaleBroken ==
    [][lockf # lockf' /\ lockf # NoInode =>
          \/ cstate[owner[lockf]] = "dead"
          \/ cstate[owner[lockf]] = "holding" /\ cstate'[owner[lockf]] = "idle"]_vars

(* Unless processes are killed or system calls fail, a shlock process      *)
(* leaves neither of its two links behind, on any of its exit paths: a     *)
(* link left on a lock would keep st_nlink from ever being 1 again.        *)
CleanExit ==
    \A p \in Pids : pc[p] = "idle" => tmp[p] = NoInode /\ tmp2[p] = NoInode

(* Every answer LOCK_SET, release and death maps to a step of the abstract *)
(* lock; everything else shlock does is invisible there.                   *)
Abstract == INSTANCE AbstractLock
              WITH held <- {c \in Clients : cstate[c] = "holding"}

ImplementsAbstractLock == Abstract!LSpec

(* A lock whose owner has died is removed, or replaced by another lock, as *)
(* long as some script is left that wants it.                              *)
StaleLock == lockf # NoInode /\ ~Alive(owner[lockf])

StaleLockRecovered == StaleLock ~> (~StaleLock \/ \A c \in Clients : ~Alive(c))

-----------------------------------------------------------------------------
(* The inductive invariant behind the safety properties, in parts. *)

\* What the protocol needs of its surroundings: see OnlyStaleBroken's proof.
SoundUse ==
    /\ ~ReuseInodes
    /\ "ckread" \notin Faults
    /\ \A c, d \in Clients : Style[c] = Style[d]

\* The labels at which tmp[p] exists, has not been linked, or has been.
Unlinked == {"link", "ckopen", "ckfstat", "ckread", "stattmp", "link2",
             "stat2", "rm", "rm2"}
Won == {"statmine", "outset"}
Breaking == {"stattmp", "link2", "stat2", "rm"}

\* A process runs for one client, which waits for it or has died.
ClientWaits ==
    \A p \in Pids : pc[p] # "idle" =>
        /\ cl[p] \in Clients
        /\ cstate[cl[p]] \in {"trying", "dead"}
        /\ \A q \in Pids : pc[q] # "idle" /\ q # p => cl[q] # cl[p]

\* The temporary file holds the client's pid from its creation on.
TmpOwned ==
    \A p \in Pids : pc[p] \in Unlinked \cup Won =>
        tmp[p] \in Inodes /\ owner[tmp[p]] = cl[p]

\* Until it is linked, nobody else has a name, descriptor or stat of it.
TmpPrivate ==
    \A p, q \in Pids : pc[p] \in Unlinked =>
        /\ lockf # tmp[p]
        /\ tmp2[q] # tmp[p] /\ fd[q] # tmp[p] /\ st[q].ino # tmp[p]
        /\ q # p => tmp[q] # tmp[p]

\* From link() to exit the lock is p's file, unless p's client has died.
WonHasLock ==
    \A p \in Pids : pc[p] \in Won /\ Alive(cl[p]) => lockf = tmp[p]

\* cklock() has the lock open from its open() to its close().
FdOpen == \A p \in Pids : pc[p] \in {"ckfstat", "ckread"} => fd[p] \in Inodes

\* A lock in place, or being examined, has a client's pid in it.
LockOwned ==
    /\ lockf # NoInode => owner[lockf] \in Clients
    /\ \A p \in Pids : pc[p] \in {"ckfstat", "ckread"} => owner[fd[p]] \in Clients
    /\ \A p \in Pids : pc[p] = "ckread" => st[p].ino = fd[p]

\* What a process is about to break is a dead client's lock.
BreaksStale ==
    \A p \in Pids : pc[p] \in Breaking =>
        /\ st[p].ino \in Inodes
        /\ owner[st[p].ino] \in Clients
        /\ ~Alive(owner[st[p].ino])

\* After link(file, tmp2), the second link is to the examined lock, if that
\* is still the lock; at rm it is, and nobody else is there.
SecondLink ==
    /\ \A p \in Pids : pc[p] = "stat2" /\ lockf = st[p].ino => tmp2[p] = lockf
    /\ \A p \in Pids : pc[p] = "rm" => lockf = st[p].ino /\ tmp2[p] = lockf
    /\ \A p, q \in Pids : pc[p] = "rm" /\ pc[q] = "rm" => p = q

(* The inductive invariant: who owns each file at each label of mklock(),  *)
(* that only dead clients' locks are being broken, and by one breaker.     *)
LockInv ==
    /\ ClientWaits
    /\ TmpOwned
    /\ TmpPrivate
    /\ WonHasLock
    /\ HolderHasLock
    /\ FdOpen
    /\ LockOwned
    /\ BreaksStale
    /\ SecondLink

=============================================================================
