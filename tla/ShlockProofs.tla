---------------------------- MODULE ShlockProofs ----------------------------
(***************************************************************************)
(* Theorems about Shlock, for any number of clients, processes and inodes. *)
(***************************************************************************)
EXTENDS Shlock, TLAPS, FiniteSetTheorems

-----------------------------------------------------------------------------
(* Link counts. *)

\* The processes whose temporary name is linked to an inode are finitely many.
LEMMA LinkedFinite ==
    ASSUME NEW d, NEW i
    PROVE  IsFiniteSet(Linked(d, i)) /\ Cardinality(Linked(d, i)) \in Nat
  <1>1. IsFiniteSet(Linked(d, i))
    BY ShlockAssumption, FS_Subset DEF Linked
  <1> QED
    BY <1>1, FS_CardinalityType

\* A link count is a natural number.
LEMMA NlinkType == ASSUME NEW i PROVE Nlink(i) \in Nat
  <1>1. Cardinality(Linked(tmp, i)) \in Nat /\ Cardinality(Linked(tmp2, i)) \in Nat
    BY LinkedFinite
  <1> QED
    BY <1>1, SMT DEF Nlink

\* The lock and two processes' second links make a link count of at least 3.
LEMMA TwoBreakersSeen ==
    ASSUME NEW p \in Pids, NEW q \in Pids, p # q,
           tmp2[p] = lockf, tmp2[q] = lockf
    PROVE  Nlink(lockf) # 2
  <1> DEFINE S == Linked(tmp2, lockf)
  <1>1. IsFiniteSet(S) /\ Cardinality(S) \in Nat /\ Cardinality(Linked(tmp, lockf)) \in Nat
    BY LinkedFinite
  <1>2. p \in S /\ q \in S
    BY DEF Linked
  <1>3. IsFiniteSet({p, q}) /\ Cardinality({p, q}) = 2
    <2>1. IsFiniteSet({p}) /\ Cardinality({p}) = 1
      BY FS_Singleton
    <2>2. IsFiniteSet({p} \cup {q}) /\ Cardinality({p} \cup {q}) = Cardinality({p}) + 1
      BY <2>1, FS_AddElement
    <2> QED
      BY <2>1, <2>2
  <1>4. Cardinality({p, q}) <= Cardinality(S)
    BY <1>1, <1>2, <1>3, FS_Subset
  <1> QED
    BY <1>1, <1>3, <1>4, SMT DEF Nlink

-----------------------------------------------------------------------------
(* Type correctness. *)

\* fstat() reads the age of the inode that open() found: typing needs FdOpen.
TypeInv == TypeOK /\ FdOpen

\* It holds before the first shlock is run.
LEMMA TypeInit == Init => TypeInv
  BY ShlockAssumption, SMT DEF Init, TypeInv, TypeOK, FdOpen, Entries, NoStat, Labels

\* Every system call and every step of the surroundings keeps it.
LEMMA TypeStep == TypeInv /\ [Next]_vars => TypeInv'
  <1> SUFFICES ASSUME TypeInv, [Next]_vars PROVE TypeInv'
    OBVIOUS
  <1> USE ShlockAssumption DEF TypeInv, TypeOK, FdOpen, Entries, Goto, files, procs
  <1>1. ASSUME NEW p \in Pids, XtmpUnlink(p) PROVE TypeInv'
    BY <1>1, SMT DEF XtmpUnlink, Touch
  <1>2. ASSUME NEW p \in Pids, XtmpCreate(p) PROVE TypeInv'
    BY <1>2, SMT DEF XtmpCreate, Touch, Labels
  <1>3. ASSUME NEW p \in Pids, Link(p) PROVE TypeInv'
    <2>1. CASE lockf = NoInode
      BY <1>3, <2>1, SMTT(30) DEF Link, Touch, Labels
    <2>2. CASE lockf # NoInode
      BY <1>3, <2>2, SMT DEF Link, Labels
    <2> QED
      BY <2>1, <2>2
  <1>4. ASSUME NEW p \in Pids, CkOpen(p) PROVE TypeInv'
    BY <1>4, SMT DEF CkOpen, Labels
  <1>5. ASSUME NEW p \in Pids, CkFstat(p) PROVE TypeInv'
    <2>1. pc[p] = "ckfstat" /\ Nlink(fd[p]) \in Nat
      BY <1>5, NlinkType DEF CkFstat
    <2>2. st' \in [Pids -> [ino : Inodes \cup {NoInode}, age : 0..MaxAge, nlink : Nat]]
      BY <1>5, <2>1, SMT DEF CkFstat
    <2> QED
      BY <1>5, <2>2, SMT DEF CkFstat, Labels
  <1>6. ASSUME NEW p \in Pids, CkRead(p) PROVE TypeInv'
    BY <1>6, SMT DEF CkRead, Labels
  <1>7. ASSUME NEW p \in Pids, StatTmp(p) PROVE TypeInv'
    BY <1>7, SMT DEF StatTmp, Touch, Labels
  <1>8. ASSUME NEW p \in Pids, Link2(p) PROVE TypeInv'
    BY <1>8, SMT DEF Link2, Touch, Labels
  <1>9. ASSUME NEW p \in Pids, Stat2(p) PROVE TypeInv'
    BY <1>9, SMT DEF Stat2, Labels
  <1>10. ASSUME NEW p \in Pids, Rm(p) PROVE TypeInv'
    BY <1>10, SMT DEF Rm, Touch, Labels
  <1>11. ASSUME NEW p \in Pids, Rm2(p) PROVE TypeInv'
    BY <1>11, SMT DEF Rm2, Touch, Labels
  <1>12. ASSUME NEW p \in Pids, StatMine(p) PROVE TypeInv'
    BY <1>12, SMT DEF StatMine, Labels
  <1>13. ASSUME NEW p \in Pids, Out2(p) PROVE TypeInv'
    BY <1>13, SMT DEF Out2, Touch, Labels
  <1>14. ASSUME NEW p \in Pids, Out(p) PROVE TypeInv'
    BY <1>14, SMT DEF Out, Touch, Exit, Labels, NoStat
  <1>15. ASSUME NEW p \in Pids, SysErr(p) PROVE TypeInv'
    BY <1>15, SMT DEF SysErr, AfterError, Labels
  <1>16. ASSUME NEW p \in Pids, ExitErr(p) PROVE TypeInv'
    BY <1>16, SMT DEF ExitErr, Exit, Labels, NoStat
  <1>17. ASSUME NEW p \in Pids, Crash(p) PROVE TypeInv'
    BY <1>17, SMT DEF Crash, Exit, Labels, NoStat
  <1>18. ASSUME NEW p \in Pids, NEW c \in Clients, Start(p, c) PROVE TypeInv'
    BY <1>18, SMT DEF Start, Labels
  <1>19. ASSUME NEW c \in Clients, Release(c) PROVE TypeInv'
    BY <1>19, SMT DEF Release, Touch
  <1>20. ASSUME NEW c \in Clients, Die(c) PROVE TypeInv'
    BY <1>20, SMT DEF Die
  <1>21. CASE Tick
    <2>1. age' \in [Inodes -> 0..MaxAge]
      BY <1>21, SMT DEF Tick, Older
    <2>2. \A a \in 0..MaxAge : Older(a) \in 0..MaxAge
      BY SMT DEF Older
    <2>3. st' \in [Pids -> [ino : Inodes \cup {NoInode}, age : 0..MaxAge, nlink : Nat]]
      BY <1>21, <2>2, SMTT(60) DEF Tick, NoStat
    <2> QED
      BY <1>21, <2>1, <2>3, SMT DEF Tick
  <1>22. CASE UNCHANGED vars
    BY <1>22, SMT DEF vars
  <1> QED
    BY <1>1, <1>2, <1>3, <1>4, <1>5, <1>6, <1>7, <1>8, <1>9, <1>10, <1>11, <1>12,
       <1>13, <1>14, <1>15, <1>16, <1>17, <1>18, <1>19, <1>20, <1>21, <1>22, Zenon
    DEF Next, Step

(* Every state that shlock reaches is well typed. *)
THEOREM TypeCorrect == Spec => []TypeOK
  <1>1. TypeInv => TypeOK
    BY DEF TypeInv
  <1> QED
    BY <1>1, TypeInit, TypeStep, PTL DEF Spec

-----------------------------------------------------------------------------
(* The inductive invariant. *)

\* With no lock, no temporary files and no process there is nothing to violate.
LEMMA InvInit == Init => LockInv
  BY ShlockAssumption, SMT
  DEF Init, LockInv, ClientWaits, TmpOwned, TmpPrivate, WonHasLock, HolderHasLock,
      FdOpen, LockOwned, BreaksStale, SecondLink, Unlinked, Won, Breaking

(* One step per action; in it, first the parts that the action preserves   *)
(* by themselves, then those that rest on other parts.                     *)
LEMMA InvStep == SoundUse /\ TypeInv /\ LockInv /\ [Next]_vars => LockInv'
  <1> SUFFICES ASSUME SoundUse, TypeInv, LockInv, [Next]_vars PROVE LockInv'
    OBVIOUS
  <1>0. TypeInv'
    BY TypeStep
  <1> USE ShlockAssumption, <1>0 DEF SoundUse, TypeInv, TypeOK, Entries, Goto, files, procs,
        LockInv, Alive, Unlinked, Won, Breaking
  <1>1. ASSUME NEW p \in Pids, XtmpUnlink(p) PROVE LockInv'
    <2>1. ClientWaits' /\ TmpOwned' /\ WonHasLock' /\ HolderHasLock' /\ LockOwned' /\
       BreaksStale' /\ SecondLink'
      BY <1>1, SMT DEF XtmpUnlink, Touch, ClientWaits, TmpOwned, WonHasLock,
         HolderHasLock, LockOwned, BreaksStale, SecondLink
    <2>2. TmpPrivate'
      BY <1>1, SMT DEF XtmpUnlink, Touch, TmpPrivate, TmpOwned
    <2> QED
      BY <1>0, <2>1, <2>2
  <1>2. ASSUME NEW p \in Pids, XtmpCreate(p) PROVE LockInv'
    <2>1. ClientWaits' /\ TmpOwned' /\ TmpPrivate' /\ WonHasLock' /\ HolderHasLock' /\
       LockOwned' /\ BreaksStale' /\ SecondLink'
      BY <1>2, SMT DEF XtmpCreate, Touch, Fresh, ClientWaits, TmpOwned, TmpPrivate,
         WonHasLock, HolderHasLock, LockOwned, BreaksStale, SecondLink
    <2> QED
      BY <1>0, <2>1
  <1>3. ASSUME NEW p \in Pids, Link(p) PROVE LockInv'
    <2>1. ClientWaits' /\ TmpOwned' /\ TmpPrivate' /\ HolderHasLock' /\ BreaksStale'
      BY <1>3, SMT DEF Link, Touch, ClientWaits, TmpOwned, TmpPrivate, HolderHasLock,
         BreaksStale
    <2>2. WonHasLock'
      BY <1>3, SMT DEF Link, Touch, WonHasLock, TmpOwned
    <2>3. LockOwned'
      BY <1>3, SMT DEF Link, Touch, LockOwned, TmpOwned, ClientWaits
    <2>4. SecondLink'
      <3>1. CASE lockf = NoInode
        <4>1. \A q \in Pids : pc[q] # "rm"
          BY <3>1, SMT DEF SecondLink, BreaksStale
        <4>2. \A q \in Pids : st[q].ino # lockf'
          BY <1>3, <3>1, SMT DEF Link, TmpPrivate
        <4> QED
          BY <1>3, <3>1, <4>1, <4>2, SMT DEF Link, SecondLink
      <3>2. CASE lockf # NoInode
        BY <1>3, <3>2, SMT DEF Link, SecondLink
      <3> QED
        BY <3>1, <3>2
    <2> QED
      BY <1>0, <2>1, <2>2, <2>3, <2>4
  <1>4. ASSUME NEW p \in Pids, CkOpen(p) PROVE LockInv'
    <2>1. ClientWaits' /\ TmpOwned' /\ TmpPrivate' /\ WonHasLock' /\ HolderHasLock' /\
       LockOwned' /\ BreaksStale' /\ SecondLink'
      BY <1>4, SMT DEF CkOpen, ClientWaits, TmpOwned, TmpPrivate, WonHasLock,
         HolderHasLock, LockOwned, BreaksStale, SecondLink
    <2> QED
      BY <1>0, <2>1
  <1>5. ASSUME NEW p \in Pids, CkFstat(p) PROVE LockInv'
    <2>1. ClientWaits' /\ TmpOwned' /\ TmpPrivate' /\ WonHasLock' /\ HolderHasLock' /\
       LockOwned' /\ BreaksStale' /\ SecondLink'
      BY <1>5, SMT DEF CkFstat, ClientWaits, TmpOwned, TmpPrivate, WonHasLock,
         HolderHasLock, LockOwned, BreaksStale, SecondLink
    <2> QED
      BY <1>0, <2>1
  <1>6. ASSUME NEW p \in Pids, CkRead(p) PROVE LockInv'
    <2>1. ClientWaits' /\ TmpOwned' /\ WonHasLock' /\ HolderHasLock' /\ LockOwned' /\
       SecondLink'
      BY <1>6, SMT DEF CkRead, Readable, ClientWaits, TmpOwned, WonHasLock,
         HolderHasLock, LockOwned, SecondLink
    <2>2. TmpPrivate'
      BY <1>6, SMT DEF CkRead, Readable, TmpPrivate, TmpOwned
    <2>3. BreaksStale'
      BY <1>6, SMT DEF CkRead, Readable, BreaksStale, FdOpen, LockOwned, ClientWaits
    <2> QED
      BY <1>0, <2>1, <2>2, <2>3
  <1>7. ASSUME NEW p \in Pids, StatTmp(p) PROVE LockInv'
    <2>1. ClientWaits' /\ TmpOwned' /\ WonHasLock' /\ HolderHasLock' /\ LockOwned' /\
       BreaksStale' /\ SecondLink'
      BY <1>7, SMT DEF StatTmp, Touch, ClientWaits, TmpOwned, WonHasLock, HolderHasLock,
         LockOwned, BreaksStale, SecondLink
    <2>2. TmpPrivate'
      BY <1>7, SMT DEF StatTmp, Touch, TmpPrivate, TmpOwned
    <2> QED
      BY <1>0, <2>1, <2>2
  <1>8. ASSUME NEW p \in Pids, Link2(p) PROVE LockInv'
    <2>1. ClientWaits' /\ TmpOwned' /\ TmpPrivate' /\ WonHasLock' /\ HolderHasLock' /\
       LockOwned' /\ BreaksStale' /\ SecondLink'
      BY <1>8, SMT DEF Link2, Touch, ClientWaits, TmpOwned, TmpPrivate, WonHasLock,
         HolderHasLock, LockOwned, BreaksStale, SecondLink
    <2> QED
      BY <1>0, <2>1
  <1>9. ASSUME NEW p \in Pids, Stat2(p) PROVE LockInv'
    <2>1. ClientWaits' /\ TmpOwned' /\ TmpPrivate' /\ WonHasLock' /\ HolderHasLock' /\
       LockOwned' /\ BreaksStale'
      BY <1>9, SMT DEF Stat2, ClientWaits, TmpOwned, TmpPrivate, WonHasLock,
         HolderHasLock, LockOwned, BreaksStale
    <2>2. SecondLink'
      <3>1. ASSUME NEW q \in Pids, pc[q] = "rm", SafeToBreak(p) PROVE q = p
        BY <1>9, <3>1, TwoBreakersSeen DEF Stat2, SafeToBreak, SecondLink
      <3>2. CASE SafeToBreak(p)
        BY <1>9, <3>1, <3>2, SMT DEF Stat2, SafeToBreak, SecondLink
      <3>3. CASE ~SafeToBreak(p)
        BY <1>9, <3>3, SMT DEF Stat2, SecondLink
      <3> QED
        BY <3>2, <3>3
    <2> QED
      BY <1>0, <2>1, <2>2
  <1>10. ASSUME NEW p \in Pids, Rm(p) PROVE LockInv'
    <2>1. ClientWaits' /\ TmpOwned' /\ LockOwned' /\ BreaksStale'
      BY <1>10, SMT DEF Rm, Touch, ClientWaits, TmpOwned, LockOwned, BreaksStale
    <2>2. TmpPrivate'
      BY <1>10, SMT DEF Rm, Touch, TmpPrivate, TmpOwned
    <2>3. WonHasLock'
      BY <1>10, SMT DEF Rm, Touch, WonHasLock, TmpOwned, BreaksStale, SecondLink
    <2>4. HolderHasLock'
      BY <1>10, SMT DEF Rm, Touch, HolderHasLock, BreaksStale, SecondLink
    <2>5. SecondLink'
      BY <1>10, SMT DEF Rm, Touch, SecondLink, BreaksStale
    <2> QED
      BY <1>0, <2>1, <2>2, <2>3, <2>4, <2>5
  <1>11. ASSUME NEW p \in Pids, Rm2(p) PROVE LockInv'
    <2>1. ClientWaits' /\ TmpOwned' /\ WonHasLock' /\ HolderHasLock' /\ LockOwned' /\
       BreaksStale' /\ SecondLink'
      BY <1>11, SMT DEF Rm2, Touch, ClientWaits, TmpOwned, WonHasLock, HolderHasLock,
         LockOwned, BreaksStale, SecondLink
    <2>2. TmpPrivate'
      BY <1>11, SMT DEF Rm2, Touch, TmpPrivate, TmpOwned
    <2> QED
      BY <1>0, <2>1, <2>2
  <1>12. ASSUME NEW p \in Pids, StatMine(p) PROVE LockInv'
    <2>1. ClientWaits' /\ TmpOwned' /\ TmpPrivate' /\ WonHasLock' /\ HolderHasLock' /\
       LockOwned' /\ BreaksStale' /\ SecondLink'
      BY <1>12, SMT DEF StatMine, ClientWaits, TmpOwned, TmpPrivate, WonHasLock,
         HolderHasLock, LockOwned, BreaksStale, SecondLink
    <2> QED
      BY <1>0, <2>1
  <1>13. ASSUME NEW p \in Pids, Out2(p) PROVE LockInv'
    <2>1. ClientWaits' /\ TmpOwned' /\ WonHasLock' /\ HolderHasLock' /\ LockOwned' /\
       BreaksStale' /\ SecondLink'
      BY <1>13, SMT DEF Out2, Touch, ClientWaits, TmpOwned, WonHasLock, HolderHasLock,
         LockOwned, BreaksStale, SecondLink
    <2>2. TmpPrivate'
      BY <1>13, SMT DEF Out2, Touch, TmpPrivate, TmpOwned
    <2> QED
      BY <1>0, <2>1, <2>2
  <1>14. ASSUME NEW p \in Pids, Out(p) PROVE LockInv'
    <2>1. ClientWaits' /\ TmpOwned' /\ LockOwned' /\ BreaksStale' /\ SecondLink'
      BY <1>14, SMT DEF Out, Touch, Exit, NoStat, ClientWaits, TmpOwned, LockOwned,
         BreaksStale, SecondLink
    <2>2. TmpPrivate'
      BY <1>14, SMT DEF Out, Touch, Exit, NoStat, TmpPrivate, TmpOwned
    <2>3. WonHasLock'
      BY <1>14, SMT DEF Out, Touch, Exit, NoStat, WonHasLock, ClientWaits
    <2>4. HolderHasLock'
      BY <1>14, SMT DEF Out, Touch, Exit, NoStat, HolderHasLock, TmpOwned, WonHasLock
    <2> QED
      BY <1>0, <2>1, <2>2, <2>3, <2>4
  <1>15. ASSUME NEW p \in Pids, SysErr(p) PROVE LockInv'
    <2>1. ClientWaits' /\ TmpOwned' /\ WonHasLock' /\ HolderHasLock' /\ LockOwned' /\
       BreaksStale' /\ SecondLink'
      BY <1>15, SMT DEF SysErr, AfterError, ClientWaits, TmpOwned, WonHasLock,
         HolderHasLock, LockOwned, BreaksStale, SecondLink
    <2>2. TmpPrivate'
      BY <1>15, SMT DEF SysErr, AfterError, TmpPrivate, TmpOwned
    <2> QED
      BY <1>0, <2>1, <2>2
  <1>16. ASSUME NEW p \in Pids, ExitErr(p) PROVE LockInv'
    <2>1. ClientWaits' /\ TmpOwned' /\ LockOwned' /\ BreaksStale' /\ SecondLink'
      BY <1>16, SMT DEF ExitErr, Exit, NoStat, ClientWaits, TmpOwned, LockOwned,
         BreaksStale, SecondLink
    <2>2. TmpPrivate'
      BY <1>16, SMT DEF ExitErr, Exit, NoStat, TmpPrivate, TmpOwned
    <2>3. WonHasLock'
      BY <1>16, SMT DEF ExitErr, Exit, NoStat, WonHasLock, ClientWaits
    <2>4. HolderHasLock'
      BY <1>16, SMT DEF ExitErr, Exit, NoStat, HolderHasLock, TmpOwned, WonHasLock
    <2> QED
      BY <1>0, <2>1, <2>2, <2>3, <2>4
  <1>17. ASSUME NEW p \in Pids, Crash(p) PROVE LockInv'
    <2>1. ClientWaits' /\ TmpOwned' /\ HolderHasLock' /\ LockOwned' /\ BreaksStale' /\
       SecondLink'
      BY <1>17, SMT DEF Crash, Exit, NoStat, ClientWaits, TmpOwned, HolderHasLock,
         LockOwned, BreaksStale, SecondLink
    <2>2. TmpPrivate'
      BY <1>17, SMT DEF Crash, Exit, NoStat, TmpPrivate, TmpOwned
    <2>3. WonHasLock'
      BY <1>17, SMT DEF Crash, Exit, NoStat, WonHasLock, ClientWaits
    <2> QED
      BY <1>0, <2>1, <2>2, <2>3
  <1>18. ASSUME NEW p \in Pids, NEW c \in Clients, Start(p, c) PROVE LockInv'
    <2>1. ClientWaits' /\ TmpOwned' /\ TmpPrivate' /\ WonHasLock' /\ HolderHasLock' /\
       LockOwned' /\ BreaksStale' /\ SecondLink'
      BY <1>18, SMTT(60) DEF Start, ClientWaits, TmpOwned, TmpPrivate, WonHasLock,
         HolderHasLock, LockOwned, BreaksStale, SecondLink
    <2> QED
      BY <1>0, <2>1
  <1>19. ASSUME NEW c \in Clients, Release(c) PROVE LockInv'
    <2>1. ClientWaits' /\ TmpOwned' /\ HolderHasLock' /\ LockOwned' /\ BreaksStale'
      BY <1>19, SMT DEF Release, Touch, ClientWaits, TmpOwned, HolderHasLock, LockOwned,
         BreaksStale
    <2>2. TmpPrivate'
      BY <1>19, SMT DEF Release, Touch, TmpPrivate, TmpOwned
    <2>3. WonHasLock'
      BY <1>19, SMT DEF Release, Touch, WonHasLock, ClientWaits, TmpOwned, HolderHasLock
    <2>4. SecondLink'
      BY <1>19, SMT DEF Release, Touch, SecondLink, BreaksStale, HolderHasLock
    <2> QED
      BY <1>0, <2>1, <2>2, <2>3, <2>4
  <1>20. ASSUME NEW c \in Clients, Die(c) PROVE LockInv'
    <2>1. ClientWaits' /\ TmpOwned' /\ TmpPrivate' /\ WonHasLock' /\ HolderHasLock' /\
       LockOwned' /\ BreaksStale' /\ SecondLink'
      BY <1>20, SMT DEF Die, ClientWaits, TmpOwned, TmpPrivate, WonHasLock,
         HolderHasLock, LockOwned, BreaksStale, SecondLink
    <2> QED
      BY <1>0, <2>1
  <1>21. ASSUME Tick PROVE LockInv'
    <2>1. ClientWaits' /\ TmpOwned' /\ TmpPrivate' /\ WonHasLock' /\ HolderHasLock' /\
       LockOwned' /\ BreaksStale' /\ SecondLink'
      BY <1>21, SMT DEF Tick, ClientWaits, TmpOwned, TmpPrivate, WonHasLock,
         HolderHasLock, LockOwned, BreaksStale, SecondLink
    <2> QED
      BY <1>0, <2>1
  <1>22. ASSUME UNCHANGED vars PROVE LockInv'
    <2>1. ClientWaits' /\ TmpOwned' /\ TmpPrivate' /\ WonHasLock' /\ HolderHasLock' /\
       LockOwned' /\ BreaksStale' /\ SecondLink'
      BY <1>22, SMT DEF vars, ClientWaits, TmpOwned, TmpPrivate, WonHasLock,
         HolderHasLock, LockOwned, BreaksStale, SecondLink
    <2> QED
      BY <1>0, <2>1
  <1> QED
    BY <1>1, <1>2, <1>3, <1>4, <1>5, <1>6, <1>7, <1>8, <1>9, <1>10, <1>11, <1>12, <1>13,
       <1>14, <1>15, <1>16, <1>17, <1>18, <1>19, <1>20, <1>21, <1>22, Zenon DEF Next,
       Step

-----------------------------------------------------------------------------
(* The safety theorems: what holds if inode numbers are not reused while   *)
(* remembered, all clients use one lock format and read() does not fail.   *)

(* The inductive invariant holds in every reachable state of shlock.       *)
THEOREM LockInvariant == SoundUse => (Spec => []LockInv)
  <1> SUFFICES ASSUME SoundUse PROVE Spec => []LockInv
    OBVIOUS
  <1>1. TypeInv /\ LockInv /\ [Next]_vars => LockInv'
    BY InvStep
  <1> QED
    BY <1>1, InvInit, TypeInit, TypeStep, PTL DEF Spec

(* A script that shlock told LOCK_SET has its pid in the lock file until   *)
(* it releases the lock or dies.                                           *)
THEOREM HolderKeepsLock == SoundUse => (Spec => []HolderHasLock)
  <1>1. LockInv => HolderHasLock
    BY DEF LockInv
  <1> QED
    BY <1>1, LockInvariant, PTL

\* Two scripts whose pids are in the same lock file are the same script.
LEMMA HoldersEqual == HolderHasLock => Mutex
  BY Zenon DEF HolderHasLock, Mutex

\* Mutual exclusion, for any number of scripts and shlock processes.
THEOREM MutualExclusion == SoundUse => (Spec => []Mutex)
  BY HolderKeepsLock, HoldersEqual, PTL

(* The second link does protect against multiple removals: one breaker at  *)
(* a time, and only of the dead client's lock that it has examined.        *)
THEOREM OneBreaker == SoundUse => (Spec => []SingleBreaker)
  <1>1. LockInv => SingleBreaker
    BY SMT DEF LockInv, SecondLink, BreaksStale, SingleBreaker, Breaking
  <1> QED
    BY <1>1, LockInvariant, PTL

\* A step that takes the lock name off an inode: stale, or its owner's own.
LEMMA BreakStep ==
    ASSUME SoundUse, TypeInv, LockInv, [Next]_vars,
           lockf # lockf', lockf # NoInode
    PROVE  \/ cstate[owner[lockf]] = "dead"
           \/ cstate[owner[lockf]] = "holding" /\ cstate'[owner[lockf]] = "idle"
  <1> USE DEF files, procs
  <1>1. ASSUME NEW p \in Pids, Rm(p) PROVE cstate[owner[lockf]] = "dead"
    BY <1>1 DEF Rm, LockInv, SecondLink, BreaksStale, Breaking, Alive
  <1>2. ASSUME NEW c \in Clients, Release(c)
        PROVE  cstate[owner[lockf]] = "holding" /\ cstate'[owner[lockf]] = "idle"
    BY <1>2 DEF Release, LockInv, HolderHasLock, TypeInv, TypeOK
  <1>3. ASSUME NEW p \in Pids, Step(p), ~Rm(p) PROVE FALSE
    BY <1>3 DEF Step, XtmpUnlink, XtmpCreate, Link, CkOpen, CkFstat, CkRead,
                StatTmp, Link2, Stat2, Rm2, StatMine, Out2, Out
  <1>4. ASSUME NEW p \in Pids, SysErr(p) \/ ExitErr(p) \/ Crash(p) PROVE FALSE
    BY <1>4 DEF SysErr, ExitErr, Crash
  <1>5. ASSUME NEW p \in Pids, NEW c \in Clients, Start(p, c) PROVE FALSE
    BY <1>5 DEF Start
  <1>6. ASSUME NEW c \in Clients, Die(c) PROVE FALSE
    BY <1>6 DEF Die
  <1>7. ASSUME Tick \/ UNCHANGED vars PROVE FALSE
    BY <1>7 DEF Tick, vars
  <1> QED
    BY <1>1, <1>2, <1>3, <1>4, <1>5, <1>6, <1>7, Zenon DEF Next

(* No process breaks or replaces the lock of a living script: the lock     *)
(* name leaves an inode only when its owner is dead or removes it itself.  *)
THEOREM StaleOnly == SoundUse => (Spec => OnlyStaleBroken)
  <1> SUFFICES ASSUME SoundUse PROVE Spec => OnlyStaleBroken
    OBVIOUS
  <1>1. TypeInv /\ LockInv /\ [Next]_vars =>
          [lockf # lockf' /\ lockf # NoInode =>
             \/ cstate[owner[lockf]] = "dead"
             \/ cstate[owner[lockf]] = "holding" /\ cstate'[owner[lockf]] = "idle"]_vars
    BY BreakStep
  <1>2. Spec => []TypeInv
    BY TypeInit, TypeStep, PTL DEF Spec
  <1>3. Spec => []LockInv
    BY LockInvariant
  <1> QED
    BY <1>1, <1>2, <1>3, PTL DEF Spec, OnlyStaleBroken

-----------------------------------------------------------------------------
(* Refinement. *)

Held == {c \in Clients : cstate[c] = "holding"}

\* A step of shlock is a step of the abstract lock, or invisible there.
LEMMA AbstractStep ==
    ASSUME SoundUse, TypeInv, LockInv, [Next]_vars
    PROVE  \/ \E c \in Clients : (Held = {} /\ Held' = {c}) \/ (Held = {c} /\ Held' = {})
           \/ Held' = Held
  <1> USE DEF TypeInv, TypeOK, LockInv, files, procs, Held
  <1>1. ASSUME NEW c \in Clients, cstate[c] = "holding" PROVE Held = {c}
    BY <1>1, SMT DEF HolderHasLock
  <1>2. ASSUME NEW p \in Pids, Out(p) \/ ExitErr(p) \/ Crash(p)
        PROVE  (\E c \in Clients : Held = {} /\ Held' = {c}) \/ Held' = Held
    <2>1. CASE pc[p] = "outset" /\ cstate[cl[p]] = "trying"
      <3>1. cl[p] \in Clients /\ lockf = tmp[p] /\ owner[lockf] = cl[p] /\ tmp[p] \in Inodes
        BY <2>1, SMT DEF ClientWaits, WonHasLock, TmpOwned, Won, Alive
      <3>2. Held = {}
        BY <2>1, <3>1, SMT DEF HolderHasLock
      <3>3. Held' = {cl[p]} \/ Held' = {}
        BY <1>2, <2>1, <3>1, <3>2, SMT DEF Out, ExitErr, Crash, Exit
      <3> QED
        BY <3>1, <3>2, <3>3
    <2>2. CASE ~(pc[p] = "outset" /\ cstate[cl[p]] = "trying")
      BY <1>2, <2>2, SMT DEF Out, ExitErr, Crash, Exit
    <2> QED
      BY <2>1, <2>2
  <1>3. ASSUME NEW c \in Clients, Release(c) \/ Die(c)
        PROVE  (Held = {c} /\ Held' = {}) \/ Held' = Held
    <2>1. CASE cstate[c] = "holding"
      <3>1. Held = {c}
        BY <1>1, <2>1
      <3>2. Held' = {}
        BY <1>3, <3>1, SMT DEF Release, Die
      <3> QED
        BY <3>1, <3>2
    <2>2. CASE cstate[c] # "holding"
      BY <1>3, <2>2, SMT DEF Release, Die
    <2> QED
      BY <2>1, <2>2
  <1>4. ASSUME NEW p \in Pids, Step(p), ~Out(p) PROVE cstate' = cstate
    BY <1>4 DEF Step, XtmpUnlink, XtmpCreate, Link, CkOpen, CkFstat, CkRead,
                StatTmp, Link2, Stat2, Rm, Rm2, StatMine, Out2
  <1>5. ASSUME NEW p \in Pids, SysErr(p) PROVE cstate' = cstate
    BY <1>5 DEF SysErr
  <1>6. ASSUME NEW p \in Pids, NEW c \in Clients, Start(p, c) PROVE Held' = Held
    BY <1>6, SMT DEF Start
  <1>7. ASSUME Tick \/ UNCHANGED vars PROVE cstate' = cstate
    BY <1>7 DEF Tick, vars
  <1>8. cstate' = cstate => Held' = Held
    OBVIOUS
  <1> HIDE DEF TypeInv, TypeOK, LockInv, files, procs, Held
  <1>9. ASSUME NEW p \in Pids, Step(p) \/ SysErr(p) \/ ExitErr(p) \/ Crash(p)
        PROVE  (\E c \in Clients : Held = {} /\ Held' = {c}) \/ Held' = Held
    BY <1>2, <1>4, <1>5, <1>8, <1>9
  <1> QED
    BY <1>3, <1>6, <1>7, <1>8, <1>9 DEF Next

(* shlock implements the abstract lock: LOCK_SET is answered only when     *)
(* nobody holds the lock, and the lock is dropped only by its holder.      *)
THEOREM Refinement == SoundUse => (Spec => ImplementsAbstractLock)
  <1> SUFFICES ASSUME SoundUse PROVE Spec => Abstract!LSpec
    BY DEF ImplementsAbstractLock
  <1>1. Init => Abstract!LInit
    BY SMT DEF Init, Abstract!LInit
  <1>2. TypeInv /\ LockInv /\ [Next]_vars =>
           [Abstract!LNext]_{c \in Clients : cstate[c] = "holding"}
    BY AbstractStep, Zenon DEF Abstract!LNext, Abstract!Acquire, Abstract!Drop, Held
  <1>3. Spec => []TypeInv
    BY TypeInit, TypeStep, PTL DEF Spec
  <1>4. Spec => []LockInv
    BY LockInvariant
  <1> QED
    BY <1>1, <1>2, <1>3, <1>4, PTL DEF Spec, Abstract!LSpec


-----------------------------------------------------------------------------
(* What a process leaves behind. *)

\* No process is killed and no system call fails.
Undisturbed == MaxCrashes = 0 /\ Faults = {}

(* The second link exists only while the lock is being broken or on the    *)
(* way to out2, and then the lock has been examined, so that out2 has its  *)
(* name to unlink.                                                         *)
LinksInv ==
    \A p \in Pids :
        /\ pc[p] \in {"idle", "xtmp"} => tmp[p] = NoInode
        /\ pc[p] \in {"ckread", "stattmp", "link2", "stat2", "rm", "rm2"} =>
             st[p].ino # NoInode
        /\ tmp2[p] # NoInode =>
             pc[p] \in {"stat2", "rm", "rm2", "out2"} /\ st[p].ino # NoInode

\* Every step of an undisturbed shlock keeps the account of its links.
LEMMA LinksStep ==
    ASSUME Undisturbed, TypeInv, LinksInv, [Next]_vars
    PROVE  LinksInv'
  <1> USE ShlockAssumption DEF Undisturbed, TypeInv, TypeOK, FdOpen, Entries, Goto, files, procs,
        LinksInv
  <1>1. ASSUME NEW p \in Pids, XtmpUnlink(p) \/ XtmpCreate(p) PROVE LinksInv'
    BY <1>1, SMT DEF XtmpUnlink, XtmpCreate
  <1>2. ASSUME NEW p \in Pids, Link(p) \/ CkOpen(p) PROVE LinksInv'
    BY <1>2, SMT DEF Link, CkOpen
  <1>3. ASSUME NEW p \in Pids, CkFstat(p) PROVE LinksInv'
    BY <1>3, SMT DEF CkFstat
  <1>4. ASSUME NEW p \in Pids, CkRead(p) PROVE LinksInv'
    BY <1>4, SMT DEF CkRead
  <1>5. ASSUME NEW p \in Pids, StatTmp(p) PROVE LinksInv'
    BY <1>5, SMT DEF StatTmp
  <1>6. ASSUME NEW p \in Pids, Link2(p) PROVE LinksInv'
    BY <1>6, SMT DEF Link2
  <1>7. ASSUME NEW p \in Pids, Stat2(p) \/ StatMine(p) PROVE LinksInv'
    BY <1>7, SMT DEF Stat2, StatMine
  <1>8. ASSUME NEW p \in Pids, Rm(p) \/ Rm2(p) PROVE LinksInv'
    BY <1>8, SMT DEF Rm, Rm2
  <1>9. ASSUME NEW p \in Pids, Out2(p) PROVE LinksInv'
    BY <1>9, SMT DEF Out2, NoStat
  <1>10. ASSUME NEW p \in Pids, Out(p) PROVE LinksInv'
    BY <1>10, SMT DEF Out, Exit, NoStat
  <1>11. ASSUME NEW p \in Pids, SysErr(p) \/ ExitErr(p) \/ Crash(p) PROVE FALSE
    BY <1>11, SMT DEF SysErr, ExitErr, Crash
  <1>12. ASSUME NEW p \in Pids, NEW c \in Clients, Start(p, c) PROVE LinksInv'
    BY <1>12, SMT DEF Start
  <1>13. ASSUME NEW c \in Clients, Release(c) \/ Die(c) PROVE LinksInv'
    BY <1>13, SMT DEF Release, Die
  <1>14. CASE Tick
    BY <1>14, SMT DEF Tick, NoStat
  <1>15. CASE UNCHANGED vars
    BY <1>15, SMT DEF vars
  <1> QED
    BY <1>1, <1>2, <1>3, <1>4, <1>5, <1>6, <1>7, <1>8, <1>9, <1>10, <1>11, <1>12, <1>13, <1>14,
       <1>15, Zenon DEF Next, Step

(* Unless processes are killed or system calls fail, no shlock process     *)
(* leaves a link behind, on any path through mklock(), whatever the other  *)
(* processes do: also with inode numbers reused and formats mixed.         *)
THEOREM NothingLeft == Undisturbed => (Spec => []CleanExit)
  <1> SUFFICES ASSUME Undisturbed PROVE Spec => []CleanExit
    OBVIOUS
  <1>1. Init => LinksInv
    BY DEF Init, LinksInv
  <1>2. TypeInv /\ LinksInv /\ [Next]_vars => LinksInv'
    BY LinksStep
  <1>3. LinksInv => CleanExit
    BY DEF LinksInv, CleanExit
  <1> QED
    BY <1>1, <1>2, <1>3, TypeInit, TypeStep, PTL DEF Spec
=============================================================================
