----------------------------- MODULE JobsProofs -----------------------------
(***************************************************************************)
(* Theorems about Jobs, for any number of jobs, stages, children, stops,   *)
(* failing calls, traps and changes of -m: which jobs the shell's pointers *)
(* refer to, what a half started pipeline can rely on, what the state of a *)
(* job says of its processes, and which jobs are kept for a wait to come.  *)
(***************************************************************************)
EXTENDS Jobs, Induction, FiniteSetTheorems, SequenceTheorems

-----------------------------------------------------------------------------
(* The inductive invariants. *)

Proc == [pid : Pids, state : 0..3]
Job == [flags : SUBSET Flags, state : 0..3, status : 0..2, pgrp : Pids \cup {0},
        procs : Seq(Proc)]
Table == [list : Seq(JobIds), job : [JobIds -> Job], njobs : 0..MaxJobs,
          last : 0..MaxJobs, async : 0..MaxJobs, nzombie : Int]
Places == {"idle", "pipe", "reading", "any", "check", "sleep", "woke", "gone"}
MainRec == [at : Places, j : 0..MaxJobs, kind : {"none", "pid", "any"} \cup Kinds]
Kern == [st : {"free", "run", "stop", "dead"}, new : BOOLEAN, sig : BOOLEAN, job : 0..MaxJobs]

Typed ==
    /\ env \in Env
    /\ tab \in Table
    /\ main \in MainRec
    /\ kern \in [Pids -> Kern]
    /\ {held_sigchld, handler, chld} \subseteq BOOLEAN

(* j_waitj() and the reader of a `command` have marked their job, so that  *)
(* the handler spares it; a pipeline's last_job is not started, so that    *)
(* there is no handler, and is no zombie.                                  *)
PlaceInv ==
    /\ main.at \in {"check", "sleep", "woke", "reading"} =>
          main.j \in Listed(tab) /\ "WAITING" \in tab.job[main.j].flags
    /\ main.at = "reading" => tab.last = main.j /\ "STARTED" \in tab.job[main.j].flags
    /\ main.at = "pipe" =>
          /\ main.j \in Listed(tab) /\ tab.last = main.j
          /\ tab.job[main.j].flags \cap {"STARTED", "ZOMBIE"} = {}
          /\ ~handler
    /\ tab.last \in Listed(tab) \cup {0}

\* async_job is in the list, unless bg has freed it.
AsyncInv == tab.async \in Listed(tab) \cup {0, env.freed}

\* fork() fails.
SomeFork == \E recycled \in BOOLEAN : ForkFails(recycled)

\* The processes of job j and the kernel k agree.
ProcsInv(job, j, k) ==
    /\ job.procs # <<>>
    /\ \A a, b \in DOMAIN job.procs : job.procs[a].pid = job.procs[b].pid => a = b
    /\ \A i \in DOMAIN job.procs :
          IF job.procs[i].state \in Terminal THEN k[job.procs[i].pid].st = "free"
          ELSE k[job.procs[i].pid].st # "free" /\ k[job.procs[i].pid].job = j

\* What the state of a job says of its processes.
StateInv(job) ==
    /\ job.state \in Terminal =>
          /\ \A i \in DOMAIN job.procs : job.procs[i].state \in Terminal
          /\ job.status = LastProc(job).state
    /\ job.state = PRUNNING => \E i \in DOMAIN job.procs : job.procs[i].state = PRUNNING
    /\ "STARTED" \notin job.flags => job.state = PRUNNING

(* Each child is known to its job, if that is still there, and to no other *)
(* one.                                                                    *)
TableInv(t, k) ==
    /\ \A j \in Listed(t) : j <= t.njobs /\ ProcsInv(t.job[j], j, k) /\ StateInv(t.job[j])
    /\ \A i, j \in Listed(t) : PidsOf(t.job[i]) \cap PidsOf(t.job[j]) # {} => i = j
    /\ \A p \in Pids : k[p].st # "free" =>
          k[p].job <= t.njobs /\ (k[p].job \in Listed(t) => p \in PidsOf(t.job[k[p].job]))

\* The end of a child is on its way to the shell.
NewsInv ==
    /\ \A p \in Pids : kern[p].st = "dead" => chld \/ handler \/ held_sigchld
    /\ handler => ~PartlyStarted(tab)
-----------------------------------------------------------------------------
(* Lists of jobs. *)

Elements(s) == {s[i] : i \in DOMAIN s}

\* Without() leaves the other jobs, and only those.
LEMMA WithoutElements ==
    ASSUME NEW J, NEW s \in Seq(J), NEW S
    PROVE  Without(s, S) \in Seq(J) /\ Elements(Without(s, S)) = Elements(s) \ S
  <1> DEFINE n == Len(s)
             g == [i \in 1..n |-> [x \in Seq(J) |-> IF s[i] \in S THEN x ELSE Append(x, s[i])]]
             Def(f) == f = [i \in 0..n |-> IF i = 0 THEN <<>>
                              ELSE IF s[i] \in S THEN f[i - 1] ELSE Append(f[i - 1], s[i])]
             f0 == CHOOSE f : Def(f)
  <1>1. n \in Nat /\ DOMAIN s = 1..n /\ \A i \in 1..n : s[i] \in J
    OBVIOUS
  <1>2. Without(s, S) = f0[n]
    BY Zenon DEF Without
  <1> HIDE DEF n
  <1>3. g \in [1..n -> [Seq(J) -> Seq(J)]]
    <2>1. \A i \in 1..n : \A x \in Seq(J) : Append(x, s[i]) \in Seq(J)
      BY <1>1
    <2> QED
      BY <2>1
  <1>4. \E f \in [0..n -> Seq(J)] : Def(f)
    <2> HIDE DEF g
    <2> DEFINE X == Seq(J)
               x0 == <<>>
    <2>1. x0 \in X /\ g \in [1..n -> [X -> X]]
      BY <1>3
    <2> HIDE DEF X, x0
    <2>2. PICK f \in [0..n -> X] : Follows(f, n, x0, g)
      BY <1>1, <2>1, Recursion
    <2> USE DEF X, x0, Follows
    <2>3. ASSUME NEW k \in 1..n
          PROVE  f[k] = IF s[k] \in S THEN f[k - 1] ELSE Append(f[k - 1], s[k])
      <3>1. f[k] = g[k][f[k - 1]] /\ k - 1 \in 0..n
        BY <1>1, <2>2, <2>3, SMTT(60)
      <3>2. f[k - 1] \in Seq(J)
        BY <3>1
      <3>3. g[k] = [x \in Seq(J) |-> IF s[k] \in S THEN x ELSE Append(x, s[k])]
        BY <2>3 DEF g
      <3> QED
        BY <3>1, <3>2, <3>3, Zenon
    <2>4. Def(f)
      <3> DEFINE e(i) == IF i = 0 THEN <<>>
                         ELSE IF s[i] \in S THEN f[i - 1] ELSE Append(f[i - 1], s[i])
      <3>1. \A i \in 0..n : f[i] = e(i)
        <4>1. f[0] = e(0) /\ \A i \in 1..n : f[i] = e(i)
          BY <2>2, <2>3
        <4>2. \A i \in 0..n : i = 0 \/ i \in 1..n
          BY <1>1
        <4> HIDE DEF e
        <4> QED
          BY <4>1, <4>2
      <3> SUFFICES f = [i \in 0..n |-> e(i)]
        OBVIOUS
      <3> HIDE DEF e, X
      <3> QED
        BY <3>1
    <2> HIDE DEF Def
    <2> QED
      BY <2>4
  <1>5. Def(f0)
    BY <1>4, Zenon
  <1> HIDE DEF f0
  <1> DEFINE U(k) == {s[i] : i \in 1..k} \ S
             T == {k \in 0..n : f0[k] \in Seq(J) /\ Elements(f0[k]) = U(k)}
  <1>6. 0 \in T
    <2>1. f0[0] = <<>>
      <3>1. 0 \in 0..n
        BY <1>1
      <3> QED
        BY <1>5, <3>1
    <2>2. U(0) = {} /\ Elements(<<>>) = {} /\ <<>> \in Seq(J) /\ 0 \in 0..n
      BY <1>1 DEF Elements
    <2> QED
      BY <2>1, <2>2
  <1>7. ASSUME NEW k \in 1..n, k - 1 \in T PROVE k \in T
    <2> DEFINE x == f0[k - 1]
               y == f0[k]
    <2>1. x \in Seq(J) /\ Elements(x) = U(k - 1)
      BY <1>7
    <2>2. y = IF s[k] \in S THEN x ELSE Append(x, s[k])
      <3>1. k \in 0..n /\ k # 0
        BY <1>1
      <3> QED
        BY <1>5, <3>1
    <2>3. U(k) = U(k - 1) \cup ({s[k]} \ S)
      BY <1>1
    <2> HIDE DEF x, y
    <2>4. CASE s[k] \in S
      <3>1. y \in Seq(J) /\ Elements(y) = U(k)
        BY <2>1, <2>2, <2>3, <2>4
      <3> QED
        BY <3>1 DEF y
    <2>5. CASE s[k] \notin S
      <3>1. y = Append(x, s[k]) /\ s[k] \in J
        BY <1>1, <2>2, <2>5
      <3>2. y \in Seq(J) /\ Elements(y) = Elements(x) \cup {s[k]}
        <4>1. /\ y \in Seq(J) /\ DOMAIN y = 1..(Len(x) + 1) /\ DOMAIN x = 1..Len(x)
              /\ y[Len(x) + 1] = s[k] /\ Len(x) \in Nat
              /\ \A i \in 1..Len(x) : y[i] = x[i]
          BY <2>1, <3>1, AppendProperties
        <4> QED
          BY <4>1 DEF Elements
      <3>3. Elements(y) = U(k)
        BY <2>1, <2>3, <2>5, <3>2
      <3> QED
        BY <3>2, <3>3 DEF y
    <2> QED
      BY <2>4, <2>5
  <1>8. f0[n] \in Seq(J) /\ Elements(f0[n]) = U(n)
    <2>1. \A k \in 1..n : k - 1 \in T => k \in T
      BY <1>7
    <2> HIDE DEF T
    <2>2. \A k \in 0..n : k \in T
      BY <1>1, <1>6, <2>1, UpTo
    <2>3. n \in T
      BY <1>1, <2>2
    <2> QED
      BY <2>3, Zenon DEF T
  <1>9. U(n) = Elements(s) \ S
    BY <1>1 DEF Elements
  <1> QED
    BY <1>2, <1>8, <1>9


\* The smallest index of a set of indices is one of them.
LEMMA FirstIndex ==
    ASSUME NEW S, S \subseteq Nat, S # {}
    PROVE  (CHOOSE i \in S : \A k \in S : i <= k) \in S
  <1>1. \E i \in S : \A k \in S : i <= k
    BY Least
  <1> QED
    BY <1>1, Zenon

\* put_job() adds the job to the list and changes nothing else.
LEMMA PutJobFacts ==
    ASSUME NEW t \in Table, NEW j \in JobIds, NEW front \in BOOLEAN
    PROVE  /\ PutJob(t, j, front) \in Table
           /\ Listed(PutJob(t, j, front)) = Listed(t) \cup {j}
           /\ PutJob(t, j, front).job = t.job /\ PutJob(t, j, front).njobs = t.njobs
           /\ PutJob(t, j, front).last = t.last /\ PutJob(t, j, front).async = t.async
           /\ PutJob(t, j, front).nzombie = t.nzombie
  <1> DEFINE others == Without(t.list, {j})
             stopped == {n \in 0..Len(others) :
                           \A i \in 1..n : t.job[others[i]].state = PSTOPPED}
             max == CHOOSE m \in stopped : \A k \in stopped : k <= m
             n == IF front THEN 0 ELSE max
             list == SubSeq(others, 1, n) \o <<j>> \o SubSeq(others, n + 1, Len(others))
  <1>1. t.list \in Seq(JobIds) /\ Listed(t) = Elements(t.list)
    BY DEF Table, Listed, Elements
  <1>2. others \in Seq(JobIds) /\ Elements(others) = Listed(t) \ {j}
    BY <1>1, WithoutElements
  <1>3. PutJob(t, j, front) = [t EXCEPT !.list = list]
    BY Zenon DEF PutJob
  <1>4. n \in 0..Len(others)
    <2> HIDE DEF others
    <2>1. Len(others) \in Nat
      BY <1>2
    <2>2. 0 \in stopped /\ stopped \subseteq 0..Len(others)
      BY <2>1
    <2> HIDE DEF stopped
    <2>3. \E m \in stopped : \A k \in stopped : k <= m
      BY <2>1, <2>2, Greatest
    <2>4. max \in stopped
      BY <2>3, Zenon
    <2> HIDE DEF max
    <2> QED
      BY <2>1, <2>2, <2>4
  <1> HIDE DEF others, n
  <1>5. list \in Seq(JobIds) /\ Elements(list) = Elements(others) \cup {j}
    <2> DEFINE a == SubSeq(others, 1, n)
               b == SubSeq(others, n + 1, Len(others))
               m == Len(others)
    <2>1. m \in Nat /\ n \in 0..m /\ DOMAIN others = 1..m
      BY <1>2, <1>4
    <2>2. a \in Seq(JobIds) /\ Len(a) = n /\ \A i \in 1..n : a[i] = others[i]
      BY <1>2, <2>1, SubSeqProperties
    <2>3. b \in Seq(JobIds) /\ Len(b) = m - n /\ \A i \in 1..(m - n) : b[i] = others[n + i]
      <3>1. /\ b \in Seq(JobIds)
            /\ Len(b) = IF n + 1 <= m THEN m - (n + 1) + 1 ELSE 0
            /\ \A i \in 1..(m - (n + 1) + 1) : b[i] = others[(n + 1) + i - 1]
        <4> DEFINE lo == n + 1
        <4>1. lo \in 1..(Len(others) + 1) /\ m \in (lo - 1)..Len(others)
          BY <2>1
        <4> HIDE DEF lo
        <4>2. /\ SubSeq(others, lo, m) \in Seq(JobIds)
              /\ Len(SubSeq(others, lo, m)) = IF lo <= m THEN m - lo + 1 ELSE 0
              /\ \A i \in 1..(m - lo + 1) : SubSeq(others, lo, m)[i] = others[lo + i - 1]
          BY <1>2, <4>1, SubSeqProperties
        <4> QED
          BY <4>2 DEF lo
      <3> HIDE DEF b, m
      <3>2. Len(b) = m - n
        BY <2>1, <3>1
      <3>3. \A i \in 1..(m - n) : (n + 1) + i - 1 = n + i /\ i \in 1..(m - (n + 1) + 1)
        BY <2>1
      <3> QED
        BY <3>1, <3>2, <3>3
    <2> HIDE DEF a, b, m
    <2>4. <<j>> \in Seq(JobIds) /\ Len(<<j>>) = 1 /\ <<j>>[1] = j
      OBVIOUS
    <2> DEFINE c == a \o <<j>>
    <2>5. /\ c \in Seq(JobIds) /\ Len(c) = n + 1 /\ c[n + 1] = j
          /\ \A i \in 1..n : c[i] = others[i]
      BY <2>1, <2>2, <2>4
    <2>6. list = c \o b
      BY DEF a, b, m
    <2> HIDE DEF c, list
    <2>7. /\ list \in Seq(JobIds) /\ Len(list) = m + 1 /\ list[n + 1] = j
          /\ \A i \in 1..n : list[i] = others[i]
          /\ \A i \in (n + 2)..(m + 1) : list[i] = others[i - 1]
      <3>1. /\ list \in Seq(JobIds) /\ Len(list) = Len(c) + Len(b)
            /\ \A i \in 1..(Len(c) + Len(b)) :
                  list[i] = IF i <= Len(c) THEN c[i] ELSE b[i - Len(c)]
        BY <2>3, <2>5, <2>6, ConcatProperties
      <3>2. Len(list) = m + 1
        BY <2>1, <2>3, <2>5, <3>1
      <3>3. \A i \in 1..(m + 1) : list[i] = IF i <= n + 1 THEN c[i] ELSE b[i - (n + 1)]
        BY <2>1, <2>3, <2>5, <3>1, <3>2
      <3>4. list[n + 1] = j /\ \A i \in 1..n : list[i] = others[i]
        BY <2>1, <2>5, <3>3
      <3>5. ASSUME NEW i \in (n + 2)..(m + 1) PROVE list[i] = others[i - 1]
        <4> DEFINE k == i - (n + 1)
        <4>1. i \in 1..(m + 1) /\ ~(i <= n + 1) /\ k \in 1..(m - n) /\ n + k = i - 1
          BY <2>1
        <4>2. list[i] = b[k]
          BY <3>3, <4>1
        <4>3. b[k] = others[n + k]
          BY <2>3, <4>1
        <4> QED
          BY <4>1, <4>2, <4>3
      <3> QED
        BY <3>1, <3>2, <3>4, <3>5
    <2>8. DOMAIN list = 1..(m + 1)
      BY <2>7
    <2>9. Elements(list) \subseteq Elements(others) \cup {j}
      BY <2>1, <2>7, <2>8 DEF Elements
    <2>10. Elements(others) \subseteq Elements(list)
      <3> SUFFICES ASSUME NEW i \in 1..m PROVE others[i] \in Elements(list)
        BY <2>1 DEF Elements
      <3>1. CASE i <= n
        BY <2>1, <2>7, <2>8, <3>1 DEF Elements
      <3>2. CASE i > n
        <4>1. i + 1 \in (n + 2)..(m + 1) /\ i + 1 \in 1..(m + 1) /\ (i + 1) - 1 = i
          BY <2>1, <3>2
        <4> QED
          BY <2>7, <2>8, <4>1 DEF Elements
      <3> QED
        BY <2>1, <3>1, <3>2
    <2>11. j \in Elements(list)
      BY <2>1, <2>7, <2>8 DEF Elements
    <2> QED
      BY <2>7, <2>9, <2>10, <2>11
  <1> HIDE DEF list
  <1>6. /\ PutJob(t, j, front) \in Table
        /\ PutJob(t, j, front).list = list
        /\ PutJob(t, j, front).job = t.job /\ PutJob(t, j, front).njobs = t.njobs
        /\ PutJob(t, j, front).last = t.last /\ PutJob(t, j, front).async = t.async
        /\ PutJob(t, j, front).nzombie = t.nzombie
    BY <1>3, <1>5, Zenon DEF Table
  <1>7. Listed(PutJob(t, j, front)) = Elements(list)
    BY <1>6, Zenon DEF Listed, Elements
  <1> QED
    BY <1>2, <1>5, <1>6, <1>7
-----------------------------------------------------------------------------
(* What the operations do to the table. *)

\* last_job is in the list.
Pointers(t) == t.last \in Listed(t) \cup {0}

(* async_job of u is that of t, and then in the list if it was, or there   *)
(* is none.                                                                *)
AsyncKept(u, t) ==
    u.async # 0 => u.async = t.async /\ (t.async \in Listed(t) => t.async \in Listed(u))

\* u is t with some jobs removed.
Shrunk(u, t) ==
    /\ u \in Table /\ Listed(u) \subseteq Listed(t)
    /\ u.njobs = t.njobs
    /\ \A i \in Listed(u) : u.job[i] = t.job[i]

\* The jobs of the list are among those the shell may start.
LEMMA ListedJobs ==
    ASSUME NEW t \in Table
    PROVE  /\ Listed(t) \subseteq JobIds /\ 0 \notin Listed(t)
           /\ \A S : Cardinality(S \cap Zombies(t)) \in Nat
  <1> USE JobsAssumption
  <1>1. t.list \in Seq(JobIds)
    BY Zenon DEF Table
  <1>2. Listed(t) \subseteq JobIds
    BY <1>1 DEF Listed
  <1>3. 0 \notin JobIds
    BY DEF JobIds
  <1>4. IsFiniteSet(JobIds)
    <2>1. 1 \in Int /\ MaxJobs \in Int
      OBVIOUS
    <2> QED
      BY <2>1, FS_Interval, Zenon DEF JobIds
  <1>5. \A S : S \cap Zombies(t) \subseteq JobIds
    BY <1>2 DEF Zombies
  <1>6. \A S : Cardinality(S \cap Zombies(t)) \in Nat
    BY <1>4, <1>5, FS_Subset, FS_CardinalityType, Zenon
  <1> QED
    BY <1>2, <1>3, <1>6, Zenon

(* remove_job() removes these jobs from the list, and any pointer to them; *)
(* their flags stay.                                                       *)
LEMMA RemoveJobsFacts ==
    ASSUME NEW t \in Table, NEW S
    PROVE  LET u == RemoveJobs(t, S) IN
           /\ Shrunk(u, t) /\ Listed(u) = Listed(t) \ S
           /\ u.last = (IF t.last \in S \cap Listed(t) THEN 0 ELSE t.last)
           /\ u.async = (IF t.async \in S \cap Listed(t) THEN 0 ELSE t.async)
           /\ \A i \in JobIds : u.job[i].flags = t.job[i].flags
           /\ u.nzombie = t.nzombie - Cardinality(S \cap Zombies(t))
  <1> USE JobsAssumption
  <1> DEFINE u == RemoveJobs(t, S)
             R == S \cap Listed(t)
             list == Without(t.list, R)
             freed(j) == [NoJob EXCEPT !.flags = t.job[j].flags]
             job == [j \in JobIds |-> IF j \in R THEN freed(j) ELSE t.job[j]]
             nz == t.nzombie - Cardinality(S \cap Zombies(t))
             last == IF t.last \in R THEN 0 ELSE t.last
             async == IF t.async \in R THEN 0 ELSE t.async
  <1>1. u = [t EXCEPT !.list = list, !.job = job, !.nzombie = nz, !.last = last, !.async = async]
    BY Zenon DEF RemoveJobs
  <1>2. t.list \in Seq(JobIds) /\ Listed(t) = Elements(t.list)
    BY DEF Table, Listed, Elements
  <1>3. list \in Seq(JobIds) /\ Elements(list) = Listed(t) \ S
    <2> HIDE DEF R
    <2>1. list \in Seq(JobIds) /\ Elements(list) = Elements(t.list) \ R
      BY <1>2, WithoutElements
    <2> QED
      BY <1>2, <2>1, Zenon DEF R
  <1>4. \A i \in JobIds : freed(i) \in Job /\ freed(i).flags = t.job[i].flags
    <2>1. <<>> \in Seq(Proc)
      OBVIOUS
    <2>2. NoJob \in Job
      BY <2>1 DEF NoJob, Job, PRUNNING
    <2>3. \A i \in JobIds : t.job[i].flags \in SUBSET Flags
      BY Zenon DEF Table, Job
    <2> QED
      BY <2>2, <2>3, Zenon DEF Job
  <1> HIDE DEF freed
  <1>5. job \in [JobIds -> Job] /\ \A i \in JobIds \ R : job[i] = t.job[i]
    <2> HIDE DEF R
    <2> QED
      BY <1>4, Zenon DEF Table
  <1>6. \A i \in JobIds : job[i].flags = t.job[i].flags
    <2> HIDE DEF R
    <2> QED
      BY <1>4, Zenon
  <1>7. nz \in Int
    <2>1. t.nzombie \in Int
      BY Zenon DEF Table
    <2>2. Cardinality(S \cap Zombies(t)) \in Nat
      BY ListedJobs, Zenon
    <2> QED
      BY <2>1, <2>2
  <1>8. last \in 0..MaxJobs /\ async \in 0..MaxJobs
    <2>1. 0 \in 0..MaxJobs
      OBVIOUS
    <2> QED
      BY <2>1, Zenon DEF Table
  <1> HIDE DEF u, list, job, nz, last, async
  <1>9. /\ u \in Table /\ u.list = list /\ u.job = job /\ u.njobs = t.njobs
        /\ u.last = last /\ u.async = async /\ u.nzombie = nz
    BY <1>1, <1>3, <1>5, <1>7, <1>8, Zenon DEF Table
  <1>10. Listed(u) = Listed(t) \ S
    BY <1>3, <1>9, Zenon DEF Listed, Elements
  <1>11. Listed(t) \subseteq JobIds
    BY ListedJobs, Zenon
  <1>12. \A i \in Listed(u) : u.job[i] = t.job[i]
    BY <1>5, <1>9, <1>10, <1>11, Zenon
  <1> QED
    BY <1>6, <1>9, <1>10, <1>12, Zenon DEF last, async, nz, u, Shrunk

\* The table with a new value for one job.
WithJob(t, j, job) == [t EXCEPT !.job[j] = job]

\* Nothing else of the table changes.
LEMMA ChangedJob ==
    ASSUME NEW t \in Table, NEW j \in JobIds, NEW job \in Job
    PROVE  LET u == WithJob(t, j, job) IN
           /\ u \in Table /\ Listed(u) = Listed(t) /\ u.list = t.list
           /\ u.njobs = t.njobs /\ u.last = t.last /\ u.async = t.async /\ u.nzombie = t.nzombie
           /\ u.job[j] = job /\ \A i \in JobIds \ {j} : u.job[i] = t.job[i]
  <1> DEFINE u == WithJob(t, j, job)
             f == [t.job EXCEPT ![j] = job]
  <1>1. t.job \in [JobIds -> Job]
    BY Zenon DEF Table
  <1>2. f \in [JobIds -> Job] /\ f[j] = job /\ \A i \in JobIds \ {j} : f[i] = t.job[i]
    BY <1>1
  <1>3. u = [t EXCEPT !.job = f]
    BY Zenon DEF WithJob
  <1> HIDE DEF u, f
  <1>4. /\ u \in Table /\ u.list = t.list /\ u.njobs = t.njobs /\ u.last = t.last
        /\ u.async = t.async /\ u.nzombie = t.nzombie /\ u.job = f
    BY <1>2, <1>3, Zenon DEF Table
  <1>5. Listed(u) = Listed(t)
    BY <1>4, Zenon DEF Listed
  <1> QED
    BY <1>2, <1>4, <1>5, Zenon DEF u

\* Job a is job b as far as processes are concerned; it may have been started meanwhile.
SameProcs(a, b) ==
    /\ a.procs = b.procs /\ a.state = b.state /\ a.status = b.status
    /\ "STARTED" \in b.flags => "STARTED" \in a.flags

\* A job that is not younger than the m-th is not younger than the n-th.
NotFewer(n, m) == \A i \in 0..MaxJobs : i <= m => i <= n

\* The jobs of u are jobs of t.
Like(u, t) ==
    /\ u \in Table /\ Listed(u) \subseteq Listed(t) /\ NotFewer(u.njobs, t.njobs)
    /\ \A i \in Listed(u) : SameProcs(u.job[i], t.job[i])

\* Removing jobs from a table keeps the others.
LEMMA ShrunkLike ==
    ASSUME NEW t, NEW u, NEW v, Shrunk(u, t), Shrunk(v, u)
    PROVE  Shrunk(v, t) /\ Like(v, t)
  BY Zenon DEF Shrunk, Like, SameProcs, NotFewer

\* So do several changes one after the other.
LEMMA LikeTransitive ==
    ASSUME NEW t, NEW u, NEW v, Like(u, t), Like(v, u)
    PROVE  Like(v, t)
  BY Zenon DEF Like, SameProcs, NotFewer

\* A table is like itself.
LEMMA LikeItself ==
    ASSUME NEW t \in Table
    PROVE  Shrunk(t, t) /\ Like(t, t)
  BY Zenon DEF Shrunk, Like, SameProcs, NotFewer

\* The table after flags of a job have been set.
LEMMA SetFlagsLike ==
    ASSUME NEW t \in Table, NEW j \in JobIds, NEW f \in SUBSET Flags
    PROVE  LET u == SetFlags(t, j, f) IN
           /\ u \in Table /\ Listed(u) = Listed(t) /\ Like(u, t)
           /\ u.last = t.last /\ u.async = t.async /\ u.njobs = t.njobs /\ u.nzombie = t.nzombie
           /\ u.job[j].flags = t.job[j].flags \cup f
           /\ SameProcs(u.job[j], t.job[j])
           /\ \A i \in JobIds \ {j} : u.job[i] = t.job[i]
  <1> DEFINE u == SetFlags(t, j, f)
             new == [t.job[j] EXCEPT !.flags = @ \cup f]
  <1>1. u = WithJob(t, j, new)
    BY Zenon DEF SetFlags, WithJob
  <1>2. /\ new \in Job /\ new.flags = t.job[j].flags \cup f /\ new.procs = t.job[j].procs
        /\ new.state = t.job[j].state /\ new.status = t.job[j].status
    <2>1. t.job[j] \in Job
      BY Zenon DEF Table
    <2>2. t.job[j].flags \cup f \in SUBSET Flags
      BY <2>1, Zenon DEF Job
    <2> QED
      BY <2>1, <2>2, Zenon DEF Job
  <1> HIDE DEF new
  <1>3. /\ WithJob(t, j, new) \in Table /\ Listed(WithJob(t, j, new)) = Listed(t)
        /\ WithJob(t, j, new).last = t.last /\ WithJob(t, j, new).async = t.async
        /\ WithJob(t, j, new).njobs = t.njobs /\ WithJob(t, j, new).nzombie = t.nzombie
        /\ WithJob(t, j, new).job[j] = new
        /\ \A i \in JobIds \ {j} : WithJob(t, j, new).job[i] = t.job[i]
    BY <1>2, ChangedJob
  <1> HIDE DEF u
  <1>4. SameProcs(u.job[j], t.job[j])
    BY <1>1, <1>2, <1>3, Zenon DEF SameProcs
  <1>5. Listed(t) \subseteq JobIds
    BY ListedJobs, Zenon
  <1>6. Like(u, t)
    BY <1>1, <1>3, <1>4, <1>5, Zenon DEF Like, SameProcs, NotFewer
  <1> QED
    BY <1>1, <1>2, <1>3, <1>4, <1>6, Zenon DEF u

\* The table after flags other than JF_STARTED have been cleared.
LEMMA ClearFlagsLike ==
    ASSUME NEW t \in Table, NEW j \in JobIds, NEW f \in SUBSET (Flags \ {"STARTED"})
    PROVE  LET u == ClearFlags(t, j, f) IN
           /\ u \in Table /\ Listed(u) = Listed(t) /\ Like(u, t)
           /\ u.last = t.last /\ u.async = t.async /\ u.njobs = t.njobs /\ u.nzombie = t.nzombie
           /\ u.job[j].flags = t.job[j].flags \ f
           /\ SameProcs(u.job[j], t.job[j])
           /\ \A i \in JobIds \ {j} : u.job[i] = t.job[i]
  <1> DEFINE u == ClearFlags(t, j, f)
             new == [t.job[j] EXCEPT !.flags = @ \ f]
  <1>1. f \in SUBSET Flags /\ "STARTED" \notin f
    BY Zenon
  <1>2. u = WithJob(t, j, new)
    BY Zenon DEF ClearFlags, WithJob
  <1>3. /\ new \in Job /\ new.flags = t.job[j].flags \ f /\ new.procs = t.job[j].procs
        /\ new.state = t.job[j].state /\ new.status = t.job[j].status
    <2>1. t.job[j] \in Job
      BY Zenon DEF Table
    <2>2. t.job[j].flags \ f \in SUBSET Flags
      BY <1>1, <2>1, Zenon DEF Job
    <2> QED
      BY <2>1, <2>2, Zenon DEF Job
  <1> HIDE DEF new
  <1>4. /\ WithJob(t, j, new) \in Table /\ Listed(WithJob(t, j, new)) = Listed(t)
        /\ WithJob(t, j, new).last = t.last /\ WithJob(t, j, new).async = t.async
        /\ WithJob(t, j, new).njobs = t.njobs /\ WithJob(t, j, new).nzombie = t.nzombie
        /\ WithJob(t, j, new).job[j] = new
        /\ \A i \in JobIds \ {j} : WithJob(t, j, new).job[i] = t.job[i]
    BY <1>3, ChangedJob
  <1> HIDE DEF u
  <1>5. SameProcs(u.job[j], t.job[j])
    BY <1>1, <1>2, <1>3, <1>4, Zenon DEF SameProcs
  <1>6. Listed(t) \subseteq JobIds
    BY ListedJobs, Zenon
  <1>7. Like(u, t)
    BY <1>2, <1>4, <1>5, <1>6, Zenon DEF Like, SameProcs, NotFewer
  <1> QED
    BY <1>2, <1>3, <1>4, <1>5, <1>7, Zenon DEF u

\* async_job or nzombie is assigned.
LEMMA FieldFacts ==
    ASSUME NEW t \in Table, NEW a \in 0..MaxJobs, NEW n \in Int
    PROVE  /\ LET u == [t EXCEPT !.async = a] IN
              /\ Shrunk(u, t) /\ Listed(u) = Listed(t) /\ u.async = a /\ u.last = t.last
              /\ u.job = t.job /\ u.nzombie = t.nzombie
           /\ LET u == [t EXCEPT !.nzombie = n] IN
              /\ Shrunk(u, t) /\ Listed(u) = Listed(t) /\ u.async = t.async /\ u.last = t.last
              /\ u.job = t.job /\ u.nzombie = n
  <1> DEFINE u == [t EXCEPT !.async = a]
             v == [t EXCEPT !.nzombie = n]
  <1>1. /\ u \in Table /\ u.list = t.list /\ u.job = t.job /\ u.njobs = t.njobs
        /\ u.async = a /\ u.last = t.last /\ u.nzombie = t.nzombie
    BY Zenon DEF Table
  <1>2. /\ v \in Table /\ v.list = t.list /\ v.job = t.job /\ v.njobs = t.njobs
        /\ v.async = t.async /\ v.last = t.last /\ v.nzombie = n
    BY Zenon DEF Table
  <1> HIDE DEF u, v
  <1>3. Listed(u) = Listed(t) /\ Listed(v) = Listed(t)
    BY <1>1, <1>2, Zenon DEF Listed
  <1>4. Shrunk(u, t) /\ Shrunk(v, t)
    BY <1>1, <1>2, <1>3, Zenon DEF Shrunk
  <1> QED
    BY <1>1, <1>2, <1>3, <1>4, Zenon DEF u, v

\* The same jobs with the same processes, and the same ones of them zombies.
SameZombies(u, t) ==
    /\ Listed(u) = Listed(t) /\ u.nzombie = t.nzombie /\ u.async \in {0, t.async}
    /\ \A i \in Listed(t) :
          /\ u.job[i].procs = t.job[i].procs
          /\ "STARTED" \in t.job[i].flags => "STARTED" \in u.job[i].flags
          /\ "ZOMBIE" \in u.job[i].flags <=> "ZOMBIE" \in t.job[i].flags

\* Several such changes one after the other.
LEMMA SameZombiesTransitive ==
    ASSUME NEW t, NEW u, NEW v, SameZombies(u, t), SameZombies(v, u)
    PROVE  SameZombies(v, t)
  BY Zenon DEF SameZombies

\* The flags but ZOMBIE make no zombie, and async_job may be forgotten.
LEMMA FlagsSameZombies ==
    ASSUME NEW t \in Table, NEW j \in JobIds
    PROVE  /\ SameZombies(t, t)
           /\ \A f \in SUBSET (Flags \ {"ZOMBIE"}) : SameZombies(SetFlags(t, j, f), t)
           /\ \A f \in SUBSET (Flags \ {"STARTED", "ZOMBIE"}) :
                 SameZombies(ClearFlags(t, j, f), t)
           /\ \A a \in {0, t.async} : SameZombies([t EXCEPT !.async = a], t)
  <1>1. Listed(t) \subseteq JobIds
    BY ListedJobs, Zenon
  <1>2. SameZombies(t, t)
    BY Zenon DEF SameZombies
  <1>3. ASSUME NEW f \in SUBSET (Flags \ {"ZOMBIE"}) PROVE SameZombies(SetFlags(t, j, f), t)
    <2> DEFINE u == SetFlags(t, j, f)
    <2>1. f \in SUBSET Flags /\ "ZOMBIE" \notin f
      BY Zenon
    <2>2. /\ Listed(u) = Listed(t) /\ Like(u, t) /\ u.async = t.async /\ u.nzombie = t.nzombie
          /\ u.job[j].flags = t.job[j].flags \cup f
          /\ \A i \in JobIds \ {j} : u.job[i] = t.job[i]
      BY <2>1, SetFlagsLike
    <2> HIDE DEF u
    <2>3. SameZombies(u, t)
      BY <1>1, <2>1, <2>2, Zenon DEF SameZombies, Like, SameProcs
    <2> QED
      BY <2>3 DEF u
  <1>4. ASSUME NEW f \in SUBSET (Flags \ {"STARTED", "ZOMBIE"})
        PROVE  SameZombies(ClearFlags(t, j, f), t)
    <2> DEFINE u == ClearFlags(t, j, f)
    <2>1. f \in SUBSET (Flags \ {"STARTED"}) /\ "ZOMBIE" \notin f
      BY Zenon
    <2>2. /\ Listed(u) = Listed(t) /\ Like(u, t) /\ u.async = t.async /\ u.nzombie = t.nzombie
          /\ u.job[j].flags = t.job[j].flags \ f
          /\ \A i \in JobIds \ {j} : u.job[i] = t.job[i]
      BY <2>1, ClearFlagsLike
    <2> HIDE DEF u
    <2>3. SameZombies(u, t)
      BY <1>1, <2>1, <2>2, Zenon DEF SameZombies, Like, SameProcs
    <2> QED
      BY <2>3 DEF u
  <1>5. ASSUME NEW a \in {0, t.async} PROVE SameZombies([t EXCEPT !.async = a], t)
    <2> DEFINE u == [t EXCEPT !.async = a]
    <2>1. a \in 0..MaxJobs /\ 0 \in Int
      <3>1. 0 \in 0..MaxJobs
        BY JobsAssumption
      <3>2. t.async \in 0..MaxJobs
        BY Zenon DEF Table
      <3>3. 0 \in Int
        OBVIOUS
      <3> QED
        BY <3>1, <3>2, <3>3, Zenon
    <2>2. Listed(u) = Listed(t) /\ u.async = a /\ u.job = t.job /\ u.nzombie = t.nzombie
      BY <2>1, FieldFacts
    <2> HIDE DEF u
    <2>3. SameZombies(u, t)
      BY <2>2, Zenon DEF SameZombies
    <2> QED
      BY <2>3 DEF u
  <1> QED
    BY <1>2, <1>3, <1>4, <1>5, Zenon

(* j_set_async() makes j async_job, which is then in the list unless it    *)
(* was async_job before, and a zombie that $! was not used for.            *)
AsyncSet(u, t, j) ==
    \/ AsyncKept(u, t)
    \/ u.async = j /\ (j \in Listed(u) \/ (t.async = j /\ UnknownZombie(t.job[j])))

\* j_set_async() removes jobs.
LEMMA SetAsyncFacts ==
    ASSUME NEW t \in Table, NEW j \in Listed(t), Pointers(t), env \in Env
    PROVE  /\ Shrunk(SetAsync(t, j), t) /\ Pointers(SetAsync(t, j))
           /\ AsyncSet(SetAsync(t, j), t, j)
  <1> DEFINE t1 == IF t.async # 0 /\ UnknownZombie(t.job[t.async])
                   THEN RemoveJobs(t, {t.async}) ELSE t
             others == Zombies(t1) \ {j}
             excess == t1.nzombie - env.child_max
             t0 == RemoveJobs(t1, Oldest(others, excess))
             t2 == [t0 EXCEPT !.async = j]
             t3 == [t2 EXCEPT !.nzombie = 0]
             u == SetAsync(t, j)
             gone == t.async = j /\ UnknownZombie(t.job[j])
  <1>1. /\ u \in {t1, t2, t3}
        /\ Oldest(others, excess) \subseteq others
    BY Zenon DEF SetAsync, Oldest
  <1>2. Shrunk(t1, t) /\ Pointers(t1) /\ AsyncKept(t1, t) /\ (j \in Listed(t1) \/ gone)
    <2>1. CASE t1 = t
      BY <2>1, LikeItself, Zenon DEF AsyncKept
    <2>2. CASE t1 = RemoveJobs(t, {t.async}) /\ UnknownZombie(t.job[t.async])
      <3> HIDE DEF t1
      <3>1. /\ Shrunk(t1, t) /\ Listed(t1) = Listed(t) \ {t.async}
            /\ t1.last = (IF t.last \in {t.async} \cap Listed(t) THEN 0 ELSE t.last)
            /\ t1.async = (IF t.async \in {t.async} \cap Listed(t) THEN 0 ELSE t.async)
        BY <2>2, RemoveJobsFacts, ZenonT(60)
      <3>2. Pointers(t1)
        BY <3>1, Zenon DEF Pointers
      <3>3. AsyncKept(t1, t)
        BY <3>1, Zenon DEF AsyncKept
      <3>4. j \in Listed(t1) \/ gone
        BY <2>2, <3>1, Zenon
      <3> QED
        BY <3>1, <3>2, <3>3, <3>4, Zenon
    <2> QED
      BY <2>1, <2>2, Zenon
  <1> HIDE DEF t1, u, gone
  <1>3. CASE u = t1
    BY <1>2, <1>3, Zenon DEF u, AsyncSet
  <1>4. CASE u \in {t2, t3}
    <2>1. t1 \in Table
      BY <1>2, Zenon DEF Shrunk
    <2>2. /\ Shrunk(t0, t1) /\ Listed(t0) = Listed(t1) \ Oldest(others, excess)
          /\ t0.last = (IF t1.last \in Oldest(others, excess) \cap Listed(t1)
                        THEN 0 ELSE t1.last)
      BY <2>1, RemoveJobsFacts, ZenonT(60)
    <2> HIDE DEF t0, others, excess
    <2>3. (j \in Listed(t0) \/ gone) /\ t0 \in Table
      BY <1>1, <1>2, <2>2, Zenon DEF Shrunk, others
    <2>4. t0.last \in Listed(t0) \cup {0}
      BY <1>2, <2>2, Zenon DEF Pointers
    <2>5. j \in 0..MaxJobs /\ 0 \in Int
      <3>1. j \in JobIds
        BY ListedJobs, Zenon
      <3> QED
        BY <3>1, JobsAssumption DEF JobIds
    <2>6. Shrunk(t2, t0) /\ Listed(t2) = Listed(t0) /\ t2.async = j /\ t2.last = t0.last
      BY <2>3, <2>5, FieldFacts, ZenonT(60)
    <2> HIDE DEF t2
    <2>7. t2 \in Table
      BY <2>6, Zenon DEF Shrunk
    <2>8. Shrunk(t3, t2) /\ Listed(t3) = Listed(t2) /\ t3.async = t2.async /\ t3.last = t2.last
      BY <2>5, <2>7, FieldFacts
    <2> HIDE DEF t3
    <2>9. Shrunk(t2, t) /\ Shrunk(t3, t)
      BY <1>2, <2>2, <2>6, <2>8, ShrunkLike, Zenon
    <2>10. Pointers(t2) /\ Pointers(t3)
      BY <2>4, <2>6, <2>8, Zenon DEF Pointers
    <2>11. AsyncSet(t2, t, j) /\ AsyncSet(t3, t, j)
      BY <2>3, <2>6, <2>8, Zenon DEF AsyncSet, gone
    <2> QED
      BY <1>4, <2>9, <2>10, <2>11, Zenon DEF u
  <1> QED
    BY <1>1, <1>3, <1>4, Zenon

\* The states of the processes of a job.
ProcStates(job) == {job.procs[i].state : i \in DOMAIN job.procs}

\* What check_job() finds: a process still runs, or the state of the whole job is known.
Settled(new, old) ==
    \/ /\ new.state = old.state /\ new.status = old.status
       /\ "STARTED" \notin old.flags \/ PRUNNING \in ProcStates(old)
    \/ /\ PRUNNING \notin ProcStates(old)
       /\ new.state \in ProcStates(old) /\ \A r \in ProcStates(old) : r <= new.state
       /\ new.status = StatusOf(old)
       /\ "STARTED" \in old.flags

\* u is t after check_job() of job j.
Checked(u, t, j) ==
    /\ u \in Table /\ Listed(u) \subseteq Listed(t) /\ Listed(t) \subseteq Listed(u) \cup {j}
    /\ u.njobs = t.njobs /\ \A i \in Listed(u) \ {j} : u.job[i] = t.job[i]
    /\ Pointers(u)
    /\ "WAITING" \in t.job[j].flags => j \in Listed(u)
    /\ u.last = t.last \/ (t.last = j /\ j \notin Listed(u))
    /\ j \in Listed(u) => /\ u.job[j].procs = t.job[j].procs
                          /\ t.job[j].flags \subseteq u.job[j].flags
                          /\ u.job[j].flags \subseteq t.job[j].flags \cup {"ZOMBIE"}
                          /\ Settled(u.job[j], t.job[j])

(* What u has of zombies after check_job() of job j: the same, j besides,  *)
(* or those that there are without j.                                      *)
CheckedZombies(u, t, j) ==
    \/ SameZombies(u, t)
    \/ /\ Listed(u) = Listed(t) /\ u.nzombie = t.nzombie + 1 /\ u.async = t.async
       /\ \A i \in Listed(t) \ {j} : u.job[i] = t.job[i]
       /\ u.job[j].procs = t.job[j].procs /\ {"STARTED", "ZOMBIE"} \subseteq u.job[j].flags
       /\ \A i \in DOMAIN t.job[j].procs : t.job[j].procs[i].state \in Terminal
    \/ /\ "KNOWN" \in t.job[j].flags => monitor /\ env.notify
       /\ \E x \in Table : SameZombies(x, t) /\ u = RemoveJobs(x, {j})

\* check_job() changes nothing but this job, and never removes one that is waited for.
LEMMA CheckJobFacts ==
    ASSUME NEW t \in Table, NEW j \in Listed(t), t.job[j].procs # <<>>, Pointers(t)
    PROVE  Checked(CheckJob(t, j), t, j) /\ CheckedZombies(CheckJob(t, j), t, j)
  <1> DEFINE job == t.job[j]
             states == {job.procs[i].state : i \in DOMAIN job.procs}
             state == CHOOSE s \in states : \A r \in states : r <= s
             new == [job EXCEPT !.state = state, !.status = StatusOf(job)]
             t1 == WithJob(t, j, new)
             t2 == IF state = PSTOPPED THEN PutJob(t1, j, TRUE) ELSE t1
             z == [SetFlags(t1, j, {"ZOMBIE"}) EXCEPT !.nzombie = @ + 1]
             u == CheckJob(t, j)
  <1>1. j \in JobIds /\ Listed(t) \subseteq JobIds
    BY ListedJobs, Zenon
  <1>2. job \in Job /\ t.job \in [JobIds -> Job]
    BY <1>1, Zenon DEF Table
  <1>3. [t EXCEPT !.job[j].state = state, !.job[j].status = StatusOf(job)] = t1
    <2> HIDE DEF state
    <2>1. j \in DOMAIN t.job
      BY <1>1, <1>2, Zenon
    <2> QED
      BY <2>1, Zenon DEF WithJob
  <1>4. \/ u = t /\ ("STARTED" \notin job.flags \/ PRUNNING \in states)
        \/ /\ "STARTED" \in job.flags /\ PRUNNING \notin states
           /\ \/ u \in {t1, t2} \/ (u = z /\ state # PSTOPPED)
              \/ /\ u \in {RemoveJobs(t1, {j}), RemoveJobs(t2, {j})}
                 /\ "WAITING" \notin job.flags
                 /\ "KNOWN" \in job.flags => monitor /\ env.notify
    <2>1. "WAITING" \in job.flags => Spared(job)
      BY Zenon DEF Spared
    <2> DEFINE w == [t EXCEPT !.job[j].state = state, !.job[j].status = StatusOf(job)]
               w2 == IF state = PSTOPPED THEN PutJob(w, j, TRUE) ELSE w
    <2>2. u = IF "STARTED" \notin job.flags \/ PRUNNING \in states THEN t
              ELSE IF monitor
              THEN IF "XXCOM" \in job.flags THEN w
                   ELSE IF env.notify /\ "WAITING" \notin job.flags /\ state # PSTOPPED
                   THEN RemoveJobs(w2, {j}) ELSE w2
              ELSE IF Spared(job) \/ state = PSTOPPED THEN w
              ELSE IF j = t.async \/ "KNOWN" \in job.flags
              THEN [SetFlags(w, j, {"ZOMBIE"}) EXCEPT !.nzombie = @ + 1]
              ELSE RemoveJobs(w, {j})
      BY ZenonT(60) DEF CheckJob
    <2>3. w = t1
      BY <1>3
    <2> HIDE DEF w, t1
    <2>4. w2 = t2 /\ [SetFlags(w, j, {"ZOMBIE"}) EXCEPT !.nzombie = @ + 1] = z
      BY <2>3, Zenon
    <2> HIDE DEF u, w2, t2, z, job, states, state
    <2> QED
      BY <2>1, <2>2, <2>3, <2>4, Zenon
  <1>5. states # {} /\ states \subseteq 0..3
    <2>1. job.procs \in Seq(Proc) /\ job.procs # <<>>
      BY <1>2, Zenon DEF Job
    <2> HIDE DEF job
    <2>2. 1 \in DOMAIN job.procs /\ \A i \in DOMAIN job.procs : job.procs[i] \in Proc
      BY <2>1
    <2>3. \A i \in DOMAIN job.procs : job.procs[i].state \in 0..3
      BY <2>2, Zenon DEF Proc
    <2> QED
      BY <2>2, <2>3, Zenon
  <1>6. state \in states /\ \A r \in states : r <= state
    <2> HIDE DEF states
    <2>1. 3 \in Nat
      OBVIOUS
    <2>2. \E s \in states : \A r \in states : r <= s
      BY <1>5, <2>1, Greatest, Zenon
    <2> QED
      BY <2>2, Zenon
  <1>7. StatusOf(job) \in 0..2
    <2> DEFINE s == LastProc(job).state
    <2>1. job.procs \in Seq(Proc) /\ job.procs # <<>>
      BY <1>2, Zenon DEF Job
    <2>2. s \in 0..3
      <3> HIDE DEF job
      <3>1. LastProc(job) \in Proc
        BY <2>1 DEF LastProc
      <3> QED
        BY <3>1, Zenon DEF Proc
    <2>3. StatusOf(job) = IF s = PSTOPPED THEN 0 ELSE s
      BY Zenon DEF StatusOf
    <2> HIDE DEF s
    <2> QED
      BY <2>2, <2>3 DEF PSTOPPED
  <1>8. /\ new \in Job /\ new.state = state /\ new.status = StatusOf(job)
        /\ new.flags = job.flags /\ new.procs = job.procs
    <2>1. state \in 0..3
      BY <1>5, <1>6, Zenon
    <2> HIDE DEF job, state, states
    <2> QED
      BY <1>2, <1>7, <2>1, Zenon DEF Job
  <1>9. /\ t1 \in Table /\ Listed(t1) = Listed(t) /\ t1.job[j] = new
        /\ t1.njobs = t.njobs /\ t1.last = t.last /\ t1.async = t.async
        /\ t1.nzombie = t.nzombie
        /\ \A i \in JobIds \ {j} : t1.job[i] = t.job[i]
    <2> HIDE DEF new
    <2> QED
      BY <1>1, <1>8, ChangedJob
  <1> HIDE DEF state, states, new, t1
  <1>10. /\ t2 \in Table /\ Listed(t2) = Listed(t) /\ t2.job = t1.job
         /\ t2.njobs = t.njobs /\ t2.last = t.last /\ t2.async = t.async
         /\ t2.nzombie = t.nzombie
    <2>1. CASE state = PSTOPPED
      <3>1. t2 = PutJob(t1, j, TRUE)
        BY <2>1, Zenon
      <3> HIDE DEF t2
      <3>2. /\ t2 \in Table /\ Listed(t2) = Listed(t1) \cup {j} /\ t2.job = t1.job
            /\ t2.njobs = t1.njobs /\ t2.last = t1.last /\ t2.async = t1.async
            /\ t2.nzombie = t1.nzombie
        BY <1>1, <1>9, <3>1, PutJobFacts
      <3> QED
        BY <1>9, <3>2, Zenon
    <2>2. CASE state # PSTOPPED
      BY <1>9, <2>2, Zenon
    <2> QED
      BY <2>1, <2>2, Zenon
  <1> DEFINE y == SetFlags(t1, j, {"ZOMBIE"})
  <1>11. /\ y \in Table /\ Listed(y) = Listed(t) /\ y.njobs = t.njobs /\ y.last = t.last
         /\ y.async = t.async /\ y.nzombie = t.nzombie
         /\ y.job[j].flags = new.flags \cup {"ZOMBIE"}
         /\ SameProcs(y.job[j], new) /\ \A i \in JobIds \ {j} : y.job[i] = t.job[i]
    <2>1. {"ZOMBIE"} \in SUBSET Flags
      BY DEF Flags
    <2>2. /\ y \in Table /\ Listed(y) = Listed(t1)
          /\ y.last = t1.last /\ y.async = t1.async /\ y.njobs = t1.njobs
          /\ y.nzombie = t1.nzombie
          /\ y.job[j].flags = t1.job[j].flags \cup {"ZOMBIE"}
          /\ SameProcs(y.job[j], t1.job[j])
          /\ \A i \in JobIds \ {j} : y.job[i] = t1.job[i]
      BY <1>1, <1>9, <2>1, SetFlagsLike
    <2> HIDE DEF y
    <2> QED
      BY <1>9, <2>2, Zenon
  <1>12. /\ Listed(z) = Listed(y) /\ Shrunk(z, y) /\ z.job = y.job /\ z.last = y.last
         /\ z.async = y.async /\ z.nzombie = y.nzombie + 1
    <2> HIDE DEF y
    <2> DEFINE n == y.nzombie + 1
    <2>1. n \in Int
      <3>1. y.nzombie \in Int
        BY <1>11, Zenon DEF Table
      <3> QED
        BY <3>1
    <2>2. z = [y EXCEPT !.nzombie = n]
      BY Zenon DEF y
    <2>3. 0 \in 0..MaxJobs
      BY JobsAssumption
    <2> HIDE DEF n, z
    <2> QED
      BY <1>11, <2>1, <2>2, <2>3, FieldFacts, ZenonT(60) DEF n
  <1> HIDE DEF t2, y, z
  <1>13. ASSUME PRUNNING \notin states, "STARTED" \in job.flags
         PROVE  \A x : x.state = state /\ x.status = StatusOf(job) => Settled(x, job)
    BY <1>6, <1>13, Zenon DEF Settled, ProcStates, states
  <1>14. CASE u = t /\ ("STARTED" \notin job.flags \/ PRUNNING \in states)
    <2>1. Settled(job, job)
      BY <1>14, Zenon DEF Settled, ProcStates, states
    <2> HIDE DEF u
    <2>2. Checked(u, t, j)
      BY <1>14, <2>1, Zenon DEF Checked
    <2>3. CheckedZombies(u, t, j)
      BY <1>1, <1>14, FlagsSameZombies, Zenon DEF CheckedZombies
    <2> QED
      BY <2>2, <2>3 DEF u
  <1>15. ASSUME NEW x \in Table, Listed(x) = Listed(t), x.njobs = t.njobs, x.last = t.last,
                x.async = t.async, \A i \in JobIds \ {j} : x.job[i] = t.job[i],
                x.job[j].procs = job.procs, job.flags \subseteq x.job[j].flags,
                x.job[j].flags \subseteq job.flags \cup {"ZOMBIE"},
                Settled(x.job[j], job)
         PROVE  Checked(x, t, j)
    <2>1. Pointers(x)
      BY <1>15, Zenon DEF Pointers
    <2>2. \A i \in Listed(x) \ {j} : x.job[i] = t.job[i]
      BY <1>1, <1>15, Zenon
    <2> QED
      BY <1>15, <2>1, <2>2, Zenon DEF Checked
  <1>16. ASSUME NEW x \in Table, Listed(x) = Listed(t), x.njobs = t.njobs, x.last = t.last,
                x.async = t.async, \A i \in JobIds \ {j} : x.job[i] = t.job[i],
                "WAITING" \notin job.flags
         PROVE  Checked(RemoveJobs(x, {j}), t, j)
    <2> DEFINE v == RemoveJobs(x, {j})
    <2>1. /\ Shrunk(v, x) /\ Listed(v) = Listed(x) \ {j}
          /\ v.last = (IF x.last \in {j} \cap Listed(x) THEN 0 ELSE x.last)
      BY RemoveJobsFacts
    <2> HIDE DEF v
    <2>2. Pointers(v)
      BY <1>16, <2>1, Zenon DEF Pointers
    <2>3. \A i \in Listed(v) \ {j} : v.job[i] = t.job[i]
      BY <1>1, <1>16, <2>1, Zenon DEF Shrunk
    <2>4. v \in Table /\ v.njobs = t.njobs
      BY <1>16, <2>1, Zenon DEF Shrunk
    <2>5. v.last = t.last \/ (t.last = j /\ j \notin Listed(v))
      BY <1>16, <2>1, Zenon
    <2>6. Checked(v, t, j)
      BY <1>16, <2>1, <2>2, <2>3, <2>4, <2>5, Zenon DEF Checked
    <2> QED
      BY <2>6 DEF v
  <1>17. SameZombies(t1, t) /\ SameZombies(t2, t)
    BY <1>1, <1>8, <1>9, <1>10, ZenonT(60) DEF SameZombies
  <1>18. ASSUME state # PSTOPPED, "STARTED" \in job.flags, PRUNNING \notin states
         PROVE  CheckedZombies(z, t, j)
    <2>1. \A s \in states : s \in Terminal
      <3>1. state \in 0..3
        BY <1>5, <1>6, Zenon
      <3> QED
        BY <1>5, <1>6, <1>18, <3>1 DEF PSTOPPED, PRUNNING, Terminal, PEXITED, PSIGNALLED
    <2>2. \A i \in DOMAIN job.procs : job.procs[i].state \in Terminal
      BY <2>1, Zenon DEF states
    <2>3. z.job[j].procs = job.procs /\ {"STARTED", "ZOMBIE"} \subseteq z.job[j].flags
      BY <1>8, <1>11, <1>12, <1>18, Zenon DEF SameProcs
    <2>4. \A i \in Listed(t) \ {j} : z.job[i] = t.job[i]
      BY <1>1, <1>11, <1>12, Zenon
    <2>5. Listed(z) = Listed(t) /\ z.nzombie = t.nzombie + 1 /\ z.async = t.async
      BY <1>11, <1>12, Zenon
    <2> QED
      BY <2>2, <2>3, <2>4, <2>5, Zenon DEF CheckedZombies
  <1>19. CASE /\ u \in {t1, t2} \/ (u = z /\ state # PSTOPPED)
              /\ "STARTED" \in job.flags /\ PRUNNING \notin states
    <2>1. Settled(new, job) /\ Settled(y.job[j], job)
      BY <1>8, <1>11, <1>13, <1>19, Zenon DEF SameProcs
    <2>2. Checked(t1, t, j) /\ Checked(t2, t, j)
      BY <1>8, <1>9, <1>10, <1>15, <2>1, Zenon
    <2>3. Checked(z, t, j)
      <3>1. z \in Table /\ z.njobs = t.njobs
        BY <1>11, <1>12, Zenon DEF Shrunk
      <3>2. y.job[j].procs = job.procs
        BY <1>8, <1>11, Zenon DEF SameProcs
      <3> QED
        BY <1>8, <1>11, <1>12, <1>15, <2>1, <3>1, <3>2, Zenon
    <2>4. CheckedZombies(u, t, j)
      <3> HIDE DEF u
      <3>1. CASE u \in {t1, t2}
        BY <1>17, <3>1, Zenon DEF CheckedZombies
      <3>2. CASE u = z /\ state # PSTOPPED
        BY <1>19, <1>18, <3>2, Zenon
      <3> QED
        BY <1>19, <3>1, <3>2, Zenon
    <2> QED
      BY <1>19, <2>2, <2>3, <2>4, Zenon
  <1>20. CASE /\ u \in {RemoveJobs(t1, {j}), RemoveJobs(t2, {j})}
              /\ "WAITING" \notin job.flags
              /\ "KNOWN" \in job.flags => monitor /\ env.notify
    <2>1. Checked(u, t, j)
      BY <1>9, <1>10, <1>16, <1>20, Zenon
    <2>2. CheckedZombies(u, t, j)
      <3> HIDE DEF u
      <3> QED
        BY <1>9, <1>10, <1>20, <1>17, Zenon DEF CheckedZombies
    <2> QED
      BY <2>1, <2>2, Zenon
  <1> QED
    BY <1>4, <1>14, <1>19, <1>20, Zenon

\* The job with one of its processes in state s.
ProcChanged(new, old, n, s) ==
    /\ new.flags = old.flags /\ new.state = old.state /\ new.status = old.status
    /\ new.procs \in Seq(Proc) /\ Len(new.procs) = Len(old.procs)
    /\ \A i \in DOMAIN old.procs :
          /\ new.procs[i].pid = old.procs[i].pid
          /\ new.procs[i].state = IF i = n THEN s ELSE old.procs[i].state

\* u is t with process n of job j, whose pid this is, in state s.
Updated(u, t, j, n, pid, s) ==
    /\ n \in DOMAIN t.job[j].procs /\ t.job[j].procs[n].pid = pid
    /\ u \in Table /\ Listed(u) = Listed(t) /\ u.njobs = t.njobs
    /\ u.last = t.last /\ u.async = t.async /\ u.nzombie = t.nzombie
    /\ \A i \in JobIds \ {j} : u.job[i] = t.job[i]
    /\ ProcChanged(u.job[j], t.job[j], n, s)

\* The first of some jobs of the list is one of them.
LEMMA FirstListed ==
    ASSUME NEW t \in Table, NEW S, S \subseteq DOMAIN t.list, S # {}
    PROVE  \E i \in S : First(t, S) = t.list[i] /\ First(t, S) \in Listed(t)
  <1> DEFINE i == CHOOSE i \in S : \A k \in S : i <= k
  <1>1. S \subseteq Nat
    <2>1. t.list \in Seq(JobIds)
      BY Zenon DEF Table
    <2>2. DOMAIN t.list \subseteq Nat
      BY <2>1
    <2> QED
      BY <2>2, Zenon
  <1>2. i \in S
    BY <1>1, FirstIndex, Zenon
  <1>3. First(t, S) = t.list[i]
    BY Zenon DEF First
  <1> HIDE DEF i
  <1> QED
    BY <1>2, <1>3, Zenon DEF Listed

(* The loop of j_sigchld() changes the state of one process of one job of  *)
(* the list, and checks that job.                                          *)
LEMMA ReportedFacts ==
    ASSUME NEW t \in Table, NEW pid \in Pids, NEW s \in 0..3, WithPid(t, pid) # {}, Pointers(t)
    PROVE  \E j \in Listed(t) : \E n, x :
              /\ Updated(x, t, j, n, pid, s)
              /\ Reported(t, pid, s) = CheckJob(x, j) /\ Checked(Reported(t, pid, s), x, j)
              /\ Pointers(x) /\ x.job[j].procs # <<>>
  <1> DEFINE j == First(t, WithPid(t, pid))
             job == t.job[j]
             procs == job.procs
             hits == {i \in DOMAIN procs : procs[i].pid = pid}
             n == CHOOSE i \in hits : \A k \in hits : i <= k
             np == [procs EXCEPT ![n].state = s]
             new == [job EXCEPT !.procs = np]
             x == WithJob(t, j, new)
  <1>1. j \in Listed(t) /\ pid \in PidsOf(job)
    <2>1. WithPid(t, pid) \subseteq DOMAIN t.list
      BY Zenon DEF WithPid
    <2>2. PICK i \in WithPid(t, pid) : j = t.list[i] /\ j \in Listed(t)
      BY <2>1, FirstListed, Zenon
    <2> HIDE DEF j
    <2> QED
      BY <2>2, Zenon DEF WithPid
  <1>2. j \in JobIds
    BY <1>1, ListedJobs, Zenon
  <1>3. t.job \in [JobIds -> Job] /\ job \in Job
    BY <1>2, Zenon DEF Table
  <1>4. procs \in Seq(Proc)
    BY <1>3, Zenon DEF Job
  <1>5. Reported(t, pid, s) = CheckJob([t EXCEPT !.job[j].procs[n].state = s], j)
    BY Zenon DEF Reported
  <1>6. [t EXCEPT !.job[j].procs[n].state = s] = x
    <2> HIDE DEF j, n
    <2> QED
      BY Zenon DEF WithJob
  <1>7. n \in hits
    <2>1. hits # {}
      BY <1>1, Zenon DEF PidsOf
    <2>2. hits \subseteq Nat
      <3> HIDE DEF job
      <3>1. DOMAIN procs \subseteq Nat
        BY <1>4
      <3> QED
        BY <3>1, Zenon
    <2> HIDE DEF hits
    <2> QED
      BY <2>1, <2>2, FirstIndex, Zenon
  <1> HIDE DEF j, n
  <1>8. n \in DOMAIN procs /\ procs[n].pid = pid
    BY <1>7, Zenon
  <1>9. /\ np \in Seq(Proc) /\ Len(np) = Len(procs)
        /\ \A i \in DOMAIN procs : /\ np[i].pid = procs[i].pid
                                   /\ np[i].state = IF i = n THEN s ELSE procs[i].state
    <2> HIDE DEF job, hits
    <2>1. procs[n] \in Proc
      BY <1>4, <1>8
    <2> DEFINE r == [procs[n] EXCEPT !.state = s]
    <2>2. r \in Proc /\ r.pid = procs[n].pid /\ r.state = s
      BY <2>1, Zenon DEF Proc
    <2>3. np = [procs EXCEPT ![n] = r]
      BY Zenon
    <2> HIDE DEF np, r, procs
    <2>4. np \in Seq(Proc) /\ Len(np) = Len(procs)
      BY <1>4, <1>8, <2>2, <2>3
    <2>5. \A i \in DOMAIN procs : np[i] = IF i = n THEN r ELSE procs[i]
      BY <2>3, Zenon
    <2> QED
      BY <2>2, <2>4, <2>5, Zenon
  <1> HIDE DEF np
  <1>10. /\ new \in Job /\ new.flags = job.flags /\ new.state = job.state
         /\ new.status = job.status /\ new.procs = np
    <2> HIDE DEF job
    <2> QED
      BY <1>3, <1>9, Zenon DEF Job
  <1> HIDE DEF new
  <1>11. /\ x \in Table /\ Listed(x) = Listed(t) /\ x.njobs = t.njobs
         /\ x.last = t.last /\ x.async = t.async /\ x.nzombie = t.nzombie /\ x.job[j] = new
         /\ \A i \in JobIds \ {j} : x.job[i] = t.job[i]
    BY <1>2, <1>10, ChangedJob
  <1> HIDE DEF x
  <1>12. ProcChanged(x.job[j], t.job[j], n, s)
    BY <1>9, <1>10, <1>11, Zenon DEF ProcChanged
  <1>13. Updated(x, t, j, n, pid, s)
    BY <1>8, <1>11, <1>12, Zenon DEF Updated
  <1>14. x.job[j].procs # <<>> /\ j \in Listed(x)
    <2>1. Len(procs) # 0
      <3> HIDE DEF job
      <3> QED
        BY <1>4, <1>8
    <2>2. Len(np) # 0
      BY <1>9, <2>1, Zenon
    <2>3. np # <<>>
      BY <2>2
    <2> QED
      BY <1>1, <1>10, <1>11, <2>3, Zenon
  <1>15. Pointers(x)
    BY <1>11, Zenon DEF Pointers
  <1>16. Checked(CheckJob(x, j), x, j)
    BY <1>11, <1>14, <1>15, CheckJobFacts, Zenon
  <1> QED
    BY <1>1, <1>5, <1>6, <1>13, <1>14, <1>15, <1>16, Zenon
-----------------------------------------------------------------------------
(* Children and circumstances. *)

\* The same children as before, whatever each is doing.
KernLike(l, k) ==
    /\ l \in [Pids -> Kern]
    /\ \A p \in Pids : l[p].job = k[p].job /\ (l[p].st = "free" <=> k[p].st = "free")

\* One child does something.
LEMMA OneChild ==
    ASSUME NEW k \in [Pids -> Kern], NEW p \in Pids, NEW r \in Kern,
           k[p].st # "free", r.st # "free", r.job = k[p].job
    PROVE  KernLike([k EXCEPT ![p] = r], k)
  <1> DEFINE l == [k EXCEPT ![p] = r]
  <1>1. l \in [Pids -> Kern] /\ \A q \in Pids : l[q] = IF q = p THEN r ELSE k[q]
    OBVIOUS
  <1> HIDE DEF l
  <1>2. KernLike(l, k)
    BY <1>1, Zenon DEF KernLike
  <1> QED
    BY <1>2 DEF l

\* Children are continued or killed.
LEMMA ManyChildren ==
    ASSUME NEW k \in [Pids -> Kern], NEW S, \A p \in S \cap Pids : k[p].st # "free"
    PROVE  KernLike(Cont(k, S), k) /\ KernLike(Kill(k, S), k)
  <1> DEFINE c == Cont(k, S)
             d == Kill(k, S)
  <1>1. ASSUME NEW p \in Pids
        PROVE  /\ c[p] \in Kern /\ c[p].job = k[p].job
               /\ c[p].st = "free" <=> k[p].st = "free"
    <2> DEFINE r == [k[p] EXCEPT !.st = "run", !.new = FALSE]
    <2>1. k[p] \in Kern
      BY Zenon
    <2>2. r \in Kern /\ r.job = k[p].job /\ r.st = "run"
      BY <2>1, Zenon DEF Kern
    <2>3. c[p] = IF p \in S /\ k[p].st = "stop" THEN r ELSE k[p]
      BY Zenon DEF Cont
    <2> HIDE DEF r, c
    <2>4. CASE p \in S /\ k[p].st = "stop"
      BY <2>2, <2>3, <2>4
    <2>5. CASE ~(p \in S /\ k[p].st = "stop")
      BY <2>1, <2>3, <2>5, Zenon
    <2> QED
      BY <2>4, <2>5, Zenon
  <1>2. ASSUME NEW p \in Pids
        PROVE  /\ d[p] \in Kern /\ d[p].job = k[p].job
               /\ d[p].st = "free" <=> k[p].st = "free"
    <2> DEFINE r == [k[p] EXCEPT !.st = "dead", !.sig = TRUE]
    <2>1. k[p] \in Kern
      BY Zenon
    <2>2. r \in Kern /\ r.job = k[p].job /\ r.st = "dead"
      BY <2>1, Zenon DEF Kern
    <2>3. d[p] = IF p \in S THEN r ELSE k[p]
      BY Zenon DEF Kill
    <2> HIDE DEF r, d
    <2>4. CASE p \in S
      BY <2>2, <2>3, <2>4
    <2>5. CASE ~(p \in S)
      BY <2>1, <2>3, <2>5, Zenon
    <2> QED
      BY <2>4, <2>5, Zenon
  <1>3. /\ \E f : c = [p \in Pids |-> f[p]]
        /\ \E f : d = [p \in Pids |-> f[p]]
    <2>1. c = [p \in Pids |-> c[p]]
      BY Zenon DEF Cont
    <2>2. d = [p \in Pids |-> d[p]]
      BY Zenon DEF Kill
    <2> QED
      BY <2>1, <2>2, Zenon
  <1> HIDE DEF c, d
  <1>4. c \in [Pids -> Kern] /\ d \in [Pids -> Kern]
    BY <1>1, <1>2, <1>3
  <1>5. KernLike(c, k) /\ KernLike(d, k)
    BY <1>1, <1>2, <1>4, Zenon DEF KernLike
  <1> QED
    BY <1>5 DEF c, d

\* A child of its own accord keeps its pid and its job; it does not touch the table.
LEMMA ChildKern ==
    ASSUME kern \in [Pids -> Kern], Child
    PROVE  /\ KernLike(kern', kern)
           /\ UNCHANGED <<monitor, tab, held_sigchld, main, handler>>
           /\ \A p \in Pids : kern'[p].st = "dead" => kern[p].st = "dead" \/ chld'
           /\ chld => chld'
           /\ chld' \in {chld, TRUE}
  <1>1. PICK p \in Pids : Exit(p, TRUE) \/ Exit(p, FALSE) \/ Stop(p) \/ Continue(p)
    BY Zenon DEF Child
  <1>2. kern[p] \in Kern
    BY Zenon
  <1>3. ASSUME NEW sig \in BOOLEAN, Exit(p, sig)
        PROVE  KernLike(kern', kern)
    <2> DEFINE r == [kern[p] EXCEPT !.st = "dead", !.sig = sig]
    <2>1. r \in Kern /\ r.st = "dead" /\ r.job = kern[p].job
      BY <1>2, Zenon DEF Kern
    <2>2. kern' = [kern EXCEPT ![p] = r]
      BY <1>3, Zenon DEF Exit
    <2>3. kern[p].st # "free"
      BY <1>3 DEF Exit
    <2> HIDE DEF r
    <2>4. r.st # "free"
      BY <2>1
    <2> QED
      BY <2>1, <2>2, <2>3, <2>4, OneChild, Zenon
  <1>4. ASSUME Stop(p)
        PROVE  KernLike(kern', kern)
    <2> DEFINE r == [kern[p] EXCEPT !.st = "stop", !.new = TRUE]
    <2>1. r \in Kern /\ r.st = "stop" /\ r.job = kern[p].job
      BY <1>2, Zenon DEF Kern
    <2>2. kern' = [kern EXCEPT ![p] = r]
      BY <1>4, Zenon DEF Stop
    <2>3. kern[p].st # "free"
      BY <1>4 DEF Stop
    <2> HIDE DEF r
    <2>4. r.st # "free"
      BY <2>1
    <2> QED
      BY <2>1, <2>2, <2>3, <2>4, OneChild, Zenon
  <1>5. ASSUME Continue(p)
        PROVE  /\ KernLike(kern', kern)
               /\ \A q \in Pids : kern'[q].st = "dead" => kern[q].st = "dead"
    <2>1. kern' = Cont(kern, {p}) /\ kern[p].st # "free"
      BY <1>5 DEF Continue
    <2>2. KernLike(kern', kern)
      BY <2>1, ManyChildren, Zenon
    <2>3. ASSUME NEW q \in Pids, kern'[q].st = "dead"
          PROVE  kern[q].st = "dead"
      <3> DEFINE r == [kern[q] EXCEPT !.st = "run", !.new = FALSE]
      <3>1. kern[q] \in Kern
        BY Zenon
      <3>2. r.st = "run"
        BY <3>1, Zenon DEF Kern
      <3>3. kern'[q] = r \/ kern'[q] = kern[q]
        BY <2>1, Zenon DEF Cont
      <3> HIDE DEF r
      <3> QED
        BY <2>3, <3>2, <3>3
    <2> QED
      BY <2>2, <2>3, Zenon
  <1>6. CASE Exit(p, TRUE) \/ Exit(p, FALSE)
    <2>1. KernLike(kern', kern)
      BY <1>3, <1>6, Zenon
    <2> QED
      BY <1>6, <2>1, Zenon DEF Exit
  <1>7. CASE Stop(p)
    <2>1. KernLike(kern', kern)
      BY <1>4, <1>7, Zenon
    <2> QED
      BY <1>7, <2>1, Zenon DEF Stop
  <1>8. CASE Continue(p)
    <2>1. /\ KernLike(kern', kern)
          /\ \A q \in Pids : kern'[q].st = "dead" => kern[q].st = "dead"
      BY <1>5, <1>8, Zenon
    <2> QED
      BY <1>8, <2>1, Zenon DEF Continue
  <1> QED
    BY <1>1, <1>6, <1>7, <1>8, Zenon

(* The circumstances keep their type, and reuse its value; only bg frees   *)
(* async_job.                                                              *)
LEMMA EnvStep ==
    ASSUME env \in Env, [Next]_vars
    PROVE  /\ env' \in Env /\ env'.reuse = env.reuse
           /\ env'.freed = env.freed \/ \E j \in JobIds, bg \in BOOLEAN : Resume(j, bg)
  <1>1. CASE UNCHANGED env
    BY <1>1, Zenon
  <1>2. CASE env' = [env EXCEPT !.stops = @ - 1] /\ env.stops > 0
    <2> DEFINE n == env.stops - 1
    <2>1. n \in Nat
      <3>1. env.stops \in Nat
        BY Zenon DEF Env
      <3> QED
        BY <1>2, <3>1
    <2>2. env' = [env EXCEPT !.stops = n]
      BY <1>2, Zenon
    <2> HIDE DEF n
    <2> QED
      BY <2>1, <2>2, Zenon DEF Env
  <1>3. ASSUME NEW b \in BOOLEAN, env' = [env EXCEPT !.forkfails = @ - 1, !.failed = b],
               env.forkfails > 0
        PROVE  env' \in Env /\ env'.reuse = env.reuse /\ env'.freed = env.freed
    <2> DEFINE n == env.forkfails - 1
    <2>1. n \in Nat
      <3>1. env.forkfails \in Nat
        BY Zenon DEF Env
      <3> QED
        BY <1>3, <3>1
    <2>2. env' = [env EXCEPT !.forkfails = n, !.failed = b]
      BY <1>3, Zenon
    <2> HIDE DEF n
    <2> QED
      BY <2>1, <2>2, Zenon DEF Env
  <1>4. CASE env' = [env EXCEPT !.pipefails = @ - 1, !.failed = TRUE] /\ env.pipefails > 0
    <2> DEFINE n == env.pipefails - 1
    <2>1. n \in Nat
      <3>1. env.pipefails \in Nat
        BY Zenon DEF Env
      <3> QED
        BY <1>4, <3>1
    <2>2. env' = [env EXCEPT !.pipefails = n, !.failed = TRUE]
      BY <1>4, Zenon
    <2> HIDE DEF n
    <2> QED
      BY <2>1, <2>2, Zenon DEF Env
  <1>5. CASE env' = [env EXCEPT !.traps = @ - 1] /\ env.traps > 0
    <2> DEFINE n == env.traps - 1
    <2>1. n \in Nat
      <3>1. env.traps \in Nat
        BY Zenon DEF Env
      <3> QED
        BY <1>5, <3>1
    <2>2. env' = [env EXCEPT !.traps = n]
      BY <1>5, Zenon
    <2> HIDE DEF n
    <2> QED
      BY <2>1, <2>2, Zenon DEF Env
  <1>6. CASE env' = [env EXCEPT !.changes = @ - 1] /\ env.changes > 0
    <2> DEFINE n == env.changes - 1
    <2>1. n \in Nat
      <3>1. env.changes \in Nat
        BY Zenon DEF Env
      <3> QED
        BY <1>6, <3>1
    <2>2. env' = [env EXCEPT !.changes = n]
      BY <1>6, Zenon
    <2> HIDE DEF n
    <2> QED
      BY <2>1, <2>2, Zenon DEF Env
  <1>7. CASE SomeFork
    <2> DEFINE b == env.failed \/ (held_sigchld /\ ~chld')
    <2>1. b \in BOOLEAN
      OBVIOUS
    <2>2. env' = [env EXCEPT !.forkfails = @ - 1, !.failed = b] /\ env.forkfails > 0
      BY <1>7, Zenon DEF SomeFork, ForkFails
    <2> HIDE DEF b
    <2> QED
      BY <1>3, <2>1, <2>2, Zenon
  <1>8. CASE Child
    BY <1>1, <1>2, <1>8, Zenon DEF Child, Exit, Stop, Continue
  <1>9. CASE Handler
    BY <1>1, <1>9, Zenon DEF Handler, Sigchld, SigchldReturns, Waitpid
  <1>10. CASE Main
    BY <1>1, <1>10, Zenon DEF Main, Sleep, Woke, WaitDone, WaitLast, WaitAny
  <1>11. CASE \E kind \in Kinds, pid \in FreePids, pipeo, recycled \in BOOLEAN :
                   Exchild(kind, pid, pipeo, recycled)
    <2>1. PICK kind \in Kinds, pid \in FreePids, pipeo, recycled \in BOOLEAN :
               Exchild(kind, pid, pipeo, recycled)
      BY <1>11, ZenonT(60)
    <2>2. UNCHANGED env
      BY <2>1 DEF Exchild
    <2> QED
      BY <1>1, <2>2, Zenon
  <1>12. CASE PipeFails \/ StartLast \/ AbandonSub \/ WaitAny \/ Notify \/ Async
              \/ Change \/ Trapsig \/ Runtraps
    BY <1>1, <1>4, <1>5, <1>6, <1>12, Zenon
       DEF PipeFails, StartLast, AbandonSub, WaitAny, Notify, Async, Change, Trapsig, Runtraps
  <1>13. CASE \E p \in Pids : WaitPid(p)
    BY <1>1, <1>13, ZenonT(60) DEF WaitPid
  <1>14. CASE \E j \in JobIds, bg \in BOOLEAN : Resume(j, bg)
    <2>1. PICK j \in JobIds, bg \in BOOLEAN : Resume(j, bg)
      BY <1>14, Zenon
    <2> DEFINE f == IF tab.async = j /\ UnknownZombie(tab.job[j]) THEN j ELSE env.freed
    <2>2. env' = [env EXCEPT !.freed = f] \/ UNCHANGED env
      BY <2>1, ZenonT(60) DEF Resume
    <2>3. f \in 0..MaxJobs
      <3>1. j \in 0..MaxJobs
        BY JobsAssumption DEF JobIds
      <3>2. env.freed \in 0..MaxJobs
        BY Zenon DEF Env
      <3> QED
        BY <3>1, <3>2, Zenon
    <2> HIDE DEF f
    <2>4. env' \in Env /\ env'.reuse = env.reuse
      BY <2>2, <2>3, Zenon DEF Env
    <2> QED
      BY <1>14, <2>4, Zenon
  <1>15. CASE \E S \in SUBSET Listed(tab), z \in BOOLEAN : Jobs(S, z)
    BY <1>1, <1>15, Zenon DEF Jobs
  <1>16. CASE UNCHANGED vars
    BY <1>1, <1>16, Zenon DEF vars
  <1>17. Command => \/ \E kind \in Kinds, pid \in FreePids, pipeo, recycled \in BOOLEAN :
                          Exchild(kind, pid, pipeo, recycled)
                    \/ SomeFork
                    \/ PipeFails \/ StartLast \/ AbandonSub \/ WaitAny \/ Notify \/ Async
                    \/ Change \/ Trapsig \/ Runtraps
                    \/ (\E p \in Pids : WaitPid(p))
                    \/ (\E j \in JobIds, bg \in BOOLEAN : Resume(j, bg))
                    \/ \E S \in SUBSET Listed(tab), z \in BOOLEAN : Jobs(S, z)
    BY Zenon DEF Command, SomeFork
  <1> QED
    BY <1>7, <1>8, <1>9, <1>10, <1>11, <1>12, <1>13, <1>15, <1>16, <1>17, <1>14, Zenon DEF Next
-----------------------------------------------------------------------------
(* Where the shell is, and what its pointers point to. *)

\* A place where the shell does not hold on to a job.
LEMMA QuietPlace ==
    ASSUME main'.at \in {"idle", "any", "gone"}, Pointers(tab')
    PROVE  PlaceInv'
  <1>1. main'.at \notin {"check", "sleep", "woke", "reading", "pipe"}
    OBVIOUS
  <1> QED
    BY <1>1, Zenon DEF PlaceInv, Pointers

\* j_waitj() marks the job it waits for.
LEMMA WaitPlace ==
    ASSUME NEW t \in Table, NEW j \in Listed(t), NEW kind \in {"fg", "pid", "any"},
           Pointers(t), WaitJ(t, j, kind)
    PROVE  tab' \in Table /\ main' \in MainRec /\ PlaceInv' /\ Like(tab', t)
  <1>1. j \in JobIds
    BY ListedJobs, Zenon
  <1>2. tab' = SetFlags(t, j, {"WAITING"}) /\ main' = [at |-> "check", j |-> j, kind |-> kind]
    BY Zenon DEF WaitJ
  <1>3. {"WAITING"} \in SUBSET Flags
    BY DEF Flags
  <1>4. /\ tab' \in Table /\ Listed(tab') = Listed(t) /\ Like(tab', t)
        /\ tab'.last = t.last /\ tab'.async = t.async
        /\ tab'.job[j].flags = t.job[j].flags \cup {"WAITING"}
    BY <1>1, <1>2, <1>3, SetFlagsLike
  <1>5. main' \in MainRec /\ main'.at = "check" /\ main'.j = j
    <2>1. j \in 0..MaxJobs
      BY <1>1, JobsAssumption DEF JobIds
    <2>2. kind \in {"none", "pid", "any"} \cup Kinds
      BY DEF Kinds
    <2> QED
      BY <1>2, <2>1, <2>2, Zenon DEF MainRec, Places
  <1>6. PlaceInv'
    <2>1. main'.at \notin {"reading", "pipe"}
      BY <1>5
    <2>2. Pointers(tab')
      BY <1>4, Zenon DEF Pointers
    <2> QED
      BY <1>4, <1>5, <2>1, <2>2, Zenon DEF PlaceInv, Pointers
  <1> QED
    BY <1>4, <1>5, <1>6, Zenon

\* async_job, which a new job j may be if that had been freed.
AsyncStaged(u, t, j, first) ==
    u.async = t.async \/ (first /\ u.async = j /\ t.async \notin Listed(t) \cup {0})

(* u is t with a new process of job j, which is a new job if this is the   *)
(* first stage.                                                            *)
Staged(u, t, j, pid, first) ==
    /\ u \in Table /\ j \in JobIds /\ Listed(u) = Listed(t) \cup {j}
    /\ u.last = j /\ AsyncStaged(u, t, j, first) /\ u.nzombie = t.nzombie
    /\ IF first THEN j = t.njobs + 1 /\ u.njobs = j ELSE j \in Listed(t) /\ u.njobs = t.njobs
    /\ \A i \in JobIds \ {j} : u.job[i] = t.job[i]
    /\ "STARTED" \notin u.job[j].flags /\ "ZOMBIE" \notin u.job[j].flags
    /\ ~first => u.job[j].flags = t.job[j].flags
    /\ u.job[j].procs = Append(IF first THEN <<>> ELSE t.job[j].procs,
                               [pid |-> pid, state |-> PRUNNING])
    /\ u.job[j].state = IF first THEN PRUNNING ELSE t.job[j].state

\* exchild() has made the table u; with the last stage the job is started.
Launched(j, u, first, kind, pid) ==
    /\ Staged(u, tab, j, pid, first) /\ pid \in Pids
    /\ IF first THEN main.at = "idle" ELSE main.at = "pipe" /\ j = main.j
    /\ kern' = [kern EXCEPT ![pid] = [Free EXCEPT !.st = "run", !.job = j]]
    /\ ~handler /\ ~handler'
    /\ \/ /\ tab' = u /\ main' = [at |-> "pipe", j |-> j, kind |-> kind]
          /\ UNCHANGED <<held_sigchld, chld>>
       \/ /\ StartJob
          /\ \/ tab' = SetAsync(SetFlags(u, j, {"STARTED"}), j) /\ main' = Idle
             \/ WaitJ(SetFlags(u, j, {"STARTED"}), j, "fg")

\* What exchild() does.
LEMMA ExchildFacts ==
    ASSUME Typed, PlaceInv, NEW kind \in Kinds, NEW pid \in FreePids, NEW pipeo \in BOOLEAN,
           NEW recycled \in BOOLEAN, Exchild(kind, pid, pipeo, recycled)
    PROVE  \E j, u, first : Launched(j, u, first, kind, pid)
  <1> DEFINE first == main.at = "idle"
             j == IF first THEN tab.njobs + 1 ELSE tab.last
             flags == CASE kind = "sub" -> {"XXCOM"} [] kind = "bg" -> {}
                        [] kind = "fg" -> {"FG"}
             new == [NoJob EXCEPT !.flags = flags]
             async == IF recycled THEN j ELSE tab.async
             t0 == [tab EXCEPT !.njobs = j, !.last = j, !.async = async, !.job[j] = new]
             t1 == IF first THEN PutJob(t0, j, FALSE) ELSE tab
             control == monitor /\ kind # "sub"
             proc == [pid |-> pid, state |-> PRUNNING]
             t2 == [t1 EXCEPT !.job[j].procs = Append(@, proc),
                              !.job[j].pgrp = IF control /\ @ = 0 THEN pid ELSE @]
             t3 == SetFlags(t2, j, {"STARTED"})
  <1>1. /\ ~handler
        /\ \/ first /\ tab.njobs < env.jobs
           \/ main.at = "pipe" /\ main.kind = kind /\ Len(tab.job[j].procs) < env.stages
        /\ recycled => first /\ tab.async \notin Listed(tab) \cup {0}
        /\ kern' = [kern EXCEPT ![pid] = [Free EXCEPT !.st = "run", !.job = j]]
        /\ IF pipeo
           THEN /\ tab' = t2
                /\ main' = [at |-> "pipe", j |-> j, kind |-> kind]
                /\ UNCHANGED <<held_sigchld, chld>>
           ELSE /\ StartJob
                /\ \/ kind = "bg" /\ tab' = SetAsync(t3, j) /\ main' = Idle
                   \/ kind = "fg" /\ WaitJ(t3, j, "fg")
        /\ UNCHANGED handler
    BY ZenonT(60) DEF Exchild
  <1>2. tab \in Table /\ env \in Env /\ pid \in Pids
    BY Zenon DEF Typed, FreePids
  <1>3. (first /\ tab.njobs < env.jobs) \/ (~first /\ main.at = "pipe")
    BY <1>1
  <1>4. ~first => /\ j \in Listed(tab) /\ j = main.j
                  /\ "STARTED" \notin tab.job[j].flags /\ "ZOMBIE" \notin tab.job[j].flags
    BY <1>3, Zenon DEF PlaceInv
  <1>5. j \in JobIds /\ j \in 0..MaxJobs
    <2>1. CASE first
      <3>1. tab.njobs \in 0..MaxJobs
        BY <1>2, Zenon DEF Table
      <3>2. env.jobs \in 0..MaxJobs
        BY <1>2, Zenon DEF Env
      <3>3. tab.njobs < env.jobs
        BY <1>3, <2>1
      <3>4. j = tab.njobs + 1
        BY <2>1, Zenon
      <3> HIDE DEF j
      <3> QED
        BY <3>1, <3>2, <3>3, <3>4, JobsAssumption DEF JobIds
    <2>2. CASE ~first
      <3>1. j \in JobIds
        BY <1>2, <1>4, <2>2, ListedJobs, Zenon
      <3> HIDE DEF j
      <3> QED
        BY <3>1, JobsAssumption DEF JobIds
    <2> QED
      BY <2>1, <2>2, Zenon
  <1>6. /\ new \in Job /\ new.procs = <<>> /\ new.state = PRUNNING
        /\ new.flags = flags /\ "STARTED" \notin flags /\ "ZOMBIE" \notin flags
        /\ flags \in SUBSET Flags
    <2>1. "STARTED" \notin flags /\ "ZOMBIE" \notin flags /\ flags \in SUBSET Flags
      BY DEF Kinds, Flags
    <2> HIDE DEF flags
    <2>2. <<>> \in Seq(Proc)
      OBVIOUS
    <2>3. NoJob \in Job
      BY <2>2 DEF NoJob, Job, PRUNNING
    <2>4. NoJob.procs = <<>> /\ NoJob.state = PRUNNING
      BY Zenon DEF NoJob
    <2> QED
      BY <2>1, <2>3, <2>4, Zenon DEF Job
  <1>7. async \in 0..MaxJobs
    BY <1>2, <1>5, Zenon DEF Table
  <1>8. async = tab.async \/ (first /\ async = j /\ tab.async \notin Listed(tab) \cup {0})
    BY <1>1, Zenon
  <1> HIDE DEF flags, new, first, j, async
  <1>9. /\ t0 \in Table /\ Listed(t0) = Listed(tab) /\ t0.last = j /\ t0.async = async
        /\ t0.nzombie = tab.nzombie /\ t0.njobs = j /\ t0.job[j] = new
        /\ \A i \in JobIds \ {j} : t0.job[i] = tab.job[i]
    <2> DEFINE f == [tab.job EXCEPT ![j] = new]
    <2>1. tab.job \in [JobIds -> Job]
      BY <1>2, Zenon DEF Table
    <2>2. f \in [JobIds -> Job] /\ f[j] = new /\ \A i \in JobIds \ {j} : f[i] = tab.job[i]
      BY <1>5, <1>6, <2>1
    <2>3. t0 = [tab EXCEPT !.njobs = j, !.last = j, !.async = async, !.job = f]
      BY Zenon
    <2> HIDE DEF t0, f
    <2>4. /\ t0 \in Table /\ t0.list = tab.list /\ t0.last = j /\ t0.async = async
          /\ t0.njobs = j /\ t0.job = f /\ t0.nzombie = tab.nzombie
      BY <1>2, <1>5, <1>7, <2>2, <2>3, Zenon DEF Table
    <2>5. Listed(t0) = Listed(tab)
      BY <2>4, Zenon DEF Listed
    <2> QED
      BY <2>2, <2>4, <2>5, Zenon
  <1> HIDE DEF t0
  <1>10. /\ t1 \in Table /\ Listed(t1) = Listed(tab) \cup {j} /\ t1.last = j
        /\ AsyncStaged(t1, tab, j, first) /\ t1.njobs = (IF first THEN j ELSE tab.njobs)
        /\ t1.nzombie = tab.nzombie
        /\ t1.job[j] = (IF first THEN new ELSE tab.job[j])
        /\ \A i \in JobIds \ {j} : t1.job[i] = tab.job[i]
    <2>1. CASE first
      <3>1. t1 = PutJob(t0, j, FALSE)
        BY <2>1, Zenon
      <3> HIDE DEF t1
      <3>2. /\ t1 \in Table /\ Listed(t1) = Listed(t0) \cup {j} /\ t1.job = t0.job
            /\ t1.njobs = t0.njobs /\ t1.last = t0.last /\ t1.async = t0.async
            /\ t1.nzombie = t0.nzombie
        BY <1>5, <1>9, <3>1, PutJobFacts
      <3>3. AsyncStaged(t1, tab, j, first)
        BY <1>9, <1>8, <3>2, Zenon DEF AsyncStaged
      <3> QED
        BY <1>9, <2>1, <3>2, <3>3, Zenon
    <2>2. CASE ~first
      <3>1. t1 = tab
        BY <2>2, Zenon
      <3>2. tab.last = j
        BY <2>2, Zenon DEF j
      <3> HIDE DEF t1
      <3> QED
        BY <1>2, <1>4, <2>2, <3>1, <3>2, Zenon DEF AsyncStaged
    <2> QED
      BY <2>1, <2>2, Zenon
  <1> HIDE DEF t1
  <1> DEFINE old == t1.job[j]
             pgrp == IF control /\ old.pgrp = 0 THEN pid ELSE old.pgrp
             job == [old EXCEPT !.procs = Append(old.procs, proc), !.pgrp = pgrp]
  <1>11. t1.job \in [JobIds -> Job] /\ old \in Job
    BY <1>5, <1>10, Zenon DEF Table
  <1>12. t2 = WithJob(t1, j, job)
    <2>1. j \in DOMAIN t1.job
      BY <1>5, <1>11, Zenon
    <2> HIDE DEF control, proc
    <2> QED
      BY <2>1, Zenon DEF WithJob
  <1>13. /\ job \in Job /\ job.procs = Append(old.procs, proc) /\ job.flags = old.flags
         /\ job.state = old.state
    <2> HIDE DEF old
    <2>1. proc \in Proc
      BY <1>2 DEF Proc, PRUNNING
    <2>2. old.procs \in Seq(Proc) /\ old.pgrp \in Pids \cup {0}
      BY <1>11, Zenon DEF Job
    <2> HIDE DEF proc, control
    <2>3. Append(old.procs, proc) \in Seq(Proc)
      BY <2>1, <2>2
    <2>4. pgrp \in Pids \cup {0}
      BY <1>2, <2>2, Zenon
    <2> HIDE DEF pgrp
    <2> QED
      BY <1>11, <2>3, <2>4, Zenon DEF Job
  <1> HIDE DEF job, t2, proc, control
  <1>14. /\ t2 \in Table /\ Listed(t2) = Listed(t1) /\ t2.njobs = t1.njobs
         /\ t2.last = t1.last /\ t2.async = t1.async /\ t2.nzombie = t1.nzombie
         /\ t2.job[j] = job
         /\ \A i \in JobIds \ {j} : t2.job[i] = t1.job[i]
    BY <1>5, <1>10, <1>12, <1>13, ChangedJob
  <1>15. Staged(t2, tab, j, pid, first)
    <2>1. /\ t2 \in Table /\ j \in JobIds /\ Listed(t2) = Listed(tab) \cup {j}
          /\ t2.last = j /\ AsyncStaged(t2, tab, j, first) /\ t2.nzombie = tab.nzombie
          /\ \A i \in JobIds \ {j} : t2.job[i] = tab.job[i]
      BY <1>5, <1>10, <1>14, Zenon DEF AsyncStaged
    <2>2. IF first THEN j = tab.njobs + 1 /\ t2.njobs = j
          ELSE j \in Listed(tab) /\ t2.njobs = tab.njobs
      BY <1>4, <1>10, <1>14, Zenon DEF j
    <2>3. "STARTED" \notin t2.job[j].flags /\ "ZOMBIE" \notin t2.job[j].flags
      BY <1>4, <1>6, <1>10, <1>13, <1>14, Zenon
    <2>4. t2.job[j].procs = Append(IF first THEN <<>> ELSE tab.job[j].procs,
                                   [pid |-> pid, state |-> PRUNNING])
      <3>1. old.procs = IF first THEN <<>> ELSE tab.job[j].procs
        BY <1>6, <1>10, Zenon
      <3> QED
        BY <1>13, <1>14, <3>1, Zenon DEF proc
    <2>5. t2.job[j].state = IF first THEN PRUNNING ELSE tab.job[j].state
      BY <1>6, <1>10, <1>13, <1>14, Zenon
    <2>6. ~first => t2.job[j].flags = tab.job[j].flags
      BY <1>6, <1>10, <1>13, <1>14, Zenon
    <2> QED
      BY <2>1, <2>2, <2>3, <2>4, <2>5, <2>6, Zenon DEF Staged
  <1>16. IF first THEN main.at = "idle" ELSE main.at = "pipe" /\ j = main.j
    BY <1>3, <1>4, Zenon DEF first
  <1>17. \/ /\ tab' = t2 /\ main' = [at |-> "pipe", j |-> j, kind |-> kind]
            /\ UNCHANGED <<held_sigchld, chld>>
         \/ /\ StartJob
            /\ \/ tab' = SetAsync(SetFlags(t2, j, {"STARTED"}), j) /\ main' = Idle
               \/ WaitJ(SetFlags(t2, j, {"STARTED"}), j, "fg")
    BY <1>1, Zenon
  <1> HIDE DEF t3
  <1>18. Launched(j, t2, first, kind, pid)
    BY <1>1, <1>2, <1>15, <1>16, <1>17, Zenon DEF Launched
  <1> QED
    BY <1>18, Zenon

\* The shell finds its pointers as they should be, and no process or child has changed.
SafeStep ==
    /\ tab' \in Table /\ main' \in MainRec /\ PlaceInv'
    /\ Like(tab', tab) /\ KernLike(kern', kern) /\ AsyncKept(tab', tab)

\* One such change after the other; flags and places of a job do not matter.
LEMMA AsyncKeptFacts ==
    ASSUME NEW t, NEW u, NEW v
    PROVE  /\ AsyncKept(t, t)
           /\ AsyncKept(u, t) /\ AsyncKept(v, u) => AsyncKept(v, t)
           /\ Listed(u) = Listed(t) /\ u.async \in {0, t.async} => AsyncKept(u, t)
  BY Zenon DEF AsyncKept

\* The shell's record when it is idle, or has exited.
LEMMA QuietMain ==
    /\ Idle \in MainRec /\ Idle.at = "idle"
    /\ [Idle EXCEPT !.at = "gone"] \in MainRec /\ [Idle EXCEPT !.at = "gone"].at = "gone"
    /\ [at |-> "any", j |-> 0, kind |-> "any"] \in MainRec
    /\ [at |-> "any", j |-> 0, kind |-> "any"].at = "any"
  <1>1. 0 \in 0..MaxJobs
    BY JobsAssumption
  <1> QED
    BY <1>1, Zenon DEF Idle, MainRec, Places

\* Nothing of the table and the children has changed.
LEMMA NothingChanged ==
    ASSUME Typed, UNCHANGED <<tab, kern>>
    PROVE  /\ tab' \in Table /\ Like(tab', tab) /\ KernLike(kern', kern)
           /\ AsyncKept(tab', tab)
  <1>1. AsyncKept(tab', tab)
    BY Zenon DEF AsyncKept
  <1> QED
    BY <1>1, LikeItself, Zenon DEF Typed, KernLike

\* A new place of the shell with the same job.
LEMMA MovedPlace ==
    ASSUME Typed, PlaceInv, NEW a \in Places, UNCHANGED tab,
           main' = [main EXCEPT !.at = a],
           \/ {main.at, a} \subseteq {"check", "sleep", "woke"}
           \/ a \in {"idle", "any", "gone"}
    PROVE  main' \in MainRec /\ PlaceInv'
  <1>1. main \in MainRec
    BY Zenon DEF Typed
  <1>2. main' \in MainRec /\ main'.at = a /\ main'.j = main.j
    BY <1>1, Zenon DEF MainRec
  <1>3. Pointers(tab')
    BY Zenon DEF PlaceInv, Pointers
  <1>4. CASE a \in {"idle", "any", "gone"}
    BY <1>2, <1>3, <1>4, QuietPlace, Zenon
  <1>5. CASE {main.at, a} \subseteq {"check", "sleep", "woke"}
    <2>1. main'.at \notin {"reading", "pipe"}
      BY <1>2, <1>5
    <2>2. main.at \in {"check", "sleep", "woke", "reading"}
      BY <1>5, Zenon
    <2> QED
      BY <1>2, <1>3, <2>1, <2>2, Zenon DEF PlaceInv, Pointers
  <1> QED
    BY <1>2, <1>4, <1>5, Zenon

\* The shell wakes up if it sleeps; a handler runs only while no pipeline is being built.
LEMMA WakeUpPlace ==
    ASSUME Typed, PlaceInv, UNCHANGED tab, WakeUp \/ UNCHANGED main,
           main.at = "pipe" => ~handler'
    PROVE  main' \in MainRec /\ PlaceInv'
  <1>1. main \in MainRec
    BY Zenon DEF Typed
  <1>2. CASE UNCHANGED main
    BY <1>1, <1>2, Zenon DEF PlaceInv
  <1>3. CASE main' = [main EXCEPT !.at = "woke"] /\ main.at = "sleep"
    <2>1. "woke" \in Places
      BY Zenon DEF Places
    <2> QED
      BY <1>3, <2>1, MovedPlace, Zenon
  <1> QED
    BY <1>2, <1>3, Zenon DEF WakeUp

\* Children and the handler, up to its loop and after it.
LEMMA ChildSafe ==
    ASSUME Typed, PlaceInv, Child
    PROVE  SafeStep
  <1>1. kern \in [Pids -> Kern]
    BY Zenon DEF Typed
  <1>2. KernLike(kern', kern) /\ UNCHANGED <<monitor, tab, held_sigchld, main, handler>>
    BY <1>1, ChildKern, Zenon
  <1>3. /\ PlaceInv' /\ tab' \in Table /\ main' \in MainRec /\ Like(tab', tab)
        /\ AsyncKept(tab', tab)
    BY <1>2, LikeItself, Zenon DEF PlaceInv, Typed, AsyncKept
  <1> QED
    BY <1>2, <1>3, Zenon DEF SafeStep

\* Entering and leaving j_sigchld() moves no pointer and changes no job.
LEMMA HandlerSafe ==
    ASSUME Typed, PlaceInv, Sigchld \/ SigchldReturns
    PROVE  SafeStep
  <1>1. UNCHANGED <<tab, kern>> /\ (WakeUp \/ UNCHANGED main)
    BY Zenon DEF Sigchld, SigchldReturns
  <1>2. main.at = "pipe" => ~handler'
    <2>1. CASE SigchldReturns
      BY <2>1, Zenon DEF SigchldReturns
    <2>2. CASE Sigchld
      <3> SUFFICES ASSUME main.at = "pipe" PROVE ~handler'
        OBVIOUS
      <3>1. main.j \in Listed(tab) /\ "STARTED" \notin tab.job[main.j].flags
        BY Zenon DEF PlaceInv
      <3>2. PartlyStarted(tab)
        BY <3>1, Zenon DEF PartlyStarted
      <3> QED
        BY <2>2, <3>2, Zenon DEF Sigchld
    <2> QED
      BY <2>1, <2>2, Zenon
  <1>3. main' \in MainRec /\ PlaceInv'
    BY <1>1, <1>2, WakeUpPlace, Zenon
  <1>4. tab' \in Table /\ Like(tab', tab) /\ KernLike(kern', kern) /\ AsyncKept(tab', tab)
    BY <1>1, NothingChanged, Zenon
  <1> QED
    BY <1>3, <1>4, Zenon DEF SafeStep

\* The commands that leave the table alone.
LEMMA QuietSafe ==
    ASSUME Typed, PlaceInv,
           \/ Sleep \/ PipeFails \/ AbandonSub \/ Change \/ Trapsig \/ Runtraps
           \/ UNCHANGED vars
    PROVE  SafeStep
  <1>1. UNCHANGED <<tab, kern, handler>>
    BY Zenon DEF Sleep, PipeFails, AbandonSub, Change, Trapsig, Runtraps, vars
  <1>2. tab' \in Table /\ Like(tab', tab) /\ KernLike(kern', kern) /\ AsyncKept(tab', tab)
    BY <1>1, NothingChanged, Zenon
  <1>3. Pointers(tab')
    BY <1>1, Zenon DEF PlaceInv, Pointers
  <1>4. main.at = "pipe" => ~handler'
    BY <1>1, Zenon DEF PlaceInv
  <1>5. CASE Sleep
    <2>1. main' = [main EXCEPT !.at = "sleep"] /\ main.at = "check"
      BY <1>5, Zenon DEF Sleep
    <2>2. "sleep" \in Places
      BY Zenon DEF Places
    <2>3. main' \in MainRec /\ PlaceInv'
      BY <1>1, <2>1, <2>2, MovedPlace, Zenon
    <2> QED
      BY <1>2, <2>3, Zenon DEF SafeStep
  <1>6. CASE PipeFails
    <2>1. main' = Idle \/ main' = [Idle EXCEPT !.at = "gone"]
      BY <1>6, Zenon DEF PipeFails, Errorf
    <2>2. main' \in MainRec /\ PlaceInv'
      BY <1>3, <2>1, QuietMain, QuietPlace, Zenon
    <2> QED
      BY <1>2, <2>2, Zenon DEF SafeStep
  <1>7. CASE AbandonSub
    <2>1. main' = Idle
      BY <1>7, Zenon DEF AbandonSub
    <2>2. main' \in MainRec /\ PlaceInv'
      BY <1>3, <2>1, QuietMain, QuietPlace, Zenon
    <2> QED
      BY <1>2, <2>2, Zenon DEF SafeStep
  <1>8. CASE Change \/ Trapsig \/ Runtraps \/ UNCHANGED vars
    <2>1. WakeUp \/ UNCHANGED main
      BY <1>8, Zenon DEF Change, Trapsig, Runtraps, vars
    <2>2. main' \in MainRec /\ PlaceInv'
      BY <1>1, <1>4, <2>1, WakeUpPlace, Zenon
    <2> QED
      BY <1>2, <2>2, Zenon DEF SafeStep
  <1> QED
    BY <1>5, <1>6, <1>7, <1>8, Zenon

\* wait in its forms: whatever it waits for is in the list.
LEMMA WaitSafe ==
    ASSUME Typed, PlaceInv, WaitLast \/ WaitAny \/ \E p \in Pids : WaitPid(p)
    PROVE  SafeStep /\ SameZombies(tab', tab)
  <1>1. UNCHANGED kern
    BY Zenon DEF WaitLast, WaitAny, WaitPid
  <1>2. tab \in Table /\ Pointers(tab) /\ kern \in [Pids -> Kern]
    BY Zenon DEF Typed, PlaceInv, Pointers
  <1>3. KernLike(kern', kern)
    BY <1>1, <1>2, Zenon DEF KernLike
  <1>4. ASSUME NEW j \in Listed(tab), NEW kind \in {"fg", "pid", "any"}, WaitJ(tab, j, kind)
        PROVE  SafeStep /\ SameZombies(tab', tab)
    <2>1. {"WAITING"} \in SUBSET (Flags \ {"ZOMBIE"})
      BY DEF Flags
    <2>2. j \in JobIds
      BY <1>2, ListedJobs, Zenon
    <2>3. SameZombies(tab', tab)
      BY <1>2, <1>4, <2>1, <2>2, FlagsSameZombies, Zenon DEF WaitJ
    <2>4. AsyncKept(tab', tab)
      BY <2>3, AsyncKeptFacts, Zenon DEF SameZombies
    <2> QED
      BY <1>2, <1>3, <1>4, <2>3, <2>4, WaitPlace, Zenon DEF SafeStep
  <1>5. ASSUME main' = Idle, UNCHANGED tab
        PROVE  SafeStep /\ SameZombies(tab', tab)
    <2>1. Pointers(tab')
      BY <1>2, <1>5, Zenon
    <2>2. main' \in MainRec /\ PlaceInv'
      BY <1>5, <2>1, QuietMain, QuietPlace, Zenon
    <2>3. tab' \in Table /\ Like(tab', tab)
      BY <1>2, <1>5, LikeItself, Zenon
    <2>4. SameZombies(tab', tab)
      BY <1>5, Zenon DEF SameZombies
    <2>5. AsyncKept(tab', tab)
      BY <2>4, AsyncKeptFacts, Zenon DEF SameZombies
    <2> QED
      BY <1>3, <2>2, <2>3, <2>4, <2>5, Zenon DEF SafeStep
  <1>6. CASE WaitLast
    <2>1. main.at = "reading"
      BY <1>6, Zenon DEF WaitLast
    <2>2. tab.last \in Listed(tab)
      BY <2>1, Zenon DEF PlaceInv
    <2>3. (main' = Idle /\ UNCHANGED tab) \/ WaitJ(tab, tab.last, "fg")
      BY <1>6, Zenon DEF WaitLast
    <2> QED
      BY <1>4, <1>5, <2>2, <2>3, Zenon
  <1>7. CASE WaitAny
    <2> DEFINE running == {i \in DOMAIN tab.list : tab.job[tab.list[i]].state = PRUNNING}
    <2>1. IF running # {} THEN WaitJ(tab, First(tab, running), "any")
          ELSE main.at = "any" /\ main' = Idle /\ UNCHANGED tab
      BY <1>7, Zenon DEF WaitAny
    <2>2. running \subseteq DOMAIN tab.list
      BY Zenon
    <2> HIDE DEF running
    <2>3. running # {} => First(tab, running) \in Listed(tab)
      BY <1>2, <2>2, FirstListed, Zenon
    <2> QED
      BY <1>4, <1>5, <2>1, <2>3, Zenon
  <1>8. CASE \E p \in Pids : WaitPid(p)
    <2>1. PICK p \in Pids : WaitPid(p)
      BY <1>8, Zenon
    <2>2. PICK j \in Lookup(tab, p) : WaitJ(tab, j, "pid")
      BY <2>1, Zenon DEF WaitPid
    <2> DEFINE started == {i \in DOMAIN tab.list : "STARTED" \in tab.job[tab.list[i]].flags}
               byPid == {i \in started : LastProc(tab.job[tab.list[i]]).pid = p}
               byPgrp == {i \in DOMAIN tab.list : tab.job[tab.list[i]].pgrp = p}
    <2>3. Lookup(tab, p) = IF byPid # {} THEN {First(tab, byPid)}
                           ELSE IF byPgrp # {} THEN {First(tab, byPgrp)} ELSE {}
      BY Zenon DEF Lookup
    <2>4. byPid \subseteq DOMAIN tab.list /\ byPgrp \subseteq DOMAIN tab.list
      BY Zenon
    <2> HIDE DEF byPid, byPgrp
    <2>5. /\ byPid # {} => First(tab, byPid) \in Listed(tab)
          /\ byPgrp # {} => First(tab, byPgrp) \in Listed(tab)
      BY <1>2, <2>4, FirstListed, Zenon
    <2>6. j \in Listed(tab)
      BY <2>3, <2>5, Zenon
    <2> QED
      BY <1>4, <2>2, <2>6, Zenon
  <1> QED
    BY <1>6, <1>7, <1>8, Zenon

\* Removing jobs, when the shell goes on to hold none.
LEMMA RemoveSafe ==
    ASSUME Typed, NEW t \in Table, Like(t, tab), Pointers(t), AsyncKept(t, tab), NEW S,
           tab' = RemoveJobs(t, S), main' \in MainRec, main'.at \in {"idle", "any", "gone"},
           KernLike(kern', kern)
    PROVE  SafeStep
  <1>1. /\ Shrunk(tab', t) /\ Listed(tab') = Listed(t) \ S
        /\ tab'.last = (IF t.last \in S \cap Listed(t) THEN 0 ELSE t.last)
        /\ tab'.async = (IF t.async \in S \cap Listed(t) THEN 0 ELSE t.async)
    BY RemoveJobsFacts
  <1>2. Pointers(tab')
    BY <1>1, Zenon DEF Pointers
  <1>3. PlaceInv'
    BY <1>2, QuietPlace, Zenon
  <1>4. Like(tab', t) /\ tab' \in Table
    BY <1>1, LikeItself, ShrunkLike, Zenon DEF Shrunk
  <1>5. Like(tab', tab)
    BY <1>4, LikeTransitive, Zenon
  <1>6. AsyncKept(tab', t)
    BY <1>1, Zenon DEF AsyncKept
  <1>7. AsyncKept(tab', tab)
    BY <1>6, AsyncKeptFacts, Zenon
  <1> QED
    BY <1>3, <1>4, <1>5, <1>7, Zenon DEF SafeStep

\* What is left in the table of a job whose first fork() has failed.
FirstFails ==
    /\ tab.njobs < env.jobs
    /\ \E a \in {0, tab.async} : tab' = [tab EXCEPT !.njobs = @ + 1, !.last = 0, !.async = a]

\* A fork() fails for the first stage of a pipeline or a later one.
LEMMA ForkCases ==
    ASSUME SomeFork
    PROVE  \/ main.at = "idle" /\ FirstFails /\ UNCHANGED <<kern, chld>>
           \/ /\ main.at = "pipe"
              /\ tab' = RemoveJobs(tab, {tab.last}) /\ kern' = Kill(kern, Alive(tab.last))
              /\ chld' = (chld \/ Alive(tab.last) # {})
  <1>1. PICK recycled \in BOOLEAN : ForkFails(recycled)
    BY Zenon DEF SomeFork
  <1>2. main.at \in {"idle", "pipe"} /\ ~handler
    BY <1>1, Zenon DEF ForkFails
  <1>3. CASE main.at = "idle"
    <2> DEFINE a == IF recycled THEN 0 ELSE tab.async
    <2>1. /\ tab.njobs < env.jobs /\ UNCHANGED <<kern, chld>>
          /\ tab' = [tab EXCEPT !.njobs = @ + 1, !.last = 0, !.async = a]
      BY <1>1, <1>3, Zenon DEF ForkFails
    <2>2. a \in {0, tab.async}
      BY Zenon
    <2> QED
      BY <1>3, <2>1, <2>2, Zenon DEF FirstFails
  <1>4. CASE main.at # "idle"
    BY <1>1, <1>2, <1>4, Zenon DEF ForkFails
  <1> QED
    BY <1>3, <1>4, Zenon

\* The jobs of the table stay as they are then.
LEMMA FirstFailsFacts ==
    ASSUME tab \in Table, env \in Env, FirstFails
    PROVE  /\ tab' \in Table /\ Like(tab', tab) /\ Pointers(tab') /\ AsyncKept(tab', tab)
           /\ Listed(tab') = Listed(tab) /\ SameZombies(tab', tab)
           /\ tab'.job = tab.job
  <1> DEFINE n == tab.njobs + 1
  <1>1. PICK a \in {0, tab.async} : tab' = [tab EXCEPT !.njobs = n, !.last = 0, !.async = a]
    BY Zenon DEF FirstFails
  <1>2. tab.njobs \in 0..MaxJobs /\ tab.async \in 0..MaxJobs
    BY Zenon DEF Table
  <1>3. n \in 0..MaxJobs /\ 0 \in 0..MaxJobs
    <2>1. env.jobs \in 0..MaxJobs
      BY Zenon DEF Env
    <2>2. tab.njobs < env.jobs
      BY Zenon DEF FirstFails
    <2> QED
      BY <1>2, <2>1, <2>2, JobsAssumption
  <1>4. NotFewer(n, tab.njobs)
    BY <1>2, JobsAssumption DEF NotFewer
  <1>5. a \in 0..MaxJobs
    BY <1>2, <1>3, Zenon
  <1> HIDE DEF n
  <1>6. /\ tab' \in Table /\ tab'.list = tab.list /\ tab'.job = tab.job /\ tab'.njobs = n
        /\ tab'.last = 0 /\ tab'.async = a /\ tab'.nzombie = tab.nzombie
    BY <1>1, <1>3, <1>5, Zenon DEF Table
  <1>7. Listed(tab') = Listed(tab)
    BY <1>6, Zenon DEF Listed
  <1>8. Like(tab', tab)
    BY <1>4, <1>6, <1>7, Zenon DEF Like, SameProcs
  <1>9. SameZombies(tab', tab)
    BY <1>6, <1>7, Zenon DEF SameZombies
  <1>10. AsyncKept(tab', tab) /\ Pointers(tab')
    BY <1>6, <1>7, AsyncKeptFacts, Zenon DEF Pointers
  <1> QED
    BY <1>6, <1>7, <1>8, <1>9, <1>10, Zenon

\* jobs, the notification at the prompt, and a fork() that fails.
LEMMA RemovalSafe ==
    ASSUME Typed, PlaceInv,
           \/ \E S \in SUBSET Listed(tab), z \in BOOLEAN : Jobs(S, z)
           \/ Notify \/ SomeFork
    PROVE  SafeStep
  <1>1. /\ tab \in Table /\ Pointers(tab) /\ kern \in [Pids -> Kern] /\ Like(tab, tab)
        /\ main \in MainRec /\ AsyncKept(tab, tab)
    BY LikeItself, AsyncKeptFacts, Zenon DEF Typed, PlaceInv, Pointers
  <1>2. CASE Notify \/ \E S \in SUBSET Listed(tab), z \in BOOLEAN : Jobs(S, z)
    <2>1. PICK S : tab' = RemoveJobs(tab, S) /\ UNCHANGED <<main, kern>> /\ main.at = "idle"
      BY <1>2, Zenon DEF Notify, Jobs
    <2>2. KernLike(kern', kern)
      BY <1>1, <2>1, Zenon DEF KernLike
    <2>3. main' \in MainRec /\ main'.at \in {"idle", "any", "gone"}
      BY <1>1, <2>1, Zenon
    <2> QED
      BY <1>1, <2>1, <2>2, <2>3, RemoveSafe, Zenon
  <1>3. CASE SomeFork
    <2>1. main' = Idle \/ main' = [Idle EXCEPT !.at = "gone"]
      BY <1>3, Zenon DEF SomeFork, ForkFails, Errorf
    <2>2. main' \in MainRec /\ main'.at \in {"idle", "any", "gone"}
      BY <2>1, QuietMain, Zenon
    <2>3. CASE tab' = RemoveJobs(tab, {tab.last}) /\ kern' = Kill(kern, Alive(tab.last))
      <3>1. \A p \in Alive(tab.last) \cap Pids : kern[p].st # "free"
        BY Zenon DEF Alive, Children
      <3>2. KernLike(kern', kern)
        BY <1>1, <2>3, <3>1, ManyChildren, Zenon
      <3> QED
        BY <1>1, <2>2, <2>3, <3>2, RemoveSafe, Zenon
    <2>4. CASE UNCHANGED kern /\ FirstFails
      <3>1. tab' \in Table /\ Like(tab', tab) /\ Pointers(tab') /\ AsyncKept(tab', tab)
        BY <1>1, <2>4, FirstFailsFacts, Zenon DEF Typed
      <3>2. KernLike(kern', kern)
        BY <1>1, <2>4, Zenon DEF KernLike
      <3>3. PlaceInv'
        BY <2>2, <3>1, QuietPlace, Zenon
      <3> QED
        BY <2>2, <3>1, <3>2, <3>3, Zenon DEF SafeStep
    <2> QED
      BY <1>3, <2>3, <2>4, ForkCases, Zenon
  <1> QED
    BY <1>2, <1>3, Zenon

\* $! is used; the output of a `command` is read from now on.
LEMMA FlagSafe ==
    ASSUME Typed, PlaceInv, Async \/ StartLast
    PROVE  SafeStep
  <1>1. /\ tab \in Table /\ Pointers(tab) /\ kern \in [Pids -> Kern] /\ main \in MainRec
        /\ UNCHANGED kern
    BY Zenon DEF Typed, PlaceInv, Pointers, Async, StartLast
  <1>2. KernLike(kern', kern)
    BY <1>1, Zenon DEF KernLike
  <1>3. CASE Async
    <2>1. tab.async \in 0..MaxJobs /\ tab.async # 0
      BY <1>1, <1>3, Zenon DEF Async, Table
    <2>2. tab.async \in JobIds
      BY <2>1, JobsAssumption DEF JobIds
    <2>3. {"KNOWN"} \in SUBSET Flags
      BY DEF Flags
    <2>4. tab' = SetFlags(tab, tab.async, {"KNOWN"}) /\ UNCHANGED main /\ main.at = "idle"
      BY <1>3, Zenon DEF Async
    <2>5. /\ tab' \in Table /\ Listed(tab') = Listed(tab) /\ Like(tab', tab)
          /\ tab'.last = tab.last /\ tab'.async = tab.async
      BY <1>1, <2>2, <2>3, <2>4, SetFlagsLike
    <2>6. Pointers(tab')
      BY <1>1, <2>5, Zenon DEF Pointers
    <2>7. PlaceInv'
      BY <2>4, <2>6, QuietPlace, Zenon
    <2>8. AsyncKept(tab', tab)
      BY <2>5, AsyncKeptFacts, Zenon
    <2> QED
      BY <1>1, <1>2, <2>4, <2>5, <2>7, <2>8, Zenon DEF SafeStep
  <1>4. CASE StartLast
    <2> DEFINE j == tab.last
               f == {"WAITING", "STARTED"}
    <2>1. main.at = "pipe"
      BY <1>4, Zenon DEF StartLast
    <2>2. main.j \in Listed(tab) /\ j = main.j
      BY <2>1, Zenon DEF PlaceInv
    <2>3. j \in JobIds
      BY <1>1, <2>2, ListedJobs, Zenon
    <2>4. f \in SUBSET Flags /\ "WAITING" \in f /\ "STARTED" \in f
      BY DEF Flags
    <2>5. tab' = SetFlags(tab, j, f) /\ main' = [main EXCEPT !.at = "reading"]
      BY <1>4, Zenon DEF StartLast
    <2> HIDE DEF f, j
    <2>6. /\ tab' \in Table /\ Listed(tab') = Listed(tab) /\ Like(tab', tab)
          /\ tab'.last = tab.last /\ tab'.async = tab.async
          /\ tab'.job[j].flags = tab.job[j].flags \cup f
      BY <1>1, <2>3, <2>4, <2>5, SetFlagsLike
    <2>7. main' \in MainRec /\ main'.at = "reading" /\ main'.j = main.j
      BY <1>1, <2>5, Zenon DEF MainRec, Places
    <2>8. Pointers(tab')
      BY <1>1, <2>6, Zenon DEF Pointers
    <2>9. main'.at # "pipe"
      BY <2>7
    <2>10. PlaceInv'
      BY <2>2, <2>4, <2>6, <2>7, <2>8, <2>9, Zenon DEF PlaceInv, Pointers, j
    <2>11. AsyncKept(tab', tab)
      BY <2>6, AsyncKeptFacts, Zenon
    <2> QED
      BY <1>2, <2>6, <2>7, <2>10, <2>11, Zenon DEF SafeStep
  <1> QED
    BY <1>3, <1>4, Zenon

\* j_waitj() after sigsuspend(), and its end.
LEMMA WaitEndSafe ==
    ASSUME Typed, PlaceInv, Woke \/ WaitDone
    PROVE  SafeStep
  <1>1. /\ tab \in Table /\ Pointers(tab) /\ kern \in [Pids -> Kern] /\ main \in MainRec
        /\ UNCHANGED kern
    BY Zenon DEF Typed, PlaceInv, Pointers, Woke, WaitDone
  <1>2. KernLike(kern', kern)
    BY <1>1, Zenon DEF KernLike
  <1>3. main.at \in {"woke", "check"}
    BY Zenon DEF Woke, WaitDone
  <1>4. main.j \in Listed(tab)
    BY <1>3, Zenon DEF PlaceInv
  <1>5. main.j \in JobIds
    BY <1>1, <1>4, ListedJobs, Zenon
  <1>6. ASSUME NEW f \in SUBSET (Flags \ {"STARTED"})
        PROVE  /\ ClearFlags(tab, main.j, f) \in Table /\ Pointers(ClearFlags(tab, main.j, f))
               /\ Like(ClearFlags(tab, main.j, f), tab)
               /\ AsyncKept(ClearFlags(tab, main.j, f), tab)
    <2> DEFINE t == ClearFlags(tab, main.j, f)
    <2>1. /\ t \in Table /\ Listed(t) = Listed(tab) /\ Like(t, tab)
          /\ t.last = tab.last /\ t.async = tab.async
      BY <1>1, <1>5, ClearFlagsLike
    <2> HIDE DEF t
    <2>2. Pointers(t) /\ AsyncKept(t, tab)
      BY <1>1, <2>1, AsyncKeptFacts, Zenon DEF Pointers
    <2> QED
      BY <2>1, <2>2 DEF t
  <1>7. /\ {"WAITING"} \in SUBSET (Flags \ {"STARTED"})
        /\ {"WAITING", "FG"} \in SUBSET (Flags \ {"STARTED"})
    BY DEF Flags
  <1>8. CASE Woke
    <2>1. CASE /\ main' = Idle \/ main' = [Idle EXCEPT !.at = "gone"]
               /\ tab' = ClearFlags(tab, main.j, {"WAITING"})
      <3>1. tab' \in Table /\ Pointers(tab') /\ Like(tab', tab) /\ AsyncKept(tab', tab)
        BY <1>6, <1>7, <2>1, Zenon
      <3>2. main' \in MainRec /\ PlaceInv'
        BY <2>1, <3>1, QuietMain, QuietPlace, Zenon
      <3> QED
        BY <1>2, <3>1, <3>2, Zenon DEF SafeStep
    <2>2. CASE main' = [main EXCEPT !.at = "check"] /\ UNCHANGED tab
      <3>1. "check" \in Places /\ main.at = "woke"
        BY <1>8, Zenon DEF Places, Woke
      <3>2. main' \in MainRec /\ PlaceInv'
        BY <2>2, <3>1, MovedPlace, Zenon
      <3>3. tab' \in Table /\ Like(tab', tab) /\ AsyncKept(tab', tab)
        BY <1>1, <2>2, LikeItself, AsyncKeptFacts, Zenon
      <3> QED
        BY <1>2, <3>2, <3>3, Zenon DEF SafeStep
    <2> QED
      BY <1>8, <2>1, <2>2, Zenon DEF Woke
  <1>9. CASE WaitDone
    <2> DEFINE t1 == ClearFlags(tab, main.j, {"WAITING", "FG"})
    <2>1. t1 \in Table /\ Pointers(t1) /\ Like(t1, tab) /\ AsyncKept(t1, tab)
      BY <1>6, <1>7, Zenon
    <2>2. tab' = RemoveJobs(t1, {main.j}) \/ tab' = t1
      BY <1>9, Zenon DEF WaitDone
    <2>3. main' = [at |-> "any", j |-> 0, kind |-> "any"] \/ main' = Idle
      BY <1>9, Zenon DEF WaitDone
    <2>4. main' \in MainRec /\ main'.at \in {"idle", "any", "gone"}
      BY <2>3, QuietMain, Zenon
    <2> HIDE DEF t1
    <2>5. CASE tab' = RemoveJobs(t1, {main.j})
      BY <1>2, <2>1, <2>4, <2>5, RemoveSafe, Zenon
    <2>6. CASE tab' = t1
      <3>1. PlaceInv'
        BY <2>1, <2>4, <2>6, QuietPlace, Zenon
      <3> QED
        BY <1>2, <2>1, <2>4, <2>6, <3>1, Zenon DEF SafeStep
    <2> QED
      BY <2>2, <2>5, <2>6, Zenon
  <1> QED
    BY <1>8, <1>9, Zenon

\* The processes of a job after it has been continued.
Continued(procs) == [i \in DOMAIN procs |-> IF procs[i].state = PSTOPPED
                        THEN [procs[i] EXCEPT !.state = PRUNNING] ELSE procs[i]]

\* u is t with job j continued.
Resumed(u, t, j) ==
    /\ u \in Table /\ Listed(u) = Listed(t) /\ u.njobs = t.njobs
    /\ u.last = t.last /\ u.async = t.async /\ u.nzombie = t.nzombie
    /\ \A i \in JobIds \ {j} : u.job[i] = t.job[i]
    /\ u.job[j].flags = t.job[j].flags /\ u.job[j].status = t.job[j].status
    /\ u.job[j].procs = Continued(t.job[j].procs)
    /\ u.job[j].state = IF u.job[j].procs # t.job[j].procs \/ t.job[j].state = PRUNNING
                        THEN PRUNNING ELSE t.job[j].state

\* A continued process is still a process, with the same pid, and ended if it was.
LEMMA ContinuedFacts ==
    ASSUME NEW procs \in Seq(Proc)
    PROVE  /\ Continued(procs) \in Seq(Proc) /\ Len(Continued(procs)) = Len(procs)
           /\ DOMAIN Continued(procs) = DOMAIN procs
           /\ \A i \in DOMAIN procs :
                 /\ Continued(procs)[i].pid = procs[i].pid
                 /\ Continued(procs)[i].state \in {PRUNNING, procs[i].state}
                 /\ procs[i].state # PSTOPPED => Continued(procs)[i] = procs[i]
                 /\ procs[i].state = PSTOPPED => Continued(procs)[i].state = PRUNNING
  <1> DEFINE new(i) == IF procs[i].state = PSTOPPED
                       THEN [procs[i] EXCEPT !.state = PRUNNING] ELSE procs[i]
             c == Continued(procs)
  <1>1. /\ Len(procs) \in Nat /\ DOMAIN procs = 1..Len(procs)
        /\ \A i \in DOMAIN procs : procs[i] \in Proc
    OBVIOUS
  <1>2. c = [i \in DOMAIN procs |-> new(i)]
    BY Zenon DEF Continued
  <1>3. ASSUME NEW i \in DOMAIN procs
        PROVE  /\ new(i) \in Proc /\ new(i).pid = procs[i].pid
               /\ new(i).state \in {PRUNNING, procs[i].state}
               /\ procs[i].state # PSTOPPED => new(i) = procs[i]
               /\ procs[i].state = PSTOPPED => new(i).state = PRUNNING
    <2>1. procs[i] \in Proc
      BY <1>1
    <2>2. PRUNNING \in 0..3
      BY DEF PRUNNING
    <2> QED
      BY <2>1, <2>2, Zenon DEF Proc
  <1> HIDE DEF new, c
  <1>4. DOMAIN c = DOMAIN procs /\ \A i \in DOMAIN procs : c[i] = new(i)
    BY <1>2, Zenon
  <1>5. c \in Seq(Proc) /\ Len(c) = Len(procs)
    <2>1. c \in [1..Len(procs) -> Proc]
      BY <1>1, <1>2, <1>3
    <2> QED
      BY <1>1, <2>1, LenProperties, SeqDef
  <1> QED
    BY <1>3, <1>4, <1>5, Zenon DEF c

(* bg makes the job asynchronous, and frees it when it was async_job, a    *)
(* zombie that $! was not used for.                                        *)
MadeAsync(u, j) ==
    /\ tab' = SetAsync(u, j)
    /\ env'.freed = IF tab.async = j /\ UnknownZombie(tab.job[j]) THEN j ELSE env.freed

\* fg and bg continue a job of the list; j_set_async() or j_waitj() follow.
LEMMA ResumeFacts ==
    ASSUME Typed, PlaceInv, NEW j \in JobIds, NEW bg \in BOOLEAN, Resume(j, bg)
    PROVE  /\ j \in Listed(tab) /\ KernLike(kern', kern)
           /\ tab' \in Table /\ main' \in MainRec /\ PlaceInv'
           /\ \E u : /\ Resumed(u, tab, j) /\ Like(tab', u) /\ Pointers(u)
                     /\ MadeAsync(u, j) \/ (SameZombies(tab', u) /\ UNCHANGED env)
  <1> DEFINE job == tab.job[j]
             procs == Continued(job.procs)
             running == procs # job.procs \/ job.state = PRUNNING
             state == IF running THEN PRUNNING ELSE job.state
             new == [job EXCEPT !.procs = procs, !.state = state]
             t0 == WithJob(tab, j, new)
             t1 == PutJob(t0, j, FALSE)
             ta == ClearFlags(t1, j, {"KNOWN"})
             tb == SetFlags(ta, j, {"FG"})
             a == IF tb.async = j THEN 0 ELSE tb.async
             t2 == [tb EXCEPT !.async = a]
  <1>1. tab \in Table /\ Pointers(tab) /\ kern \in [Pids -> Kern] /\ main \in MainRec /\ env \in Env
    BY Zenon DEF Typed, PlaceInv, Pointers
  <1>2. tab.job \in [JobIds -> Job] /\ job \in Job
    BY <1>1, Zenon DEF Table
  <1>3. [tab EXCEPT !.job[j].procs = procs, !.job[j].state = IF running THEN PRUNNING ELSE @] = t0
    <2>1. j \in DOMAIN tab.job
      BY <1>2, Zenon
    <2> HIDE DEF procs, running
    <2> QED
      BY <2>1, ZenonT(60) DEF WithJob
  <1>4. /\ ~handler /\ main.at = "idle" /\ j \in Listed(tab)
        /\ \/ MadeAsync(t1, j) /\ UNCHANGED main
           \/ WaitJ(t2, j, "fg") /\ UNCHANGED env
           \/ tab' = t1 /\ UNCHANGED <<env, main>>
        /\ kern' \in {kern, Cont(kern, Children(j))}
    <2> DEFINE w0 == [tab EXCEPT !.job[j].procs = procs,
                                 !.job[j].state = IF running THEN PRUNNING ELSE @]
               w1 == PutJob(w0, j, FALSE)
               w2 == [SetFlags(ClearFlags(w1, j, {"KNOWN"}), j, {"FG"})
                         EXCEPT !.async = IF @ = j THEN 0 ELSE @]
               f == IF tab.async = j /\ UnknownZombie(job) THEN j ELSE env.freed
               continued == IF running THEN Cont(kern, Children(j)) ELSE kern
    <2>1. /\ ~handler /\ main.at = "idle" /\ j \in Listed(tab)
          /\ \/ /\ bg /\ tab' = SetAsync(w1, j) /\ UNCHANGED <<main, tty>>
                /\ env' = [env EXCEPT !.freed = f]
                /\ kern' = continued
             \/ /\ ~bg /\ WaitJ(w2, j, "fg") /\ tty' = IF running THEN job.pgrp ELSE tty
                /\ kern' = continued
                /\ UNCHANGED env
             \/ /\ ~bg /\ running /\ tab' = w1
                /\ UNCHANGED <<env, main, tty, kern>>
      BY ZenonT(90) DEF Resume, Continued
    <2>2. env' = [env EXCEPT !.freed = f] =>
             env'.freed = IF tab.async = j /\ UnknownZombie(tab.job[j]) THEN j ELSE env.freed
      BY <1>1, Zenon DEF Env
    <2>3. continued \in {kern, Cont(kern, Children(j))}
      BY Zenon
    <2> HIDE DEF f, continued
    <2>4. w0 = t0
      BY <1>3
    <2> HIDE DEF w0, t0, running
    <2>5. w1 = t1
      BY <2>4, Zenon
    <2> HIDE DEF w1, t1
    <2>6. w2 = t2
      BY <2>5, Zenon
    <2> HIDE DEF w2, t2
    <2>7. \/ MadeAsync(t1, j) /\ UNCHANGED main
          \/ WaitJ(t2, j, "fg") /\ UNCHANGED env
          \/ tab' = t1 /\ UNCHANGED <<env, main>>
      BY <2>1, <2>5, <2>6, <2>2, Zenon DEF MadeAsync
    <2>8. kern' \in {kern, Cont(kern, Children(j))}
      BY <2>1, <2>3, Zenon
    <2> QED
      BY <2>1, <2>7, <2>8, Zenon
  <1>5. job.procs \in Seq(Proc) /\ job.state \in 0..3
    BY <1>2, Zenon DEF Job
  <1>6. procs \in Seq(Proc)
    BY <1>5, ContinuedFacts, Zenon
  <1>7. state \in 0..3
    <2>1. PRUNNING \in 0..3
      BY DEF PRUNNING
    <2> QED
      BY <1>5, <2>1, Zenon
  <1> HIDE DEF procs, state, running
  <1>8. /\ new \in Job /\ new.procs = procs /\ new.state = state /\ new.flags = job.flags
        /\ new.status = job.status
    <2> HIDE DEF job
    <2> QED
      BY <1>2, <1>6, <1>7, Zenon DEF Job
  <1> HIDE DEF new
  <1>9. /\ t0 \in Table /\ Listed(t0) = Listed(tab) /\ t0.njobs = tab.njobs
        /\ t0.last = tab.last /\ t0.async = tab.async /\ t0.nzombie = tab.nzombie
        /\ t0.job[j] = new
        /\ \A i \in JobIds \ {j} : t0.job[i] = tab.job[i]
    BY <1>1, <1>8, ChangedJob
  <1> HIDE DEF t0
  <1>10. /\ t1 \in Table /\ Listed(t1) = Listed(t0) \cup {j} /\ t1.job = t0.job
         /\ t1.njobs = t0.njobs /\ t1.last = t0.last /\ t1.async = t0.async
         /\ t1.nzombie = t0.nzombie
    BY <1>9, PutJobFacts
  <1> HIDE DEF t1
  <1>11. Resumed(t1, tab, j) /\ Pointers(t1) /\ j \in Listed(t1)
    <2>1. Listed(t1) = Listed(tab)
      BY <1>4, <1>9, <1>10, Zenon
    <2>2. Pointers(t1)
      BY <1>1, <1>9, <1>10, <2>1, Zenon DEF Pointers
    <2>3. t1.job[j].state = IF t1.job[j].procs # job.procs \/ job.state = PRUNNING
                            THEN PRUNNING ELSE job.state
      BY <1>8, <1>9, <1>10, Zenon DEF state, running
    <2> QED
      BY <1>4, <1>8, <1>9, <1>10, <2>1, <2>2, <2>3, Zenon DEF Resumed, procs
  <1>12. KernLike(kern', kern)
    <2>1. \A p \in Children(j) \cap Pids : kern[p].st # "free"
      BY Zenon DEF Children
    <2>2. CASE kern' = Cont(kern, Children(j))
      BY <1>1, <2>1, <2>2, ManyChildren, Zenon
    <2>3. CASE kern' = kern
      BY <1>1, <2>3, Zenon DEF KernLike
    <2> QED
      BY <1>4, <2>2, <2>3, Zenon
  <1>13. CASE MadeAsync(t1, j) /\ UNCHANGED main
    <2>1. tab' = SetAsync(t1, j) /\ UNCHANGED main
      BY <1>13, Zenon DEF MadeAsync
    <2>2. Shrunk(tab', t1) /\ Pointers(tab')
      BY <1>1, <1>10, <1>11, <2>1, SetAsyncFacts, Zenon
    <2>3. Like(tab', t1) /\ tab' \in Table
      BY <1>10, <2>2, LikeItself, ShrunkLike, Zenon DEF Shrunk
    <2>4. PlaceInv'
      BY <1>4, <2>1, <2>2, QuietPlace, Zenon
    <2> QED
      BY <1>1, <1>4, <1>11, <1>12, <1>13, <2>3, <2>4, Zenon
  <1>14. CASE tab' = t1 /\ UNCHANGED <<env, main>>
    <2>1. Like(tab', t1) /\ SameZombies(tab', t1)
      BY <1>10, <1>14, LikeItself, Zenon DEF SameZombies
    <2>2. PlaceInv'
      BY <1>4, <1>11, <1>14, QuietPlace, Zenon
    <2> QED
      BY <1>1, <1>4, <1>10, <1>11, <1>12, <1>14, <2>1, <2>2, Zenon
  <1>15. CASE WaitJ(t2, j, "fg") /\ UNCHANGED env
    <2>1. /\ {"KNOWN"} \in SUBSET (Flags \ {"STARTED"})
          /\ {"FG"} \in SUBSET Flags
      BY DEF Flags
    <2>2. SameZombies(ta, t1)
      <3>1. {"KNOWN"} \in SUBSET (Flags \ {"STARTED", "ZOMBIE"})
        BY DEF Flags
      <3> QED
        BY <1>10, <3>1, FlagsSameZombies, Zenon
    <2>3. /\ ta \in Table /\ Listed(ta) = Listed(t1) /\ Like(ta, t1)
          /\ ta.last = t1.last /\ ta.async = t1.async
      BY <1>10, <2>1, ClearFlagsLike
    <2> HIDE DEF ta
    <2>4. SameZombies(tb, ta)
      <3>1. {"FG"} \in SUBSET (Flags \ {"ZOMBIE"})
        BY DEF Flags
      <3> QED
        BY <2>3, <3>1, FlagsSameZombies, Zenon
    <2>5. /\ tb \in Table /\ Listed(tb) = Listed(ta) /\ Like(tb, ta)
          /\ tb.last = ta.last /\ tb.async = ta.async
      BY <2>1, <2>3, SetFlagsLike
    <2> HIDE DEF tb
    <2>6. a \in 0..MaxJobs /\ 0 \in Int
      <3>1. 0 \in 0..MaxJobs
        BY JobsAssumption
      <3>2. tb.async \in 0..MaxJobs
        BY <2>5, Zenon DEF Table
      <3>3. 0 \in Int
        OBVIOUS
      <3> QED
        BY <3>1, <3>2, <3>3, Zenon
    <2>7. SameZombies(t2, tb)
      <3>1. a \in {0, tb.async}
        BY Zenon
      <3> HIDE DEF a
      <3> QED
        BY <2>5, <3>1, FlagsSameZombies, Zenon
    <2> HIDE DEF a
    <2>8. Shrunk(t2, tb) /\ Listed(t2) = Listed(tb) /\ t2.async = a /\ t2.last = tb.last
      BY <2>5, <2>6, FieldFacts
    <2> HIDE DEF t2
    <2>9. Like(t2, tb) /\ t2 \in Table
      BY <2>5, <2>8, LikeItself, ShrunkLike, Zenon DEF Shrunk
    <2>10. Like(t2, t1)
      BY <2>3, <2>5, <2>9, LikeTransitive, Zenon
    <2>11. Pointers(t2) /\ j \in Listed(t2)
      BY <1>11, <2>3, <2>5, <2>8, Zenon DEF Pointers
    <2>12. tab' \in Table /\ main' \in MainRec /\ PlaceInv' /\ Like(tab', t2)
      BY <1>4, <1>15, <2>9, <2>11, WaitPlace, Zenon
    <2>13. Like(tab', t1)
      BY <2>10, <2>12, LikeTransitive, Zenon
    <2>14. SameZombies(tab', t2)
      <3>1. {"WAITING"} \in SUBSET (Flags \ {"ZOMBIE"})
        BY DEF Flags
      <3>2. tab' = SetFlags(t2, j, {"WAITING"})
        BY <1>4, <1>15, Zenon DEF WaitJ
      <3> QED
        BY <2>9, <3>1, <3>2, FlagsSameZombies, Zenon
    <2>15. SameZombies(tab', t1)
      BY <2>2, <2>4, <2>7, <2>14, SameZombiesTransitive, Zenon
    <2> QED
      BY <1>4, <1>11, <1>12, <1>15, <2>12, <2>13, <2>15, Zenon
  <1> QED
    BY <1>4, <1>13, <1>15, <1>14, Zenon

\* What waitpid() returns: the child's new state, and the kernel's view of it.
WaitedFor(p, s) ==
    /\ handler /\ kern[p].st # "free" /\ UNCHANGED <<main, handler>>
    /\ tab' = Reported(tab, p, s)
    /\ \/ s \in Terminal /\ kern' = [kern EXCEPT ![p] = Free]
       \/ s = PSTOPPED /\ KernLike(kern', kern)

\* An iteration of the handler's loop is of one of these kinds.
LEMMA WaitpidCases ==
    ASSUME Typed, NEW p \in Pids, Waitpid(p)
    PROVE  \E s \in 1..3 : WaitedFor(p, s)
  <1>1. handler /\ UNCHANGED <<main, handler>> /\ Reportable(p)
    BY Zenon DEF Waitpid
  <1>2. kern[p].st # "free"
    BY <1>1 DEF Reportable
  <1>3. PSIGNALLED \in 1..3 \cap Terminal /\ PEXITED \in 1..3 \cap Terminal /\ PSTOPPED \in 1..3
    BY DEF PSIGNALLED, PEXITED, PSTOPPED, Terminal
  <1>4. CASE kern[p].st = "dead"
    <2> DEFINE s == IF kern[p].sig THEN PSIGNALLED ELSE PEXITED
    <2>1. kern' = [kern EXCEPT ![p] = Free] /\ tab' = Reported(tab, p, s)
      BY <1>4, Zenon DEF Waitpid
    <2>2. s \in 1..3 /\ s \in Terminal
      BY <1>3, Zenon
    <2> HIDE DEF s
    <2> QED
      BY <1>1, <1>2, <2>1, <2>2, Zenon DEF WaitedFor
  <1>5. CASE kern[p].st # "dead"
    <2> DEFINE r == [kern[p] EXCEPT !.new = FALSE]
    <2>1. tab' = Reported(tab, p, PSTOPPED)
      BY <1>5, Zenon DEF Waitpid
    <2>2. kern' = [kern EXCEPT ![p] = r]
      BY <1>5, Zenon DEF Waitpid
    <2>3. kern \in [Pids -> Kern] /\ kern[p] \in Kern
      BY Zenon DEF Typed
    <2>4. r \in Kern /\ r.st = kern[p].st /\ r.job = kern[p].job
      BY <2>3, Zenon DEF Kern
    <2> HIDE DEF r
    <2>5. KernLike(kern', kern)
      BY <1>2, <2>2, <2>3, <2>4, OneChild, Zenon
    <2> QED
      BY <1>1, <1>2, <1>3, <2>1, <2>5, Zenon DEF WaitedFor
  <1> QED
    BY <1>4, <1>5, Zenon

\* The handler's loop leaves the shell's pointers as they should be.
LEMMA WaitpidPlace ==
    ASSUME Typed, PlaceInv, NEW p \in Pids, Waitpid(p)
    PROVE  tab' \in Table /\ main' \in MainRec /\ PlaceInv' /\ kern' \in [Pids -> Kern]
  <1>1. PICK s \in 1..3 : WaitedFor(p, s)
    BY WaitpidCases, Zenon
  <1>2. /\ tab \in Table /\ Pointers(tab) /\ main \in MainRec /\ kern \in [Pids -> Kern]
    BY Zenon DEF Typed, PlaceInv, Pointers
  <1>3. kern' \in [Pids -> Kern]
    <2>1. 0 \in 0..MaxJobs
      BY JobsAssumption
    <2>2. Free \in Kern
      BY <2>1, Zenon DEF Free, Kern
    <2>3. [kern EXCEPT ![p] = Free] \in [Pids -> Kern]
      BY <1>2, <2>2, Zenon
    <2> QED
      BY <1>1, <2>3, Zenon DEF WaitedFor, KernLike
  <1>4. handler /\ UNCHANGED <<main, handler>> /\ tab' = Reported(tab, p, s)
    BY <1>1, Zenon DEF WaitedFor
  <1>5. main.at # "pipe"
    BY <1>4, Zenon DEF PlaceInv
  <1>6. CASE WithPid(tab, p) = {}
    <2>1. tab' = tab
      BY <1>4, <1>6, Zenon DEF Reported
    <2> QED
      BY <1>2, <1>3, <1>4, <2>1, Zenon DEF PlaceInv
  <1>7. CASE WithPid(tab, p) # {}
    <2>1. s \in 0..3
      OBVIOUS
    <2>2. PICK j \in Listed(tab) : \E n, x : Updated(x, tab, j, n, p, s) /\ Checked(tab', x, j)
      BY <1>2, <1>4, <1>7, <2>1, ReportedFacts, Zenon
    <2>3. PICK n, x : Updated(x, tab, j, n, p, s) /\ Checked(tab', x, j)
      BY <2>2, Zenon
    <2>4. j \in JobIds /\ Listed(tab) \subseteq JobIds
      BY <1>2, ListedJobs, Zenon
    <2>5. /\ tab' \in Table /\ Listed(tab') \subseteq Listed(tab)
          /\ Listed(tab) \subseteq Listed(tab') \cup {j} /\ Pointers(tab')
      BY <2>3, Zenon DEF Updated, Checked
    <2>6. \A i \in Listed(tab) : "WAITING" \in tab.job[i].flags =>
             i \in Listed(tab') /\ tab.job[i].flags \subseteq tab'.job[i].flags
      BY <2>3, <2>4, <2>5, Zenon DEF Updated, Checked, ProcChanged
    <2>7. tab'.last = tab.last \/ (tab.last = j /\ j \notin Listed(tab'))
      BY <2>3, Zenon DEF Updated, Checked
    <2>8. PlaceInv'
      <3>1. main.at \in {"check", "sleep", "woke", "reading"} =>
               main.j \in Listed(tab') /\ "WAITING" \in tab'.job[main.j].flags
        BY <2>6, Zenon DEF PlaceInv
      <3>2. main.at = "reading" => tab'.last = main.j /\ "STARTED" \in tab'.job[main.j].flags
        BY <2>6, <2>7, <3>1, Zenon DEF PlaceInv
      <3> QED
        BY <1>4, <1>5, <2>5, <3>1, <3>2, Zenon DEF PlaceInv, Pointers
    <2> QED
      BY <1>2, <1>3, <1>4, <2>5, <2>8, Zenon
  <1> QED
    BY <1>6, <1>7, Zenon

\* The kernel's record of a child that has just been started.
LEMMA NewChild ==
    ASSUME kern \in [Pids -> Kern], NEW pid \in Pids, NEW j \in JobIds,
           kern' = [kern EXCEPT ![pid] = [Free EXCEPT !.st = "run", !.job = j]]
    PROVE  /\ kern' \in [Pids -> Kern] /\ kern'[pid].st = "run" /\ kern'[pid].job = j
           /\ \A q \in Pids \ {pid} : kern'[q] = kern[q]
  <1> DEFINE r == [Free EXCEPT !.st = "run", !.job = j]
  <1>1. j \in 0..MaxJobs /\ 0 \in 0..MaxJobs
    BY JobsAssumption DEF JobIds
  <1>2. r \in Kern /\ r.st = "run" /\ r.job = j
    BY <1>1, Zenon DEF Free, Kern
  <1>3. kern' = [kern EXCEPT ![pid] = r]
    BY Zenon
  <1> HIDE DEF r
  <1> QED
    BY <1>2, <1>3, Zenon

\* After exchild() the pipeline goes on, the job is waited for, or it is left alone.
LEMMA StagedPlace ==
    ASSUME Typed, PlaceInv, NEW kind \in Kinds, NEW j, NEW u, NEW pid, NEW first,
           Staged(u, tab, j, pid, first), ~handler',
           \/ tab' = u /\ main' = [at |-> "pipe", j |-> j, kind |-> kind]
           \/ tab' = SetAsync(SetFlags(u, j, {"STARTED"}), j) /\ main' = Idle
           \/ WaitJ(SetFlags(u, j, {"STARTED"}), j, "fg")
    PROVE  /\ tab' \in Table /\ main' \in MainRec /\ PlaceInv'
           /\ \/ tab' = u
              \/ Like(tab', SetFlags(u, j, {"STARTED"}))
  <1> DEFINE v == SetFlags(u, j, {"STARTED"})
  <1>1. /\ u \in Table /\ j \in JobIds /\ Listed(u) = Listed(tab) \cup {j} /\ u.last = j
        /\ u.job[j].flags \cap {"STARTED", "ZOMBIE"} = {}
    BY Zenon DEF Staged
  <1>2. Pointers(u)
    BY <1>1, Zenon DEF Pointers, PlaceInv
  <1>3. {"STARTED"} \in SUBSET Flags
    BY DEF Flags
  <1>4. /\ v \in Table /\ Listed(v) = Listed(u) /\ v.last = u.last /\ v.async = u.async
    BY <1>1, <1>3, SetFlagsLike
  <1> HIDE DEF v
  <1>5. Pointers(v) /\ j \in Listed(v)
    BY <1>1, <1>2, <1>4, Zenon DEF Pointers
  <1>6. CASE tab' = u /\ main' = [at |-> "pipe", j |-> j, kind |-> kind]
    <2>1. j \in 0..MaxJobs
      BY <1>1, JobsAssumption DEF JobIds
    <2>2. main' \in MainRec /\ main'.at = "pipe" /\ main'.j = j
      BY <1>6, <2>1, Zenon DEF MainRec, Places
    <2>3. main'.at \notin {"check", "sleep", "woke", "reading"}
      BY <2>2
    <2>4. PlaceInv'
      BY <1>1, <1>2, <1>6, <2>2, <2>3, Zenon DEF PlaceInv, Pointers
    <2> QED
      BY <1>1, <1>6, <2>2, <2>4, Zenon
  <1>7. CASE tab' = SetAsync(v, j) /\ main' = Idle
    <2>1. Shrunk(tab', v) /\ Pointers(tab')
      BY <1>4, <1>5, <1>7, SetAsyncFacts, Zenon DEF Typed
    <2>2. Like(tab', v) /\ tab' \in Table
      BY <1>4, <2>1, LikeItself, ShrunkLike, Zenon DEF Shrunk
    <2>3. main' \in MainRec /\ PlaceInv'
      BY <1>7, <2>1, QuietMain, QuietPlace, Zenon
    <2> QED
      BY <2>2, <2>3, Zenon DEF v
  <1>8. CASE WaitJ(v, j, "fg")
    <2>1. tab' \in Table /\ main' \in MainRec /\ PlaceInv' /\ Like(tab', v)
      BY <1>4, <1>5, <1>8, WaitPlace, Zenon
    <2> QED
      BY <2>1, Zenon DEF v
  <1> QED
    BY <1>6, <1>7, <1>8, Zenon DEF v

\* Where a step of the specification comes from.
LEMMA StepCases ==
    ASSUME [Next]_vars
    PROVE  \/ Child \/ Sigchld \/ SigchldReturns
           \/ \E p \in Pids : Waitpid(p)
           \/ \E kind \in Kinds, pid \in FreePids, pipeo, recycled \in BOOLEAN :
                   Exchild(kind, pid, pipeo, recycled)
           \/ \E j \in JobIds, bg \in BOOLEAN : Resume(j, bg)
           \/ Sleep \/ PipeFails \/ AbandonSub \/ Change \/ Trapsig \/ Runtraps \/ UNCHANGED vars
           \/ WaitLast \/ WaitAny \/ (\E p \in Pids : WaitPid(p))
           \/ (\E S \in SUBSET Listed(tab), z \in BOOLEAN : Jobs(S, z))
           \/ Notify \/ SomeFork
           \/ Async \/ StartLast
           \/ Woke \/ WaitDone
  BY Zenon DEF Next, Handler, Main, Command, SomeFork

\* The actions that change no job's processes.
Tame ==
    \/ Child \/ Sigchld \/ SigchldReturns
    \/ Sleep \/ PipeFails \/ AbandonSub \/ Change \/ Trapsig \/ Runtraps \/ UNCHANGED vars
    \/ WaitLast \/ WaitAny \/ (\E p \in Pids : WaitPid(p))
    \/ (\E S \in SUBSET Listed(tab), z \in BOOLEAN : Jobs(S, z))
    \/ Notify \/ SomeFork
    \/ Async \/ StartLast
    \/ Woke \/ WaitDone

\* None of them disturbs the pointers or the processes.
LEMMA TameSafe ==
    ASSUME Typed, PlaceInv, Tame
    PROVE  SafeStep
  <1>1. CASE Child
    BY <1>1, ChildSafe, Zenon
  <1>2. CASE Sigchld \/ SigchldReturns
    BY <1>2, HandlerSafe, Zenon
  <1>3. CASE \/ Sleep \/ PipeFails \/ AbandonSub \/ Change \/ Trapsig \/ Runtraps
             \/ UNCHANGED vars
    BY <1>3, QuietSafe, Zenon
  <1>4. CASE WaitLast \/ WaitAny \/ \E p \in Pids : WaitPid(p)
    BY <1>4, WaitSafe, Zenon
  <1>5. CASE \/ \E S \in SUBSET Listed(tab), z \in BOOLEAN : Jobs(S, z)
             \/ Notify \/ SomeFork
    BY <1>5, RemovalSafe, Zenon
  <1>6. CASE Async \/ StartLast
    BY <1>6, FlagSafe, Zenon
  <1>7. CASE Woke \/ WaitDone
    BY <1>7, WaitEndSafe, Zenon
  <1> QED
    BY <1>1, <1>2, <1>3, <1>4, <1>5, <1>6, <1>7, Zenon DEF Tame

\* The signal's bookkeeping: pending, in the handler, held.
LEMMA SignalStep ==
    ASSUME Typed, [Next]_vars
    PROVE  /\ {held_sigchld, handler, chld}' \subseteq BOOLEAN
           /\ handler => UNCHANGED handler \/ SigchldReturns
           /\ handler' => UNCHANGED handler \/ Sigchld
           /\ chld \/ held_sigchld => chld' \/ held_sigchld' \/ handler'
  <1>1. held_sigchld \in BOOLEAN /\ handler \in BOOLEAN /\ chld \in BOOLEAN
    BY Zenon DEF Typed
  <1>2. kern \in [Pids -> Kern]
    BY Zenon DEF Typed
  <1>3. CASE UNCHANGED <<held_sigchld, handler, chld>>
    BY <1>1, <1>3, Zenon
  <1>4. CASE StartJob /\ UNCHANGED handler
    <2>1. held_sigchld' = FALSE /\ chld' = (chld \/ held_sigchld) /\ UNCHANGED handler
      BY <1>4, Zenon DEF StartJob
    <2> QED
      BY <1>1, <2>1
  <1>5. CASE Child
    <2>1. UNCHANGED <<held_sigchld, handler>> /\ (chld => chld') /\ chld' \in {chld, TRUE}
      BY <1>2, <1>5, ChildKern, Zenon
    <2> QED
      BY <1>1, <2>1
  <1>6. CASE Sigchld
    <2>1. /\ ~handler /\ chld' = FALSE
          /\ (held_sigchld' = TRUE /\ UNCHANGED handler)
             \/ (handler' = TRUE /\ UNCHANGED held_sigchld)
      BY <1>6, Zenon DEF Sigchld
    <2> QED
      BY <1>1, <1>6, <2>1
  <1>7. CASE SigchldReturns
    <2>1. UNCHANGED <<held_sigchld, chld>> /\ handler' = FALSE
      BY <1>7, Zenon DEF SigchldReturns
    <2> QED
      BY <1>1, <1>7, <2>1
  <1>8. CASE \E p \in Pids : Waitpid(p)
    BY <1>3, <1>8, Zenon DEF Waitpid
  <1>9. CASE \E kind \in Kinds, pid \in FreePids, pipeo, recycled \in BOOLEAN :
                  Exchild(kind, pid, pipeo, recycled)
    <2>1. PICK kind \in Kinds, pid \in FreePids, pipeo, recycled \in BOOLEAN :
               Exchild(kind, pid, pipeo, recycled)
      BY <1>9, ZenonT(60)
    <2>2. UNCHANGED handler /\ (UNCHANGED <<held_sigchld, chld>> \/ StartJob)
      BY <2>1, ZenonT(60) DEF Exchild
    <2> QED
      BY <1>3, <1>4, <2>2, Zenon
  <1>10. CASE \E j \in JobIds, bg \in BOOLEAN : Resume(j, bg)
    BY <1>3, <1>10, ZenonT(60) DEF Resume
  <1>11. CASE Sleep \/ PipeFails \/ AbandonSub \/ Change \/ Trapsig \/ Runtraps \/ UNCHANGED vars
    BY <1>3, <1>11, Zenon DEF Sleep, PipeFails, AbandonSub, Change, Trapsig, Runtraps, vars
  <1>12. CASE WaitLast \/ WaitAny \/ (\E p \in Pids : WaitPid(p)) \/ Woke \/ WaitDone
    BY <1>3, <1>12, Zenon DEF WaitLast, WaitAny, WaitPid, Woke, WaitDone
  <1>13. CASE \/ (\E S \in SUBSET Listed(tab), z \in BOOLEAN : Jobs(S, z))
              \/ Notify \/ Async
    BY <1>3, <1>13, Zenon DEF Jobs, Notify, Async
  <1>14. CASE StartLast
    BY <1>4, <1>14, Zenon DEF StartLast
  <1>15. CASE SomeFork
    <2> DEFINE b == Alive(tab.last) # {}
    <2>1. UNCHANGED <<held_sigchld, handler>> /\ (chld' = (chld \/ b) \/ chld' = chld)
      BY <1>15, Zenon DEF SomeFork, ForkFails
    <2> HIDE DEF b
    <2> QED
      BY <1>1, <2>1
  <1> QED
    BY <1>5, <1>6, <1>7, <1>8, <1>9, <1>10, <1>11, <1>12, <1>13, <1>14, <1>15, StepCases, Zenon

\* Types and places are kept by every step.
LEMMA PlaceStep ==
    ASSUME Typed, PlaceInv, [Next]_vars
    PROVE  Typed' /\ PlaceInv'
  <1>1. env' \in Env /\ {held_sigchld, handler, chld}' \subseteq BOOLEAN
    BY EnvStep, SignalStep, Zenon DEF Typed
  <1>2. kern \in [Pids -> Kern]
    BY Zenon DEF Typed
  <1>3. CASE Tame
    BY <1>1, <1>3, TameSafe, Zenon DEF SafeStep, KernLike, Typed
  <1>4. CASE \E p \in Pids : Waitpid(p)
    BY <1>1, <1>4, WaitpidPlace, Zenon DEF Typed
  <1>5. CASE \E kind \in Kinds, pid \in FreePids, pipeo, recycled \in BOOLEAN :
                  Exchild(kind, pid, pipeo, recycled)
    <2>1. PICK kind \in Kinds, pid \in FreePids, pipeo, recycled \in BOOLEAN :
               Exchild(kind, pid, pipeo, recycled)
      BY <1>5, Zenon
    <2>2. PICK j, u, first : Launched(j, u, first, kind, pid)
      BY <2>1, ExchildFacts, Zenon
    <2>3. j \in JobIds
      BY <2>2, Zenon DEF Launched, Staged
    <2>4. kern' \in [Pids -> Kern]
      BY <1>2, <2>2, <2>3, NewChild, Zenon DEF Launched
    <2>5. tab' \in Table /\ main' \in MainRec /\ PlaceInv'
      BY <2>2, StagedPlace, Zenon DEF Launched
    <2> QED
      BY <1>1, <2>4, <2>5, Zenon DEF Typed
  <1>6. CASE \E j \in JobIds, bg \in BOOLEAN : Resume(j, bg)
    BY <1>1, <1>6, ResumeFacts, Zenon DEF KernLike, Typed
  <1> QED
    BY <1>3, <1>4, <1>5, <1>6, StepCases, Zenon DEF Tame

\* At first there is no job.
LEMMA PlaceInit ==
    ASSUME Init
    PROVE  Typed /\ PlaceInv /\ AsyncInv /\ Listed(tab) = {} /\ \A p \in Pids : kern[p].st = "free"
  <1>1. 0 \in 0..MaxJobs /\ 0 \in Int
    BY JobsAssumption
  <1>2. env \in Env
    BY JobsAssumption, Zenon DEF Init
  <1>3. NoJob \in Job
    <2>1. <<>> \in Seq(Proc)
      OBVIOUS
    <2> QED
      BY <2>1 DEF NoJob, Job, PRUNNING
  <1>4. /\ NoJobs \in Table /\ NoJobs.list = <<>> /\ NoJobs.last = 0 /\ NoJobs.async = 0
    <2>1. <<>> \in Seq(JobIds) /\ [j \in JobIds |-> NoJob] \in [JobIds -> Job]
      BY <1>3
    <2> QED
      BY <1>1, <2>1, Zenon DEF NoJobs, Table
  <1>5. Listed(NoJobs) = {}
    BY <1>4 DEF Listed
  <1>6. Free \in Kern /\ Free.st = "free"
    BY <1>1, Zenon DEF Free, Kern
  <1>7. tab = NoJobs /\ main = Idle /\ kern = [p \in Pids |-> Free]
        /\ handler = FALSE /\ chld = FALSE /\ held_sigchld = FALSE
    BY Zenon DEF Init
  <1>8. kern \in [Pids -> Kern] /\ \A p \in Pids : kern[p].st = "free"
    BY <1>6, <1>7, Zenon
  <1>9. Typed
    BY <1>2, <1>4, <1>7, <1>8, QuietMain, Zenon DEF Typed
  <1>10. PlaceInv
    <2>1. main.at \notin {"check", "sleep", "woke", "reading", "pipe"}
      <3>1. main.at = "idle"
        BY <1>7, QuietMain, Zenon
      <3> QED
        BY <3>1
    <2> QED
      BY <1>4, <1>7, <2>1, Zenon DEF PlaceInv
  <1>11. AsyncInv
    BY <1>4, <1>7, Zenon DEF AsyncInv
  <1> QED
    BY <1>5, <1>7, <1>8, <1>9, <1>10, <1>11, Zenon

\* check_job() leaves async_job alone, or clears it.
LEMMA CheckedAsync ==
    ASSUME NEW t \in Table, NEW u, NEW j, CheckedZombies(u, t, j)
    PROVE  AsyncKept(u, t)
  <1>1. CASE SameZombies(u, t) \/ (Listed(u) = Listed(t) /\ u.async = t.async)
    BY <1>1, AsyncKeptFacts, Zenon DEF SameZombies
  <1>2. CASE \E x \in Table : SameZombies(x, t) /\ u = RemoveJobs(x, {j})
    <2>1. PICK x \in Table : SameZombies(x, t) /\ u = RemoveJobs(x, {j})
      BY <1>2, Zenon
    <2>2. /\ Listed(u) = Listed(x) \ {j}
          /\ u.async = (IF x.async \in {j} \cap Listed(x) THEN 0 ELSE x.async)
      BY <2>1, RemoveJobsFacts
    <2>3. AsyncKept(u, x) /\ AsyncKept(x, t)
      BY <2>1, <2>2, Zenon DEF AsyncKept, SameZombies
    <2> QED
      BY <2>3, AsyncKeptFacts, Zenon
  <1> QED
    BY <1>1, <1>2, Zenon DEF CheckedZombies

\* async_job is in the list, unless bg has just freed it or had before.
LEMMA AsyncStep ==
    ASSUME Typed, PlaceInv, AsyncInv, [Next]_vars
    PROVE  AsyncInv'
  <1>1. tab \in Table /\ env \in Env /\ Pointers(tab)
    BY Zenon DEF Typed, PlaceInv, Pointers
  <1>2. CASE \E j \in JobIds, bg \in BOOLEAN : Resume(j, bg)
    <2>1. PICK j \in JobIds, bg \in BOOLEAN : Resume(j, bg)
      BY <1>2, Zenon
    <2>2. PICK u : /\ Resumed(u, tab, j) /\ Pointers(u)
                   /\ MadeAsync(u, j) \/ (SameZombies(tab', u) /\ UNCHANGED env)
      BY <2>1, ResumeFacts, Zenon
    <2>3. /\ u \in Table /\ Listed(u) = Listed(tab) /\ u.async = tab.async
          /\ u.job[j].flags = tab.job[j].flags /\ j \in Listed(tab)
      BY <2>1, <2>2, ResumeFacts, Zenon DEF Resumed
    <2>4. CASE SameZombies(tab', u) /\ UNCHANGED env
      BY <2>3, <2>4, Zenon DEF SameZombies, AsyncInv
    <2>5. CASE MadeAsync(u, j)
      <3>1. AsyncSet(tab', u, j)
        BY <1>1, <2>2, <2>3, <2>5, SetAsyncFacts, Zenon DEF MadeAsync
      <3>2. UnknownZombie(u.job[j]) => UnknownZombie(tab.job[j])
        BY <2>3, Zenon DEF UnknownZombie
      <3>3. CASE tab'.async = j /\ (j \in Listed(tab') \/ (u.async = j /\ UnknownZombie(u.job[j])))
        BY <2>3, <2>5, <3>2, <3>3, Zenon DEF MadeAsync, AsyncInv
      <3>4. CASE AsyncKept(tab', u)
        <4>1. CASE tab.async = j /\ UnknownZombie(tab.job[j])
          <5>1. env'.freed = tab.async
            BY <2>5, <4>1, Zenon DEF MadeAsync
          <5> QED
            BY <2>3, <3>4, <5>1, Zenon DEF AsyncKept, AsyncInv
        <4>2. CASE ~(tab.async = j /\ UnknownZombie(tab.job[j]))
          <5>1. env'.freed = env.freed
            BY <2>5, <4>2, Zenon DEF MadeAsync
          <5> QED
            BY <2>3, <3>4, <5>1, Zenon DEF AsyncKept, AsyncInv
        <4> QED
          BY <4>1, <4>2, Zenon
      <3> QED
        BY <3>1, <3>3, <3>4, Zenon DEF AsyncSet
    <2> QED
      BY <2>2, <2>4, <2>5, Zenon
  <1>3. CASE ~\E j \in JobIds, bg \in BOOLEAN : Resume(j, bg)
    <2>1. env'.freed = env.freed
      BY <1>1, <1>3, EnvStep, Zenon
    <2>2. ASSUME AsyncKept(tab', tab) PROVE AsyncInv'
      BY <2>1, <2>2, Zenon DEF AsyncKept, AsyncInv
    <2>3. CASE Tame
      BY <2>2, <2>3, TameSafe, Zenon DEF SafeStep
    <2>4. CASE \E p \in Pids : Waitpid(p)
      <3>1. PICK p \in Pids : Waitpid(p)
        BY <2>4, Zenon
      <3>2. PICK s \in 1..3 : WaitedFor(p, s)
        BY <3>1, WaitpidCases, Zenon
      <3>3. tab' = Reported(tab, p, s) /\ s \in 0..3
        <4>1. s \in 0..3
          OBVIOUS
        <4> QED
          BY <3>2, <4>1, Zenon DEF WaitedFor
      <3>4. CASE WithPid(tab, p) = {}
        <4>1. tab' = tab
          BY <3>3, <3>4, Zenon DEF Reported
        <4> QED
          BY <2>2, <4>1, AsyncKeptFacts, Zenon
      <3>5. CASE WithPid(tab, p) # {}
        <4>1. PICK j \in Listed(tab) : \E n, x :
                 /\ Updated(x, tab, j, n, p, s)
                 /\ tab' = CheckJob(x, j) /\ Pointers(x) /\ x.job[j].procs # <<>>
          <5>1. \E j \in Listed(tab) : \E n, x :
                   /\ Updated(x, tab, j, n, p, s)
                   /\ Reported(tab, p, s) = CheckJob(x, j)
                   /\ Pointers(x) /\ x.job[j].procs # <<>>
            BY <1>1, <3>3, <3>5, ReportedFacts, ZenonT(60)
          <5> QED
            BY <3>3, <5>1, Zenon
        <4>2. PICK n, x : /\ Updated(x, tab, j, n, p, s)
                          /\ tab' = CheckJob(x, j) /\ Pointers(x) /\ x.job[j].procs # <<>>
          BY <4>1, Zenon
        <4>3. x \in Table /\ Listed(x) = Listed(tab) /\ x.async = tab.async
          BY <4>2, Zenon DEF Updated
        <4>4. CheckedZombies(tab', x, j)
          BY <4>2, <4>3, CheckJobFacts, Zenon
        <4>5. AsyncKept(tab', x) /\ AsyncKept(x, tab)
          BY <4>3, <4>4, CheckedAsync, AsyncKeptFacts, Zenon
        <4> QED
          BY <2>2, <4>5, AsyncKeptFacts, Zenon
      <3> QED
        BY <3>4, <3>5, Zenon
    <2>5. CASE \E kind \in Kinds, pid \in FreePids, pipeo, recycled \in BOOLEAN :
                   Exchild(kind, pid, pipeo, recycled)
      <3>1. PICK kind \in Kinds, pid \in FreePids, pipeo, recycled \in BOOLEAN :
                 Exchild(kind, pid, pipeo, recycled)
        BY <2>5, Zenon
      <3>2. PICK j, u, first : Launched(j, u, first, kind, pid)
        BY <3>1, ExchildFacts, Zenon
      <3> DEFINE v == SetFlags(u, j, {"STARTED"})
      <3>3. /\ u \in Table /\ j \in JobIds /\ Listed(u) = Listed(tab) \cup {j} /\ u.last = j
            /\ AsyncStaged(u, tab, j, first)
        BY <3>2, Zenon DEF Launched, Staged
      <3>4. {"STARTED"} \in SUBSET Flags /\ {"WAITING"} \in SUBSET Flags
        BY DEF Flags
      <3>5. v \in Table /\ Listed(v) = Listed(u) /\ v.async = u.async /\ v.last = u.last
        BY <3>3, <3>4, SetFlagsLike
      <3>6. u.async = j \/ AsyncKept(u, tab)
        BY <3>3, Zenon DEF AsyncStaged, AsyncKept
      <3>7. tab' = u \/ tab' = SetAsync(v, j) \/ tab' = SetFlags(v, j, {"WAITING"})
        BY <3>2, Zenon DEF Launched, WaitJ
      <3> HIDE DEF v
      <3>8. ASSUME Listed(tab') = Listed(u), tab'.async = u.async PROVE AsyncInv'
        <4>1. CASE u.async = j
          BY <3>3, <3>8, <4>1, Zenon DEF AsyncInv
        <4>2. CASE AsyncKept(u, tab)
          BY <2>2, <3>8, <4>2, Zenon DEF AsyncKept
        <4> QED
          BY <3>6, <4>1, <4>2, Zenon
      <3>9. CASE tab' = u
        BY <3>8, <3>9, Zenon
      <3>10. CASE tab' = SetFlags(v, j, {"WAITING"})
        <4>1. Listed(tab') = Listed(v) /\ tab'.async = v.async
          BY <3>3, <3>4, <3>5, <3>10, SetFlagsLike
        <4> QED
          BY <3>5, <3>8, <4>1, Zenon
      <3>11. CASE tab' = SetAsync(v, j)
        <4>1. Pointers(v) /\ j \in Listed(v)
          BY <3>3, <3>5, Zenon DEF Pointers
        <4>2. ~UnknownZombie(v.job[j])
          <5>1. v.job[j].flags = u.job[j].flags \cup {"STARTED"} /\ "ZOMBIE" \notin u.job[j].flags
            BY <3>2, <3>3, <3>4, SetFlagsLike DEF Launched, Staged, v
          <5> QED
            BY <5>1 DEF UnknownZombie
        <4>3. AsyncSet(tab', v, j)
          BY <1>1, <3>5, <3>11, <4>1, SetAsyncFacts, Zenon
        <4>4. CASE tab'.async = j /\ j \in Listed(tab')
          BY <4>4, Zenon DEF AsyncInv
        <4>5. CASE AsyncKept(tab', v)
          <5>1. AsyncKept(tab', u)
            BY <3>5, <4>5, Zenon DEF AsyncKept
          <5>2. CASE u.async = j
            BY <3>3, <5>1, <5>2, Zenon DEF AsyncKept, AsyncInv
          <5>3. CASE AsyncKept(u, tab)
            BY <2>2, <5>1, <5>3, AsyncKeptFacts, Zenon
          <5> QED
            BY <3>6, <5>2, <5>3, Zenon
        <4> QED
          BY <4>2, <4>3, <4>4, <4>5, Zenon DEF AsyncSet
      <3> QED
        BY <3>7, <3>9, <3>10, <3>11, Zenon
    <2> QED
      BY <1>3, <2>3, <2>4, <2>5, StepCases, Zenon DEF Tame
  <1> QED
    BY <1>2, <1>3, Zenon

(* NoDangling: the job j_waitj() sleeps on and the `command` being read    *)
(* are in the list although the handler removes jobs meanwhile, because it *)
(* spares a job with JF_WAITING; last_job of a pipeline is, because no     *)
(* handler runs while a job is only partly started; and remove_job()       *)
(* clears last_job and async_job.  However often -m is changed, the only   *)
(* job that async_job is left pointing to after it has been freed is the   *)
(* one that bg was last given as async_job and a zombie nobody asked for.  *)
THEOREM PointersValid == Spec => []NoDangling
  <1>1. Init => Typed /\ PlaceInv /\ AsyncInv
    BY PlaceInit, Zenon
  <1>2. Typed /\ PlaceInv /\ AsyncInv /\ [Next]_vars => Typed' /\ PlaceInv' /\ AsyncInv'
    BY PlaceStep, AsyncStep, Zenon
  <1>3. PlaceInv /\ AsyncInv => NoDangling
    <2>1. {"check", "sleep", "woke"} \subseteq {"check", "sleep", "woke", "reading"}
      OBVIOUS
    <2> QED
      BY <2>1, Zenon DEF PlaceInv, AsyncInv, NoDangling
  <1> QED
    BY <1>1, <1>2, <1>3, PTL DEF Spec
-----------------------------------------------------------------------------
(* The processes of a pipeline that is being built. *)

\* j_waitj() is not building a pipeline.
LEMMA WaitNotPipe ==
    ASSUME NEW t, NEW j, NEW kind, WaitJ(t, j, kind)
    PROVE  main'.at # "pipe"
  <1>1. main' = [at |-> "check", j |-> j, kind |-> kind]
    BY Zenon DEF WaitJ
  <1>2. main'.at = "check"
    BY <1>1, Zenon
  <1> QED
    BY <1>2

\* Only exchild() gets the shell into a pipeline.
LEMMA PipeOnlyByExchild ==
    ASSUME Typed, PlaceInv, main'.at = "pipe",
           \/ Tame \/ (\E p \in Pids : Waitpid(p))
           \/ \E j \in JobIds, bg \in BOOLEAN : Resume(j, bg)
    PROVE  UNCHANGED main
  <1>1. main \in MainRec
    BY Zenon DEF Typed
  <1>2. main' # Idle /\ main' # [Idle EXCEPT !.at = "gone"]
        /\ main' # [at |-> "any", j |-> 0, kind |-> "any"]
    <2>1. /\ Idle.at # "pipe" /\ [Idle EXCEPT !.at = "gone"].at # "pipe"
          /\ [at |-> "any", j |-> 0, kind |-> "any"].at # "pipe"
      BY DEF Idle
    <2> QED
      BY <2>1, Zenon
  <1>3. \A a \in {"sleep", "woke", "check", "reading"} : main' # [main EXCEPT !.at = a]
    <2>1. \A a : [main EXCEPT !.at = a].at = a
      BY <1>1, Zenon DEF MainRec
    <2>2. "pipe" \notin {"sleep", "woke", "check", "reading"}
      OBVIOUS
    <2> QED
      BY <2>1, <2>2, Zenon
  <1>4. WakeUp => UNCHANGED main
    BY <1>3, Zenon DEF WakeUp
  <1>5. ~Errorf
    BY <1>2, Zenon DEF Errorf
  <1>6. \A t, j, kind : ~WaitJ(t, j, kind)
    BY WaitNotPipe, Zenon
  <1>7. CASE Child
    BY <1>7, ChildKern, Zenon DEF Typed
  <1>8. CASE Sigchld \/ SigchldReturns \/ Trapsig
    BY <1>4, <1>8, Zenon DEF Sigchld, SigchldReturns, Trapsig
  <1>9. CASE Change \/ Runtraps \/ Async \/ Notify \/ UNCHANGED vars
    BY <1>9, Zenon DEF Change, Runtraps, Async, Notify, vars
  <1>10. CASE (\E p \in Pids : Waitpid(p))
              \/ \E S \in SUBSET Listed(tab), z \in BOOLEAN : Jobs(S, z)
    BY <1>10, Zenon DEF Waitpid, Jobs
  <1>11. CASE Sleep \/ PipeFails \/ AbandonSub \/ SomeFork \/ StartLast
    BY <1>2, <1>3, <1>5, <1>11, Zenon
    DEF Sleep, PipeFails, AbandonSub, SomeFork, ForkFails, StartLast
  <1>12. CASE WaitLast \/ WaitAny \/ \E p \in Pids : WaitPid(p)
    BY <1>2, <1>6, <1>12, Zenon DEF WaitLast, WaitAny, WaitPid
  <1>13. CASE Woke \/ WaitDone
    BY <1>2, <1>3, <1>13, Zenon DEF Woke, WaitDone
  <1>14. CASE \E j \in JobIds, bg \in BOOLEAN : Resume(j, bg)
    <2>1. PICK j \in JobIds, bg \in BOOLEAN : Resume(j, bg)
      BY <1>14, ZenonT(60)
    <2>2. UNCHANGED main \/ \E t : WaitJ(t, j, "fg")
      BY <2>1, ZenonT(60) DEF Resume
    <2> QED
      BY <1>6, <2>2, Zenon
  <1> QED
    BY <1>7, <1>8, <1>9, <1>10, <1>11, <1>12, <1>13, <1>14, Zenon DEF Tame

\* A new process adds its pid to those of the job.
LEMMA PidsAppended ==
    ASSUME NEW job, NEW procs \in Seq(Proc), NEW r \in Proc, job.procs = Append(procs, r)
    PROVE  /\ job.procs \in Seq(Proc) /\ DOMAIN procs = 1..Len(procs) /\ Len(procs) \in Nat
           /\ Len(job.procs) = Len(procs) + 1 /\ DOMAIN job.procs = 1..(Len(procs) + 1)
           /\ job.procs[Len(procs) + 1] = r
           /\ \A i \in DOMAIN procs : i \in DOMAIN job.procs /\ job.procs[i] = procs[i]
           /\ \A i \in DOMAIN job.procs : i \in DOMAIN procs \/ i = Len(procs) + 1
           /\ PidsOf(job) = {procs[i].pid : i \in DOMAIN procs} \cup {r.pid}
  <1> DEFINE new == job.procs
             n == Len(procs)
  <1>1. /\ new \in Seq(Proc) /\ Len(new) = n + 1 /\ DOMAIN new = 1..(n + 1)
        /\ n \in Nat /\ DOMAIN procs = 1..n /\ new[n + 1] = r
        /\ \A i \in 1..n : new[i] = procs[i]
    BY AppendProperties
  <1> HIDE DEF new, n
  <1>2. \A i \in 1..n : i \in 1..(n + 1)
    BY <1>1
  <1>3. \A i \in 1..(n + 1) : i \in 1..n \/ i = n + 1
    BY <1>1
  <1>4. n + 1 \in 1..(n + 1)
    BY <1>1
  <1>5. PidsOf(job) = {procs[i].pid : i \in DOMAIN procs} \cup {r.pid}
    <2>1. PidsOf(job) = {new[i].pid : i \in DOMAIN new}
      BY Zenon DEF PidsOf, new
    <2> QED
      BY <1>1, <1>2, <1>3, <1>4, <2>1, Zenon
  <1> QED
    BY <1>1, <1>2, <1>3, <1>5, Zenon DEF new, n

\* While a pipeline is being built its processes stay children of it.
LEMMA UnreapedStep ==
    ASSUME Typed, PlaceInv, PipelineUnreaped, [Next]_vars, Typed', PlaceInv'
    PROVE  PipelineUnreaped'
  <1> SUFFICES ASSUME main'.at = "pipe"
               PROVE  PidsOf(tab'.job[main'.j]) \subseteq Children(main.j)'
    BY Zenon DEF PipelineUnreaped
  <1>1. CASE Tame
    <2>1. UNCHANGED main
      BY <1>1, PipeOnlyByExchild, Zenon
    <2>2. Like(tab', tab) /\ KernLike(kern', kern)
      BY <1>1, TameSafe, Zenon DEF SafeStep
    <2>3. main.j \in Listed(tab')
      BY <2>1, Zenon DEF PlaceInv
    <2>4. tab'.job[main.j].procs = tab.job[main.j].procs
      BY <2>2, <2>3, Zenon DEF Like, SameProcs
    <2>5. PidsOf(tab'.job[main.j]) = PidsOf(tab.job[main.j])
      BY <2>4, Zenon DEF PidsOf
    <2>6. Children(main.j) \subseteq Children(main.j)'
      BY <2>1, <2>2, Zenon DEF Children, KernLike
    <2>7. PidsOf(tab.job[main.j]) \subseteq Children(main.j)
      BY <2>1, Zenon DEF PipelineUnreaped
    <2> QED
      BY <2>1, <2>5, <2>6, <2>7, Zenon
  <1>2. CASE \E p \in Pids : Waitpid(p)
    <2>1. UNCHANGED main
      BY <1>2, PipeOnlyByExchild, Zenon
    <2> QED
      BY <1>2, <2>1, Zenon DEF Waitpid, PlaceInv
  <1>3. CASE \E j \in JobIds, bg \in BOOLEAN : Resume(j, bg)
    <2>1. UNCHANGED main
      BY <1>3, PipeOnlyByExchild, Zenon
    <2>2. main.at = "idle"
      BY <1>3, ZenonT(60) DEF Resume
    <2> QED
      BY <2>1, <2>2
  <1>4. CASE \E kind \in Kinds, pid \in FreePids, pipeo, recycled \in BOOLEAN :
                  Exchild(kind, pid, pipeo, recycled)
    <2>1. PICK kind \in Kinds, pid \in FreePids, pipeo, recycled \in BOOLEAN :
               Exchild(kind, pid, pipeo, recycled)
      BY <1>4, Zenon
    <2>2. PICK j, u, first : Launched(j, u, first, kind, pid)
      BY <2>1, ExchildFacts, Zenon
    <2>3. main' # Idle /\ ~WaitJ(SetFlags(u, j, {"STARTED"}), j, "fg")
      <3>1. Idle.at # "pipe"
        BY DEF Idle
      <3> QED
        BY <3>1, WaitNotPipe, Zenon
    <2>4. /\ Staged(u, tab, j, pid, first) /\ pid \in Pids /\ tab' = u
          /\ main' = [at |-> "pipe", j |-> j, kind |-> kind]
          /\ IF first THEN main.at = "idle" ELSE main.at = "pipe" /\ j = main.j
          /\ kern' = [kern EXCEPT ![pid] = [Free EXCEPT !.st = "run", !.job = j]]
      BY <2>2, <2>3, Zenon DEF Launched
    <2>5. main'.j = j /\ j \in JobIds /\ kern \in [Pids -> Kern] /\ tab \in Table
      BY <2>4, Zenon DEF Staged, Typed
    <2>6. /\ kern'[pid].st = "run" /\ kern'[pid].job = j
          /\ \A q \in Pids \ {pid} : kern'[q] = kern[q]
      BY <2>4, <2>5, NewChild, Zenon
    <2> DEFINE old == IF first THEN <<>> ELSE tab.job[j].procs
               r == [pid |-> pid, state |-> PRUNNING]
    <2>7. old \in Seq(Proc) /\ r \in Proc /\ r.pid = pid
      <3>1. tab.job[j].procs \in Seq(Proc)
        BY <2>5, Zenon DEF Table, Job
      <3>2. <<>> \in Seq(Proc)
        OBVIOUS
      <3>3. r \in Proc
        BY <2>4 DEF Proc, PRUNNING
      <3> QED
        BY <3>1, <3>2, <3>3, Zenon
    <2>8. u.job[j].procs = Append(old, r)
      BY <2>4, Zenon DEF Staged
    <2> HIDE DEF old, r
    <2>9. PidsOf(u.job[j]) = {old[i].pid : i \in DOMAIN old} \cup {pid}
      <3> DEFINE job == u.job[j]
      <3>1. job.procs = Append(old, r)
        BY <2>8
      <3> HIDE DEF job
      <3>2. PidsOf(job) = {old[i].pid : i \in DOMAIN old} \cup {r.pid}
        BY <2>7, <3>1, PidsAppended
      <3> QED
        BY <2>7, <3>2, Zenon DEF job
    <2>10. "run" # "free"
      OBVIOUS
    <2>11. pid \in Children(main.j)'
      BY <2>4, <2>5, <2>6, <2>10, Zenon DEF Children
    <2>12. ASSUME NEW i \in DOMAIN old
           PROVE  old[i].pid \in Children(main.j)'
      <3>1. ~first
        <4>1. first => old = <<>>
          BY Zenon DEF old
        <4> QED
          BY <2>12, <4>1
      <3>2. old[i].pid \in PidsOf(tab.job[j])
        BY <2>12, <3>1, Zenon DEF PidsOf, old
      <3>3. old[i].pid \in Children(main.j) /\ j = main.j
        BY <2>4, <3>1, <3>2, Zenon DEF PipelineUnreaped
      <3>4. old[i].pid \in Pids /\ kern[old[i].pid].st # "free" /\ kern[old[i].pid].job = j
        BY <3>3, Zenon DEF Children
      <3>5. kern[pid].st = "free"
        BY <2>1, Zenon DEF FreePids
      <3>6. old[i].pid # pid
        BY <3>4, <3>5, Zenon
      <3> QED
        BY <2>5, <2>6, <3>4, <3>6, Zenon DEF Children
    <2> QED
      BY <2>4, <2>5, <2>9, <2>11, <2>12, Zenon
  <1> QED
    BY <1>1, <1>2, <1>3, <1>4, StepCases, Zenon DEF Tame

(* PipelineUnreaped: the handler does nothing while a job is only partly   *)
(* started, and fork() does not return the pid of a child that is still    *)
(* there, so the stages of a half started pipeline are all children of the *)
(* shell that belong to it.                                                *)
THEOREM StagesThere == Spec => []PipelineUnreaped
  <1>1. Init => Typed /\ PlaceInv /\ PipelineUnreaped
    <2>1. Init => Typed /\ PlaceInv
      BY PlaceInit, Zenon
    <2>2. Init => main.at # "pipe"
      BY DEF Init, Idle
    <2> QED
      BY <2>1, <2>2, Zenon DEF PipelineUnreaped
  <1>2. Typed /\ PlaceInv /\ PipelineUnreaped /\ [Next]_vars
          => Typed' /\ PlaceInv' /\ PipelineUnreaped'
    BY PlaceStep, UnreapedStep, Zenon
  <1> QED
    BY <1>1, <1>2, PTL DEF Spec
-----------------------------------------------------------------------------
(* The states of the jobs, when a pid that the table still names is not    *)
(* given to a new process.                                                 *)

NoReuse == \A e \in Envs : ~e.reuse

\* What the table says stays true of fewer jobs and of children who have not ended.
LEMMA TableLike ==
    ASSUME NEW t, NEW u, NEW k, NEW l, TableInv(t, k), Like(u, t), KernLike(l, k)
    PROVE  TableInv(u, l)
  <1>1. Listed(u) \subseteq Listed(t) /\ NotFewer(u.njobs, t.njobs)
    BY Zenon DEF Like
  <1>2. JobIds \subseteq 0..MaxJobs
    BY JobsAssumption DEF JobIds
  <1>3. ASSUME NEW j \in Listed(u)
        PROVE  /\ j \in 0..MaxJobs
               /\ u.job[j].procs = t.job[j].procs /\ PidsOf(u.job[j]) = PidsOf(t.job[j])
               /\ StateInv(u.job[j])
               /\ u.job[j].procs \in Seq(Proc)
    <2>1. SameProcs(u.job[j], t.job[j]) /\ StateInv(t.job[j])
      BY <1>1, Zenon DEF Like, TableInv
    <2>2. u \in Table /\ j \in JobIds /\ j \in 0..MaxJobs
      BY <1>2, ListedJobs, Zenon DEF Like
    <2>3. u.job[j].procs \in Seq(Proc)
      BY <2>2, Zenon DEF Table, Job
    <2>4. u.job[j].procs = t.job[j].procs /\ PidsOf(u.job[j]) = PidsOf(t.job[j])
      BY <2>1, Zenon DEF SameProcs, PidsOf
    <2>5. LastProc(u.job[j]) = LastProc(t.job[j])
      BY <2>4, Zenon DEF LastProc
    <2>6. StateInv(u.job[j])
      BY <2>1, <2>5, Zenon DEF SameProcs, StateInv
    <2> QED
      BY <2>2, <2>3, <2>4, <2>6, Zenon
  <1>4. ASSUME NEW j \in Listed(u)
        PROVE  j <= u.njobs /\ ProcsInv(u.job[j], j, l) /\ StateInv(u.job[j])
    <2> DEFINE procs == t.job[j].procs
    <2>1. j <= t.njobs /\ ProcsInv(t.job[j], j, k)
      BY <1>1, Zenon DEF TableInv
    <2>2. procs \in Seq(Proc)
      BY <1>3, Zenon
    <2> HIDE DEF procs
    <2>3. \A i \in DOMAIN procs : procs[i].pid \in Pids
      <3>1. \A i \in DOMAIN procs : procs[i] \in Proc
        BY <2>2
      <3> QED
        BY <3>1, Zenon DEF Proc
    <2>4. ProcsInv(u.job[j], j, l)
      <3>1. u.job[j].procs = procs
        BY <1>3, Zenon DEF procs
      <3>2. /\ procs # <<>>
            /\ \A a, b \in DOMAIN procs : procs[a].pid = procs[b].pid => a = b
            /\ \A i \in DOMAIN procs :
                  IF procs[i].state \in Terminal THEN k[procs[i].pid].st = "free"
                  ELSE k[procs[i].pid].st # "free" /\ k[procs[i].pid].job = j
        BY <2>1, Zenon DEF ProcsInv, procs
      <3>3. \A q \in Pids : l[q].job = k[q].job /\ (l[q].st = "free" <=> k[q].st = "free")
        BY Zenon DEF KernLike
      <3>4. \A i \in DOMAIN procs :
               IF procs[i].state \in Terminal THEN l[procs[i].pid].st = "free"
               ELSE l[procs[i].pid].st # "free" /\ l[procs[i].pid].job = j
        BY <2>3, <3>2, <3>3, Zenon
      <3> QED
        BY <3>1, <3>2, <3>4, Zenon DEF ProcsInv
    <2> QED
      BY <1>1, <1>3, <2>1, <2>4, Zenon DEF NotFewer
  <1>5. \A i, j \in Listed(u) : PidsOf(u.job[i]) \cap PidsOf(u.job[j]) # {} => i = j
    BY <1>1, <1>3, Zenon DEF TableInv
  <1>6. \A p \in Pids : l[p].st # "free" =>
           l[p].job <= u.njobs /\ (l[p].job \in Listed(u) => p \in PidsOf(u.job[l[p].job]))
    <2>1. \A p \in Pids : /\ l[p].job \in 0..MaxJobs /\ l[p].job = k[p].job
                          /\ l[p].st = "free" <=> k[p].st = "free"
      BY Zenon DEF KernLike, Kern
    <2>2. \A p \in Pids : k[p].st # "free" =>
             k[p].job <= t.njobs /\ (k[p].job \in Listed(t) => p \in PidsOf(t.job[k[p].job]))
      BY Zenon DEF TableInv
    <2> QED
      BY <1>1, <1>3, <2>1, <2>2, ZenonT(60) DEF NotFewer
  <1> QED
    BY <1>4, <1>5, <1>6, Zenon DEF TableInv

\* A pid fork() returns is not in the table.
LEMMA FreshPid ==
    ASSUME ~env.reuse, NEW pid \in FreePids
    PROVE  /\ kern[pid].st = "free"
           /\ \A i \in Listed(tab) : pid \notin PidsOf(tab.job[i])
  <1>1. kern[pid].st = "free" /\ WithPid(tab, pid) = {}
    BY Zenon DEF FreePids
  <1> QED
    BY <1>1, Zenon DEF WithPid, Listed

\* A new process, of a new job or of the pipeline that is being built.
LEMMA StagedTable ==
    ASSUME Typed, PlaceInv, TableInv(tab, kern), ~env.reuse,
           NEW kind \in Kinds, NEW pid \in FreePids, NEW j, NEW u, NEW first,
           Launched(j, u, first, kind, pid)
    PROVE  TableInv(u, kern') /\ u \in Table /\ kern' \in [Pids -> Kern]
  <1>1. /\ Staged(u, tab, j, pid, first) /\ pid \in Pids
        /\ IF first THEN main.at = "idle" ELSE main.at = "pipe" /\ j = main.j
        /\ kern' = [kern EXCEPT ![pid] = [Free EXCEPT !.st = "run", !.job = j]]
    BY Zenon DEF Launched
  <1>2. /\ j \in JobIds /\ kern \in [Pids -> Kern] /\ tab \in Table /\ u \in Table
        /\ Listed(tab) \subseteq JobIds
    BY <1>1, ListedJobs, Zenon DEF Staged, Typed
  <1>3. /\ kern' \in [Pids -> Kern] /\ kern'[pid].st = "run" /\ kern'[pid].job = j
        /\ \A q \in Pids \ {pid} : kern'[q] = kern[q]
    BY <1>1, <1>2, NewChild, Zenon
  <1>4. /\ Listed(u) = Listed(tab) \cup {j}
        /\ \A i \in JobIds \ {j} : u.job[i] = tab.job[i]
        /\ "STARTED" \notin u.job[j].flags
        /\ u.job[j].procs = Append(IF first THEN <<>> ELSE tab.job[j].procs,
                                   [pid |-> pid, state |-> PRUNNING])
        /\ u.job[j].state = IF first THEN PRUNNING ELSE tab.job[j].state
        /\ IF first THEN j = tab.njobs + 1 /\ u.njobs = j
           ELSE j \in Listed(tab) /\ u.njobs = tab.njobs
    BY <1>1, Zenon DEF Staged
  <1>5. /\ kern[pid].st = "free"
        /\ \A i \in Listed(tab) : pid \notin PidsOf(tab.job[i])
    BY FreshPid, Zenon
  <1>6. /\ \A i \in Listed(tab) :
              i <= tab.njobs /\ ProcsInv(tab.job[i], i, kern) /\ StateInv(tab.job[i])
        /\ \A i, m \in Listed(tab) : PidsOf(tab.job[i]) \cap PidsOf(tab.job[m]) # {} => i = m
        /\ \A p \in Pids : kern[p].st # "free" =>
              /\ kern[p].job <= tab.njobs
              /\ kern[p].job \in Listed(tab) => p \in PidsOf(tab.job[kern[p].job])
    BY Zenon DEF TableInv
  <1>7. tab.njobs \in Nat /\ j \in Nat /\ Listed(tab) \subseteq Nat
        /\ \A p \in Pids : kern[p].job \in Nat
    <2>1. tab.njobs \in 0..MaxJobs /\ \A p \in Pids : kern[p].job \in 0..MaxJobs
      BY <1>2, Zenon DEF Table, Kern
    <2>2. 0..MaxJobs \subseteq Nat /\ JobIds \subseteq Nat
      BY JobsAssumption DEF JobIds
    <2> QED
      BY <1>2, <2>1, <2>2, Zenon
  <1>8. first => \A i \in Listed(tab) : i # j
    <2>1. ASSUME first, NEW i \in Listed(tab), i = j PROVE FALSE
      <3>1. j <= tab.njobs /\ j = tab.njobs + 1
        BY <1>4, <1>6, <2>1, Zenon
      <3> QED
        BY <1>7, <3>1
    <2> QED
      BY <2>1, Zenon
  <1>9. /\ j <= u.njobs /\ (\A i \in Listed(tab) : i <= u.njobs)
        /\ \A p \in Pids : kern[p].st # "free" => kern[p].job <= u.njobs
    <2>1. CASE first
      <3>1. u.njobs = tab.njobs + 1 /\ j = u.njobs
        BY <1>4, <2>1, Zenon
      <3>2. \A i \in Nat : i <= tab.njobs => i <= u.njobs
        BY <1>7, <3>1
      <3>3. j <= u.njobs
        BY <1>7, <3>1
      <3> QED
        BY <1>6, <1>7, <3>2, <3>3, Zenon
    <2>2. CASE ~first
      BY <1>4, <1>6, <2>2, Zenon
    <2> QED
      BY <2>1, <2>2, Zenon
  <1> DEFINE old == IF first THEN <<>> ELSE tab.job[j].procs
             r == [pid |-> pid, state |-> PRUNNING]
             job == u.job[j]
             n == Len(old)
  <1>10. old \in Seq(Proc) /\ r \in Proc /\ r.pid = pid /\ r.state = PRUNNING
    <2>1. tab.job[j].procs \in Seq(Proc)
      BY <1>2, Zenon DEF Table, Job
    <2>2. <<>> \in Seq(Proc)
      OBVIOUS
    <2>3. r \in Proc
      BY <1>1 DEF Proc, PRUNNING
    <2> QED
      BY <2>1, <2>2, <2>3, Zenon
  <1>11. job.procs = Append(old, r)
    BY <1>4, Zenon
  <1>12. \A i \in DOMAIN old : ~first /\ old = tab.job[j].procs
    <2>1. DOMAIN <<>> = {}
      OBVIOUS
    <2> QED
      BY <2>1, Zenon
  <1> HIDE DEF old, r, job
  <1>13. /\ job.procs \in Seq(Proc) /\ n \in Nat /\ Len(job.procs) = n + 1
         /\ job.procs[n + 1] = r /\ n + 1 \in DOMAIN job.procs
         /\ \A i \in DOMAIN old : i \in DOMAIN job.procs /\ job.procs[i] = old[i]
         /\ \A i \in DOMAIN job.procs : i \in DOMAIN old \/ i = n + 1
         /\ PidsOf(job) = {old[i].pid : i \in DOMAIN old} \cup {pid}
    <2>1. /\ job.procs \in Seq(Proc) /\ n \in Nat /\ Len(job.procs) = n + 1
          /\ job.procs[n + 1] = r /\ DOMAIN job.procs = 1..(n + 1)
          /\ \A i \in DOMAIN old : i \in DOMAIN job.procs /\ job.procs[i] = old[i]
          /\ \A i \in DOMAIN job.procs : i \in DOMAIN old \/ i = n + 1
          /\ PidsOf(job) = {old[i].pid : i \in DOMAIN old} \cup {r.pid}
      BY <1>10, <1>11, PidsAppended
    <2>2. n + 1 \in 1..(n + 1)
      BY <2>1
    <2> QED
      BY <1>10, <2>1, <2>2, Zenon
  <1> HIDE DEF n
  <1>14. /\ \A i \in DOMAIN old :
               /\ old[i].pid # pid /\ old[i].pid \in Pids
               /\ IF old[i].state \in Terminal THEN kern[old[i].pid].st = "free"
                  ELSE kern[old[i].pid].st # "free" /\ kern[old[i].pid].job = j
         /\ \A a, b \in DOMAIN old : old[a].pid = old[b].pid => a = b
    <2> SUFFICES ASSUME NEW a \in DOMAIN old, NEW b \in DOMAIN old
                 PROVE  /\ old[a].pid # pid /\ old[a].pid \in Pids
                        /\ IF old[a].state \in Terminal THEN kern[old[a].pid].st = "free"
                           ELSE kern[old[a].pid].st # "free" /\ kern[old[a].pid].job = j
                        /\ old[a].pid = old[b].pid => a = b
      BY Zenon
    <2>1. ~first /\ old = tab.job[j].procs /\ j \in Listed(tab)
      BY <1>4, <1>12, Zenon
    <2>2. ProcsInv(tab.job[j], j, kern) /\ pid \notin PidsOf(tab.job[j])
      BY <1>5, <1>6, <2>1, Zenon
    <2>3. old[a] \in Proc
      BY <1>10
    <2>4. old[a].pid \in Pids
      BY <2>3, Zenon DEF Proc
    <2>5. old[a].pid # pid
      BY <2>1, <2>2, Zenon DEF PidsOf
    <2> QED
      BY <2>1, <2>2, <2>4, <2>5, Zenon DEF ProcsInv
  <1>15. PRUNNING \notin Terminal /\ "run" # "free"
    BY DEF PRUNNING, Terminal, PEXITED, PSIGNALLED
  <1>16. ProcsInv(job, j, kern')
    <2>1. job.procs # <<>>
      BY <1>13
    <2>2. \A a, b \in DOMAIN job.procs : job.procs[a].pid = job.procs[b].pid => a = b
      BY <1>10, <1>13, <1>14, Zenon
    <2>3. ASSUME NEW i \in DOMAIN job.procs
          PROVE  IF job.procs[i].state \in Terminal THEN kern'[job.procs[i].pid].st = "free"
                 ELSE kern'[job.procs[i].pid].st # "free" /\ kern'[job.procs[i].pid].job = j
      <3>1. CASE i \in DOMAIN old
        <4>1. job.procs[i] = old[i] /\ kern'[old[i].pid] = kern[old[i].pid]
          BY <1>3, <1>13, <1>14, <3>1, Zenon
        <4> QED
          BY <1>14, <3>1, <4>1, Zenon
      <3>2. CASE i = n + 1
        BY <1>3, <1>10, <1>13, <1>15, <3>2, Zenon
      <3> QED
        BY <1>13, <3>1, <3>2, Zenon
    <2> QED
      BY <2>1, <2>2, <2>3, Zenon DEF ProcsInv
  <1>17. StateInv(job)
    <2>1. job.state = PRUNNING
      <3>1. CASE first
        BY <1>4, <3>1, Zenon DEF job
      <3>2. CASE ~first
        <4>1. "STARTED" \notin tab.job[j].flags /\ j \in Listed(tab)
          BY <1>1, <3>2, Zenon DEF PlaceInv
        <4>2. tab.job[j].state = PRUNNING
          BY <1>6, <4>1, Zenon DEF StateInv
        <4> QED
          BY <1>4, <3>2, <4>2, Zenon DEF job
      <3> QED
        BY <3>1, <3>2, Zenon
    <2> QED
      BY <1>10, <1>13, <1>15, <2>1, Zenon DEF StateInv
  <1>18. ASSUME NEW i \in Listed(tab), i # j
         PROVE  u.job[i] = tab.job[i] /\ ProcsInv(u.job[i], i, kern') /\ StateInv(u.job[i])
    <2>1. u.job[i] = tab.job[i] /\ i \in JobIds
      BY <1>2, <1>4, <1>18, Zenon
    <2> DEFINE procs == tab.job[i].procs
    <2>2. procs \in Seq(Proc)
      BY <1>2, <2>1, Zenon DEF Table, Job
    <2>3. \A a \in DOMAIN procs : procs[a].pid \in Pids
      <3> HIDE DEF procs
      <3>1. \A a \in DOMAIN procs : procs[a] \in Proc
        BY <2>2
      <3> QED
        BY <3>1, Zenon DEF Proc
    <2>4. \A a \in DOMAIN procs : procs[a].pid # pid
      BY <1>5, <1>18, Zenon DEF PidsOf
    <2>5. \A a \in DOMAIN procs : kern'[procs[a].pid] = kern[procs[a].pid]
      BY <1>3, <2>3, <2>4, Zenon
    <2>6. ProcsInv(tab.job[i], i, kern) /\ StateInv(tab.job[i])
      BY <1>6, <1>18, Zenon
    <2>7. ProcsInv(tab.job[i], i, kern')
      BY <2>5, <2>6, Zenon DEF ProcsInv
    <2> QED
      BY <2>1, <2>6, <2>7, Zenon
  <1>19. \A i \in Listed(tab) : i # j => PidsOf(u.job[i]) \cap PidsOf(job) = {}
    <2> SUFFICES ASSUME NEW i \in Listed(tab), i # j, NEW q \in PidsOf(u.job[i]), q \in PidsOf(job)
                 PROVE  FALSE
      BY Zenon
    <2>1. q \in PidsOf(tab.job[i])
      BY <1>18, Zenon
    <2>2. q # pid
      BY <1>5, <2>1, Zenon
    <2>3. PICK a \in DOMAIN old : q = old[a].pid
      BY <1>13, <2>2, Zenon
    <2>4. old = tab.job[j].procs /\ j \in Listed(tab)
      BY <1>4, <1>12, Zenon
    <2>5. q \in PidsOf(tab.job[j])
      BY <2>3, <2>4, Zenon DEF PidsOf
    <2> QED
      BY <1>6, <2>1, <2>4, <2>5, Zenon
  <1>20. \A i \in Listed(u) : i <= u.njobs /\ ProcsInv(u.job[i], i, kern') /\ StateInv(u.job[i])
    BY <1>4, <1>9, <1>16, <1>17, <1>18, Zenon DEF job
  <1>21. \A i, m \in Listed(u) : PidsOf(u.job[i]) \cap PidsOf(u.job[m]) # {} => i = m
    <2> SUFFICES ASSUME NEW i \in Listed(u), NEW m \in Listed(u), i # m,
                        PidsOf(u.job[i]) \cap PidsOf(u.job[m]) # {}
                 PROVE  FALSE
      BY Zenon
    <2>1. CASE i = j
      BY <1>4, <1>19, <2>1, Zenon DEF job
    <2>2. CASE m = j
      BY <1>4, <1>19, <2>2, Zenon DEF job
    <2>3. CASE i # j /\ m # j
      <3>1. i \in Listed(tab) /\ m \in Listed(tab)
        BY <1>4, <2>3, Zenon
      <3> QED
        BY <1>6, <1>18, <2>3, <3>1, Zenon
    <2> QED
      BY <2>1, <2>2, <2>3, Zenon
  <1>22. ASSUME NEW p \in Pids, kern'[p].st # "free"
         PROVE  /\ kern'[p].job <= u.njobs
                /\ kern'[p].job \in Listed(u) => p \in PidsOf(u.job[kern'[p].job])
    <2>1. CASE p = pid
      BY <1>3, <1>9, <1>13, <2>1, Zenon DEF job
    <2>2. CASE p # pid
      <3> DEFINE m == kern[p].job
      <3>1. kern'[p] = kern[p]
        BY <1>3, <2>2, Zenon
      <3>2. m <= tab.njobs /\ m <= u.njobs /\ (m \in Listed(tab) => p \in PidsOf(tab.job[m]))
        BY <1>6, <1>9, <1>22, <3>1, Zenon
      <3>3. m = j => ~first
        <4>1. ASSUME m = j, first PROVE FALSE
          <5>1. j <= tab.njobs /\ j = tab.njobs + 1
            BY <1>4, <3>2, <4>1, Zenon
          <5> QED
            BY <1>7, <5>1
        <4> QED
          BY <4>1, Zenon
      <3>4. ASSUME m \in Listed(u) PROVE p \in PidsOf(u.job[m])
        <4>1. CASE m = j
          <5>1. old = tab.job[j].procs /\ j \in Listed(tab)
            BY <1>4, <3>3, <4>1, Zenon DEF old
          <5>2. p \in PidsOf(tab.job[j])
            BY <3>2, <4>1, <5>1, Zenon
          <5>3. p \in {old[a].pid : a \in DOMAIN old}
            BY <5>1, <5>2, Zenon DEF PidsOf
          <5> QED
            BY <1>13, <4>1, <5>3, Zenon DEF job
        <4>2. CASE m # j
          <5>1. m \in Listed(tab)
            BY <1>4, <3>4, <4>2, Zenon
          <5> QED
            BY <1>18, <3>2, <4>2, <5>1, Zenon
        <4> QED
          BY <4>1, <4>2, Zenon
      <3> QED
        BY <3>1, <3>2, <3>4, Zenon
    <2> QED
      BY <2>1, <2>2, Zenon
  <1> QED
    BY <1>2, <1>3, <1>20, <1>21, <1>22, Zenon DEF TableInv

\* The handler has heard of child p: the state of its process, and then of its job.
LEMMA WaitpidTable ==
    ASSUME Typed, PlaceInv, TableInv(tab, kern), NewsInv, NEW p \in Pids, Waitpid(p)
    PROVE  TableInv(tab', kern') /\ ~PartlyStarted(tab')
  <1>1. PICK s \in 1..3 : WaitedFor(p, s)
    BY WaitpidCases, Zenon
  <1>2. /\ tab \in Table /\ Pointers(tab) /\ kern \in [Pids -> Kern]
        /\ Listed(tab) \subseteq JobIds
    BY ListedJobs, Zenon DEF Typed, PlaceInv, Pointers
  <1>3. handler /\ kern[p].st # "free" /\ tab' = Reported(tab, p, s)
    BY <1>1, Zenon DEF WaitedFor
  <1>4. PSTOPPED \notin Terminal /\ PRUNNING \notin Terminal
    BY DEF PSTOPPED, PRUNNING, Terminal, PEXITED, PSIGNALLED
  <1>5. /\ \A q \in Pids \ {p} :
              kern'[q].job = kern[q].job /\ (kern'[q].st = "free" <=> kern[q].st = "free")
        /\ IF s \in Terminal THEN kern'[p].st = "free"
           ELSE kern'[p].st # "free" /\ kern'[p].job = kern[p].job
    <2>1. Free.st = "free"
      BY Zenon DEF Free
    <2>2. CASE s \in Terminal /\ kern' = [kern EXCEPT ![p] = Free]
      <3>1. kern'[p] = Free /\ \A q \in Pids \ {p} : kern'[q] = kern[q]
        BY <1>2, <2>2, Zenon
      <3> QED
        BY <2>1, <2>2, <3>1, Zenon
    <2>3. CASE s = PSTOPPED /\ KernLike(kern', kern)
      BY <1>3, <1>4, <2>3, Zenon DEF KernLike
    <2> QED
      BY <1>1, <2>2, <2>3, Zenon DEF WaitedFor
  <1>6. /\ \A i \in Listed(tab) :
              i <= tab.njobs /\ ProcsInv(tab.job[i], i, kern) /\ StateInv(tab.job[i])
        /\ \A i, m \in Listed(tab) : PidsOf(tab.job[i]) \cap PidsOf(tab.job[m]) # {} => i = m
        /\ \A q \in Pids : kern[q].st # "free" =>
              /\ kern[q].job <= tab.njobs
              /\ kern[q].job \in Listed(tab) => q \in PidsOf(tab.job[kern[q].job])
    BY Zenon DEF TableInv
  <1>7. \A i \in Listed(tab) : "STARTED" \in tab.job[i].flags
    BY <1>3, Zenon DEF NewsInv, PartlyStarted
  <1>8. ASSUME NEW i \in Listed(tab), p \notin PidsOf(tab.job[i])
        PROVE  ProcsInv(tab.job[i], i, kern')
    <2> DEFINE procs == tab.job[i].procs
    <2>1. procs \in Seq(Proc)
      BY <1>2, Zenon DEF Table, Job
    <2>2. ProcsInv(tab.job[i], i, kern)
      BY <1>6, Zenon
    <2>3. \A a \in DOMAIN procs : procs[a].pid # p
      BY <1>8, Zenon DEF PidsOf
    <2>4. \A a \in DOMAIN procs : procs[a].pid \in Pids
      <3> HIDE DEF procs
      <3>1. \A a \in DOMAIN procs : procs[a] \in Proc
        BY <2>1
      <3> QED
        BY <3>1, Zenon DEF Proc
    <2>5. /\ procs # <<>>
          /\ \A a, b \in DOMAIN procs : procs[a].pid = procs[b].pid => a = b
          /\ \A a \in DOMAIN procs :
                IF procs[a].state \in Terminal THEN kern[procs[a].pid].st = "free"
                ELSE kern[procs[a].pid].st # "free" /\ kern[procs[a].pid].job = i
      BY <2>2, Zenon DEF ProcsInv
    <2> HIDE DEF procs
    <2>6. \A a \in DOMAIN procs :
             IF procs[a].state \in Terminal THEN kern'[procs[a].pid].st = "free"
             ELSE kern'[procs[a].pid].st # "free" /\ kern'[procs[a].pid].job = i
      BY <1>5, <2>3, <2>4, <2>5, Zenon
    <2> QED
      BY <2>5, <2>6, Zenon DEF ProcsInv, procs
  <1>9. \A q \in Pids : kern'[q].st # "free" => kern[q].st # "free" /\ kern'[q].job = kern[q].job
    BY <1>3, <1>5, Zenon
  <1>10. CASE WithPid(tab, p) = {}
    <2>1. tab' = tab
      BY <1>3, <1>10, Zenon DEF Reported
    <2>2. \A i \in Listed(tab) : p \notin PidsOf(tab.job[i])
      BY <1>10, Zenon DEF WithPid, Listed
    <2>3. TableInv(tab, kern')
      BY <1>6, <1>8, <1>9, <2>2, Zenon DEF TableInv
    <2>4. ~PartlyStarted(tab)
      BY <1>7, Zenon DEF PartlyStarted
    <2> QED
      BY <2>1, <2>3, <2>4, Zenon
  <1>11. CASE WithPid(tab, p) # {}
    <2>1. s \in 0..3
      OBVIOUS
    <2>2. PICK j \in Listed(tab) : \E n, x : Updated(x, tab, j, n, p, s) /\ Checked(tab', x, j)
      BY <1>2, <1>3, <1>11, <2>1, ReportedFacts, Zenon
    <2>3. PICK n, x : Updated(x, tab, j, n, p, s) /\ Checked(tab', x, j)
      BY <2>2, Zenon
    <2> DEFINE old == tab.job[j]
               mid == x.job[j]
               new == tab'.job[j]
    <2>4. /\ n \in DOMAIN old.procs /\ old.procs[n].pid = p /\ x \in Table
          /\ mid.flags = old.flags /\ mid.state = old.state
          /\ mid.procs \in Seq(Proc) /\ Len(mid.procs) = Len(old.procs)
          /\ \A i \in DOMAIN old.procs :
                /\ mid.procs[i].pid = old.procs[i].pid
                /\ mid.procs[i].state = IF i = n THEN s ELSE old.procs[i].state
      BY <2>3, Zenon DEF Updated, ProcChanged
    <2>5. /\ Listed(tab') \subseteq Listed(tab) /\ tab'.njobs = tab.njobs
          /\ \A i \in Listed(tab') \ {j} : tab'.job[i] = tab.job[i]
      BY <1>2, <2>3, Zenon DEF Updated, Checked
    <2>6. j \in Listed(tab') => /\ new.procs = mid.procs /\ mid.flags \subseteq new.flags
                                /\ Settled(new, mid)
      BY <2>3, Zenon DEF Checked
    <2>7. ProcsInv(old, j, kern) /\ StateInv(old) /\ "STARTED" \in old.flags
      BY <1>6, <1>7, Zenon
    <2>8. old.procs \in Seq(Proc)
      BY <1>2, Zenon DEF Table, Job
    <2> HIDE DEF old, mid, new
    <2>9. DOMAIN mid.procs = DOMAIN old.procs /\ mid.procs # <<>>
      <3>1. DOMAIN old.procs = 1..Len(old.procs) /\ DOMAIN mid.procs = 1..Len(mid.procs)
        BY <2>4, <2>8
      <3>2. n \in DOMAIN mid.procs
        BY <2>4, <3>1, Zenon
      <3>3. DOMAIN <<>> = {}
        OBVIOUS
      <3> QED
        BY <2>4, <3>1, <3>2, <3>3, Zenon
    <2>10. \A i \in DOMAIN old.procs : old.procs[i].pid \in Pids
      <3>1. \A i \in DOMAIN old.procs : old.procs[i] \in Proc
        BY <2>8
      <3> QED
        BY <3>1, Zenon DEF Proc
    <2>11. /\ \A a, b \in DOMAIN old.procs : old.procs[a].pid = old.procs[b].pid => a = b
           /\ \A i \in DOMAIN old.procs :
                 IF old.procs[i].state \in Terminal THEN kern[old.procs[i].pid].st = "free"
                 ELSE kern[old.procs[i].pid].st # "free" /\ kern[old.procs[i].pid].job = j
      BY <2>7, Zenon DEF ProcsInv
    <2>12. old.procs[n].state \notin Terminal /\ kern[p].job = j
      BY <1>3, <2>4, <2>11, Zenon
    <2>13. old.state \notin Terminal
      BY <2>4, <2>7, <2>12, Zenon DEF StateInv
    <2>14. ASSUME NEW i \in DOMAIN old.procs
           PROVE  IF mid.procs[i].state \in Terminal THEN kern'[mid.procs[i].pid].st = "free"
                  ELSE kern'[mid.procs[i].pid].st # "free" /\ kern'[mid.procs[i].pid].job = j
      <3>1. CASE i = n
        BY <1>5, <2>4, <2>12, <3>1, Zenon
      <3>2. CASE i # n
        <4>1. old.procs[i].pid \in Pids \ {p}
          BY <2>4, <2>10, <2>11, <3>2, Zenon
        <4>2. mid.procs[i].pid = old.procs[i].pid /\ mid.procs[i].state = old.procs[i].state
          BY <2>4, <3>2, Zenon
        <4> QED
          BY <1>5, <2>11, <4>1, <4>2, Zenon
      <3> QED
        BY <3>1, <3>2, Zenon
    <2>15. \A a, b \in DOMAIN mid.procs : mid.procs[a].pid = mid.procs[b].pid => a = b
      BY <2>4, <2>9, <2>11, Zenon
    <2>16. ASSUME j \in Listed(tab')
           PROVE  ProcsInv(new, j, kern')
      BY <2>6, <2>9, <2>14, <2>15, <2>16, Zenon DEF ProcsInv
    <2>17. ASSUME j \in Listed(tab')
           PROVE  StateInv(new)
      <3>1. Settled(new, mid) /\ new.procs = mid.procs /\ "STARTED" \in new.flags
            /\ "STARTED" \in mid.flags
        BY <2>4, <2>6, <2>7, <2>17, Zenon
      <3>2. CASE PRUNNING \in ProcStates(mid)
        <4>1. new.state = mid.state
          BY <3>1, <3>2, Zenon DEF Settled
        <4>2. new.state \notin Terminal
          BY <2>4, <2>13, <4>1, Zenon
        <4>3. \E i \in DOMAIN new.procs : new.procs[i].state = PRUNNING
          BY <3>1, <3>2, Zenon DEF ProcStates
        <4> QED
          BY <3>1, <4>2, <4>3, Zenon DEF StateInv
      <3>3. CASE PRUNNING \notin ProcStates(mid)
        <4>1. /\ new.state \in ProcStates(mid) /\ \A r \in ProcStates(mid) : r <= new.state
              /\ new.status = StatusOf(mid)
          BY <3>1, <3>3, Zenon DEF Settled
        <4>2. new.state # PRUNNING
          BY <3>3, <4>1, Zenon
        <4>3. ASSUME new.state \in Terminal
              PROVE  /\ \A i \in DOMAIN new.procs : new.procs[i].state \in Terminal
                     /\ new.status = LastProc(new).state
          <5>1. \A r \in ProcStates(mid) : r \in 0..3
            <6>1. \A i \in DOMAIN mid.procs : mid.procs[i] \in Proc
              BY <2>4
            <6> QED
              BY <6>1, Zenon DEF ProcStates, Proc
          <5>2. ASSUME NEW r \in ProcStates(mid) PROVE r \in Terminal
            <6>1. r \in 0..3 /\ r <= new.state /\ r # PRUNNING
              BY <3>3, <4>1, <5>1, Zenon
            <6>2. new.state \in {1, 2}
              BY <4>3, Zenon DEF Terminal, PEXITED, PSIGNALLED
            <6> QED
              BY <6>1, <6>2 DEF Terminal, PEXITED, PSIGNALLED, PRUNNING
          <5>3. Len(mid.procs) \in DOMAIN mid.procs
            BY <2>4, <2>9
          <5>4. LastProc(mid).state \in ProcStates(mid)
            BY <5>3, Zenon DEF LastProc, ProcStates
          <5>5. StatusOf(mid) = LastProc(mid).state
            BY <1>4, <5>2, <5>4, Zenon DEF StatusOf
          <5>6. LastProc(new) = LastProc(mid)
            BY <3>1, Zenon DEF LastProc
          <5>7. \A i \in DOMAIN new.procs : new.procs[i].state \in ProcStates(mid)
            BY <3>1, Zenon DEF ProcStates
          <5> QED
            BY <4>1, <5>2, <5>5, <5>6, <5>7, Zenon
        <4> QED
          BY <3>1, <4>2, <4>3, Zenon DEF StateInv
      <3> QED
        BY <3>2, <3>3, Zenon
    <2>18. ASSUME NEW i \in Listed(tab')
           PROVE  PidsOf(tab'.job[i]) = PidsOf(tab.job[i]) /\ i \in Listed(tab)
      <3>1. CASE i # j
        BY <2>5, <2>18, <3>1, Zenon
      <3>2. CASE i = j
        <4>1. new.procs = mid.procs
          BY <2>6, <2>18, <3>2, Zenon
        <4>2. PidsOf(new) = PidsOf(old)
          BY <2>4, <2>9, <4>1, ZenonT(60) DEF PidsOf
        <4> QED
          BY <3>2, <4>2, Zenon DEF new, old
      <3> QED
        BY <3>1, <3>2, Zenon
    <2>19. p \in PidsOf(tab.job[j])
      BY <2>4, Zenon DEF PidsOf, old
    <2>20. ASSUME NEW i \in Listed(tab')
           PROVE  i <= tab'.njobs /\ ProcsInv(tab'.job[i], i, kern') /\ StateInv(tab'.job[i])
      <3>1. i \in Listed(tab) /\ i <= tab'.njobs
        BY <1>6, <2>5, <2>18, Zenon
      <3>2. CASE i = j
        BY <2>16, <2>17, <2>20, <3>1, <3>2, Zenon DEF new
      <3>3. CASE i # j
        <4>1. tab'.job[i] = tab.job[i] /\ p \notin PidsOf(tab.job[i])
          BY <1>6, <2>5, <2>19, <3>1, <3>3, Zenon
        <4> QED
          BY <1>6, <1>8, <3>1, <4>1, Zenon
      <3> QED
        BY <3>2, <3>3, Zenon
    <2>21. \A i, m \in Listed(tab') : PidsOf(tab'.job[i]) \cap PidsOf(tab'.job[m]) # {} => i = m
      BY <1>6, <2>18, Zenon
    <2>22. \A q \in Pids : kern'[q].st # "free" =>
              /\ kern'[q].job <= tab'.njobs
              /\ kern'[q].job \in Listed(tab') => q \in PidsOf(tab'.job[kern'[q].job])
      <3> SUFFICES ASSUME NEW q \in Pids, kern'[q].st # "free"
                   PROVE  /\ kern'[q].job <= tab'.njobs
                          /\ kern'[q].job \in Listed(tab') => q \in PidsOf(tab'.job[kern'[q].job])
        BY Zenon
      <3> DEFINE m == kern[q].job
      <3>1. m <= tab.njobs /\ (m \in Listed(tab) => q \in PidsOf(tab.job[m])) /\ kern'[q].job = m
        BY <1>6, <1>9, Zenon
      <3> HIDE DEF m
      <3>2. m \in Listed(tab') => q \in PidsOf(tab'.job[m])
        BY <2>18, <3>1, Zenon
      <3> QED
        BY <2>5, <3>1, <3>2, Zenon
    <2>23. TableInv(tab', kern')
      BY <2>20, <2>21, <2>22, Zenon DEF TableInv
    <2>24. \A i \in Listed(tab') : "STARTED" \in tab'.job[i].flags
      <3> SUFFICES ASSUME NEW i \in Listed(tab') PROVE "STARTED" \in tab'.job[i].flags
        BY Zenon
      <3>1. CASE i # j
        BY <1>7, <2>5, <2>18, <3>1, Zenon
      <3>2. CASE i = j
        BY <2>4, <2>6, <2>7, <3>2, Zenon DEF new
      <3> QED
        BY <3>1, <3>2, Zenon
    <2> QED
      BY <2>23, <2>24, Zenon DEF PartlyStarted
  <1> QED
    BY <1>10, <1>11, Zenon

\* A job that is continued runs, and one that has ended stays so.
LEMMA ResumedTable ==
    ASSUME Typed, TableInv(tab, kern), NEW j \in Listed(tab), NEW u, Resumed(u, tab, j)
    PROVE  TableInv(u, kern)
  <1>1. tab \in Table /\ Listed(tab) \subseteq JobIds
    BY ListedJobs, Zenon DEF Typed
  <1> DEFINE old == tab.job[j]
             new == u.job[j]
  <1>2. /\ Listed(u) = Listed(tab) /\ u.njobs = tab.njobs
        /\ \A i \in Listed(tab) \ {j} : u.job[i] = tab.job[i]
        /\ new.flags = old.flags /\ new.status = old.status
        /\ new.procs = Continued(old.procs)
        /\ new.state = IF new.procs # old.procs \/ old.state = PRUNNING
                       THEN PRUNNING ELSE old.state
    BY <1>1, Zenon DEF Resumed
  <1>3. old.procs \in Seq(Proc)
    BY <1>1, Zenon DEF Table, Job
  <1>4. ProcsInv(old, j, kern) /\ StateInv(old)
    BY Zenon DEF TableInv
  <1> HIDE DEF old, new
  <1>5. /\ new.procs \in Seq(Proc) /\ Len(new.procs) = Len(old.procs)
        /\ DOMAIN new.procs = DOMAIN old.procs
        /\ \A i \in DOMAIN old.procs :
              /\ new.procs[i].pid = old.procs[i].pid
              /\ new.procs[i].state \in {PRUNNING, old.procs[i].state}
              /\ old.procs[i].state # PSTOPPED => new.procs[i] = old.procs[i]
              /\ old.procs[i].state = PSTOPPED => new.procs[i].state = PRUNNING
    BY <1>2, <1>3, ContinuedFacts
  <1>6. PSTOPPED \notin Terminal /\ PRUNNING \notin Terminal /\ PRUNNING # PSTOPPED
    BY DEF PSTOPPED, PRUNNING, Terminal, PEXITED, PSIGNALLED
  <1>7. PidsOf(new) = PidsOf(old)
    BY <1>5, ZenonT(60) DEF PidsOf
  <1>8. ProcsInv(new, j, kern)
    <2>1. new.procs # <<>>
      <3>1. old.procs # <<>>
        BY <1>4, Zenon DEF ProcsInv
      <3>2. Len(old.procs) # 0
        BY <1>3, <3>1
      <3>3. Len(new.procs) # 0
        BY <1>5, <3>2, Zenon
      <3> QED
        BY <3>3
    <2>2. \A i \in DOMAIN old.procs :
             new.procs[i].state \in Terminal <=> old.procs[i].state \in Terminal
      BY <1>5, <1>6, Zenon
    <2>3. \A a, b \in DOMAIN new.procs : new.procs[a].pid = new.procs[b].pid => a = b
      BY <1>4, <1>5, Zenon DEF ProcsInv
    <2>4. ASSUME NEW i \in DOMAIN old.procs
          PROVE  IF new.procs[i].state \in Terminal THEN kern[new.procs[i].pid].st = "free"
                 ELSE kern[new.procs[i].pid].st # "free" /\ kern[new.procs[i].pid].job = j
      <3>1. /\ new.procs[i].pid = old.procs[i].pid
            /\ new.procs[i].state \in Terminal <=> old.procs[i].state \in Terminal
        BY <1>5, <2>2, Zenon
      <3>2. IF old.procs[i].state \in Terminal THEN kern[old.procs[i].pid].st = "free"
            ELSE kern[old.procs[i].pid].st # "free" /\ kern[old.procs[i].pid].job = j
        BY <1>4, Zenon DEF ProcsInv
      <3> QED
        BY <3>1, <3>2, Zenon
    <2> QED
      BY <1>5, <2>1, <2>3, <2>4, Zenon DEF ProcsInv
  <1>9. StateInv(new)
    <2>1. CASE new.procs = old.procs
      <3>1. new.state = old.state
        BY <1>2, <2>1, Zenon
      <3>2. LastProc(new) = LastProc(old)
        BY <2>1, Zenon DEF LastProc
      <3> QED
        BY <1>2, <1>4, <2>1, <3>1, <3>2, Zenon DEF StateInv
    <2>2. CASE new.procs # old.procs
      <3>1. new.state = PRUNNING
        BY <1>2, <2>2, Zenon
      <3>2. \E i \in DOMAIN old.procs : new.procs[i] # old.procs[i]
        BY <1>3, <1>5, <2>2
      <3>3. \E i \in DOMAIN new.procs : new.procs[i].state = PRUNNING
        BY <1>5, <3>2, Zenon
      <3> QED
        BY <1>6, <3>1, <3>3, Zenon DEF StateInv
    <2> QED
      BY <2>1, <2>2, Zenon
  <1>10. \A i \in Listed(u) : PidsOf(u.job[i]) = PidsOf(tab.job[i])
    BY <1>2, <1>7, Zenon DEF old, new
  <1>11. \A i \in Listed(u) : i <= u.njobs /\ ProcsInv(u.job[i], i, kern) /\ StateInv(u.job[i])
    <2> SUFFICES ASSUME NEW i \in Listed(u)
                 PROVE  i <= u.njobs /\ ProcsInv(u.job[i], i, kern) /\ StateInv(u.job[i])
      BY Zenon
    <2>1. i \in Listed(tab) /\ i <= u.njobs /\ ProcsInv(tab.job[i], i, kern)
          /\ StateInv(tab.job[i])
      BY <1>2, Zenon DEF TableInv
    <2>2. CASE i = j
      BY <1>8, <1>9, <2>1, <2>2, Zenon DEF new
    <2>3. CASE i # j
      BY <1>2, <2>1, <2>3, Zenon
    <2> QED
      BY <2>2, <2>3, Zenon
  <1>12. \A i, m \in Listed(u) : PidsOf(u.job[i]) \cap PidsOf(u.job[m]) # {} => i = m
    BY <1>2, <1>10, Zenon DEF TableInv
  <1>13. \A q \in Pids : kern[q].st # "free" =>
            /\ kern[q].job <= u.njobs
            /\ kern[q].job \in Listed(u) => q \in PidsOf(u.job[kern[q].job])
    BY <1>2, <1>10, Zenon DEF TableInv
  <1> QED
    BY <1>11, <1>12, <1>13, Zenon DEF TableInv

\* The table and the children agree after every step.
LEMMA TableStep ==
    ASSUME Typed, PlaceInv, TableInv(tab, kern), NewsInv, ~env.reuse, [Next]_vars
    PROVE  TableInv(tab', kern')
  <1>1. tab \in Table /\ kern \in [Pids -> Kern]
    BY Zenon DEF Typed
  <1>2. CASE Tame
    BY <1>2, TameSafe, TableLike, Zenon DEF SafeStep
  <1>3. CASE \E p \in Pids : Waitpid(p)
    BY <1>3, WaitpidTable, Zenon
  <1>4. CASE \E j \in JobIds, bg \in BOOLEAN : Resume(j, bg)
    <2>1. PICK j \in JobIds, bg \in BOOLEAN : Resume(j, bg)
      BY <1>4, Zenon
    <2>2. j \in Listed(tab) /\ KernLike(kern', kern)
      BY <2>1, ResumeFacts, Zenon
    <2>3. PICK u : Resumed(u, tab, j) /\ Like(tab', u)
      BY <2>1, ResumeFacts, Zenon
    <2>4. TableInv(u, kern)
      BY <2>2, <2>3, ResumedTable, Zenon
    <2> QED
      BY <2>2, <2>3, <2>4, TableLike, Zenon
  <1>5. CASE \E kind \in Kinds, pid \in FreePids, pipeo, recycled \in BOOLEAN :
                  Exchild(kind, pid, pipeo, recycled)
    <2>1. PICK kind \in Kinds, pid \in FreePids, pipeo, recycled \in BOOLEAN :
               Exchild(kind, pid, pipeo, recycled)
      BY <1>5, Zenon
    <2>2. PICK j, u, first : Launched(j, u, first, kind, pid)
      BY <2>1, ExchildFacts, Zenon
    <2>3. TableInv(u, kern') /\ u \in Table /\ kern' \in [Pids -> Kern]
      BY <2>2, StagedTable, Zenon
    <2>4. KernLike(kern', kern')
      BY <2>3, Zenon DEF KernLike
    <2>5. tab' = u \/ Like(tab', SetFlags(u, j, {"STARTED"}))
      BY <2>2, StagedPlace, Zenon DEF Launched
    <2>6. Like(SetFlags(u, j, {"STARTED"}), u)
      <3>1. {"STARTED"} \in SUBSET Flags
        BY DEF Flags
      <3>2. j \in JobIds
        BY <2>2, Zenon DEF Launched, Staged
      <3> QED
        BY <2>3, <3>1, <3>2, SetFlagsLike
    <2>7. Like(tab', u)
      BY <2>3, <2>5, <2>6, LikeItself, LikeTransitive, Zenon
    <2> QED
      BY <2>3, <2>4, <2>7, TableLike, Zenon
  <1> QED
    BY <1>2, <1>3, <1>4, <1>5, StepCases, Zenon DEF Tame

\* Who is dead was dead, or the signal is pending or being handled.
LEMMA DeathSignalled ==
    ASSUME Typed, PlaceInv, [Next]_vars, NEW p \in Pids, kern'[p].st = "dead"
    PROVE  kern[p].st = "dead" \/ chld' \/ handler'
  <1>1. kern \in [Pids -> Kern] /\ kern[p] \in Kern
    BY Zenon DEF Typed
  <1>2. CASE UNCHANGED kern
    BY <1>2, Zenon
  <1>3. CASE Child
    BY <1>1, <1>3, ChildKern, Zenon
  <1>4. CASE \E q \in Pids : Waitpid(q)
    <2>1. handler /\ UNCHANGED handler
      BY <1>4, Zenon DEF Waitpid
    <2> QED
      BY <2>1
  <1>5. CASE \E j \in JobIds, bg \in BOOLEAN : Resume(j, bg)
    <2>1. PICK S : kern' = Cont(kern, S) \/ kern' = kern
      BY <1>5, ZenonT(60) DEF Resume
    <2> DEFINE r == [kern[p] EXCEPT !.st = "run", !.new = FALSE]
    <2>2. r.st = "run"
      BY <1>1, Zenon DEF Kern
    <2>3. kern'[p] = r \/ kern'[p] = kern[p]
      BY <2>1, Zenon DEF Cont
    <2> HIDE DEF r
    <2> QED
      BY <2>2, <2>3
  <1>6. CASE SomeFork
    <2>1. CASE UNCHANGED kern
      BY <2>1, Zenon
    <2>2. CASE /\ kern' = Kill(kern, Alive(tab.last))
               /\ chld' = (chld \/ Alive(tab.last) # {})
      <3>1. CASE p \in Alive(tab.last)
        <4>1. Alive(tab.last) # {}
          BY <3>1, Zenon
        <4> QED
          BY <2>2, <4>1
      <3>2. CASE p \notin Alive(tab.last)
        <4>1. kern'[p] = kern[p]
          BY <2>2, <3>2, Zenon DEF Kill
        <4> QED
          BY <4>1, Zenon
      <3> QED
        BY <3>1, <3>2, Zenon
    <2> QED
      BY <1>6, <2>1, <2>2, Zenon DEF SomeFork, ForkFails
  <1>7. CASE \E kind \in Kinds, pid \in FreePids, pipeo, recycled \in BOOLEAN :
                  Exchild(kind, pid, pipeo, recycled)
    <2>1. PICK kind \in Kinds, pid \in FreePids, pipeo, recycled \in BOOLEAN :
               Exchild(kind, pid, pipeo, recycled)
      BY <1>7, Zenon
    <2>2. PICK j, u, first : Launched(j, u, first, kind, pid)
      BY <2>1, ExchildFacts, Zenon
    <2>3. j \in JobIds /\ pid \in Pids
      BY <2>2, Zenon DEF Launched, Staged
    <2>4. kern'[pid].st = "run" /\ \A q \in Pids \ {pid} : kern'[q] = kern[q]
      BY <1>1, <2>2, <2>3, NewChild, Zenon DEF Launched
    <2>5. "run" # "dead"
      OBVIOUS
    <2> QED
      BY <2>4, <2>5, Zenon
  <1>8. CASE Sigchld \/ SigchldReturns
    BY <1>2, <1>8, Zenon DEF Sigchld, SigchldReturns
  <1>9. CASE Sleep \/ PipeFails \/ AbandonSub \/ Change \/ Trapsig \/ Runtraps \/ UNCHANGED vars
    BY <1>2, <1>9, Zenon DEF Sleep, PipeFails, AbandonSub, Change, Trapsig, Runtraps, vars
  <1>10. CASE WaitLast \/ WaitAny \/ (\E q \in Pids : WaitPid(q)) \/ Woke \/ WaitDone
    BY <1>2, <1>10, Zenon DEF WaitLast, WaitAny, WaitPid, Woke, WaitDone
  <1>11. CASE \/ (\E S \in SUBSET Listed(tab), z \in BOOLEAN : Jobs(S, z))
              \/ Notify \/ Async \/ StartLast
    BY <1>2, <1>11, Zenon DEF Jobs, Notify, Async, StartLast
  <1> QED
    BY <1>3, <1>4, <1>5, <1>6, <1>7, <1>8, <1>9, <1>10, <1>11, StepCases, Zenon

\* In the handler only its own loop changes the table.
LEMMA HandlerAlone ==
    ASSUME Typed, PlaceInv, [Next]_vars, handler
    PROVE  UNCHANGED tab \/ \E p \in Pids : Waitpid(p)
  <1>1. CASE Child
    BY <1>1, ChildKern, Zenon DEF Typed
  <1>2. CASE Sigchld \/ SigchldReturns \/ Sleep \/ PipeFails \/ AbandonSub \/ Change
             \/ Trapsig \/ Runtraps \/ UNCHANGED vars
    BY <1>2, Zenon DEF Sigchld, SigchldReturns, Sleep, PipeFails, AbandonSub, Change,
                       Trapsig, Runtraps, vars
  <1>3. CASE WaitLast \/ WaitAny \/ (\E q \in Pids : WaitPid(q)) \/ Woke \/ WaitDone
    BY <1>3, Zenon DEF WaitLast, WaitAny, WaitPid, Woke, WaitDone
  <1>4. CASE \/ (\E S \in SUBSET Listed(tab), z \in BOOLEAN : Jobs(S, z))
             \/ Notify \/ Async \/ StartLast \/ SomeFork
    BY <1>4, Zenon DEF Jobs, Notify, Async, StartLast, SomeFork, ForkFails
  <1>5. CASE \E j \in JobIds, bg \in BOOLEAN : Resume(j, bg)
    BY <1>5, ZenonT(60) DEF Resume
  <1>6. CASE \E kind \in Kinds, pid \in FreePids, pipeo, recycled \in BOOLEAN :
                  Exchild(kind, pid, pipeo, recycled)
    <2>1. PICK kind \in Kinds, pid \in FreePids, pipeo, recycled \in BOOLEAN :
               Exchild(kind, pid, pipeo, recycled)
      BY <1>6, Zenon
    <2>2. ~handler
      BY <2>1, ZenonT(60) DEF Exchild
    <2> QED
      BY <2>2, Zenon
  <1> QED
    BY <1>1, <1>2, <1>3, <1>4, <1>5, <1>6, StepCases, Zenon

\* The end of a child is never forgotten.
LEMMA NewsStep ==
    ASSUME Typed, PlaceInv, TableInv(tab, kern), NewsInv, ~env.reuse, [Next]_vars
    PROVE  NewsInv'
  <1>1. ASSUME NEW p \in Pids, kern'[p].st = "dead"
        PROVE  chld' \/ handler' \/ held_sigchld'
    <2>1. CASE chld' \/ handler'
      BY <2>1, Zenon
    <2>2. CASE kern[p].st = "dead"
      <3>1. chld \/ handler \/ held_sigchld
        BY <2>2, Zenon DEF NewsInv
      <3>2. ~SigchldReturns
        BY <2>2, Zenon DEF SigchldReturns, Reportable
      <3>3. CASE handler
        BY <3>2, <3>3, SignalStep, Zenon
      <3>4. CASE chld \/ held_sigchld
        BY <3>4, SignalStep, Zenon
      <3> QED
        BY <3>1, <3>3, <3>4, Zenon
    <2> QED
      BY <1>1, <2>1, <2>2, DeathSignalled, Zenon
  <1>2. ASSUME handler' PROVE ~PartlyStarted(tab')
    <2>1. CASE Sigchld /\ ~handler
      <3>1. ~PartlyStarted(tab) /\ UNCHANGED tab
        BY <1>2, <2>1, Zenon DEF Sigchld
      <3> QED
        BY <3>1, Zenon
    <2>2. CASE handler
      <3>1. ~PartlyStarted(tab)
        BY <2>2, Zenon DEF NewsInv
      <3>2. CASE UNCHANGED tab
        BY <3>1, <3>2, Zenon
      <3>3. CASE \E p \in Pids : Waitpid(p)
        BY <3>3, WaitpidTable, Zenon
      <3> QED
        BY <2>2, <3>2, <3>3, HandlerAlone, Zenon
    <2> QED
      BY <1>2, <2>1, <2>2, SignalStep, Zenon
  <1> QED
    BY <1>1, <1>2, Zenon DEF NewsInv

\* The whole invariant.
AgreeInv == Typed /\ PlaceInv /\ TableInv(tab, kern) /\ NewsInv /\ ~env.reuse

\* It is inductive.
LEMMA AgreeStep ==
    ASSUME AgreeInv, [Next]_vars
    PROVE  AgreeInv'
  <1>1. Typed /\ PlaceInv /\ TableInv(tab, kern) /\ NewsInv /\ ~env.reuse
    BY Zenon DEF AgreeInv
  <1>2. Typed' /\ PlaceInv'
    BY <1>1, PlaceStep, Zenon
  <1>3. TableInv(tab', kern') /\ NewsInv'
    BY <1>1, TableStep, NewsStep, Zenon
  <1>4. TableInv(tab, kern)'
    BY <1>3, Zenon DEF TableInv, Listed, ProcsInv, StateInv, PidsOf, LastProc
  <1>5. ~env'.reuse
    BY <1>1, EnvStep, Zenon DEF Typed
  <1> QED
    BY <1>2, <1>3, <1>4, <1>5, Zenon DEF AgreeInv

\* It holds at the start.
LEMMA AgreeInit ==
    ASSUME NoReuse, Init
    PROVE  AgreeInv
  <1>1. /\ Typed /\ PlaceInv /\ Listed(tab) = {} /\ \A p \in Pids : kern[p].st = "free"
    BY PlaceInit, Zenon
  <1>2. TableInv(tab, kern)
    BY <1>1, Zenon DEF TableInv
  <1>3. \A p \in Pids : kern[p].st # "dead"
    <2>1. "free" # "dead"
      OBVIOUS
    <2> QED
      BY <1>1, <2>1, Zenon
  <1>4. NewsInv
    BY <1>1, <1>3, Zenon DEF NewsInv, PartlyStarted
  <1>5. ~env.reuse
    BY Zenon DEF NoReuse, Init
  <1> QED
    BY <1>1, <1>2, <1>4, <1>5, Zenon DEF AgreeInv

(* StateTrue, when no pid that the table names is given out again: a job   *)
(* counts as ended only when all its processes have, and as running only   *)
(* while one of them runs or the news is on its way, because each child is *)
(* a process of exactly the job the kernel has it under, and the death of  *)
(* a child is pending, held or being handled until waitpid() returns it.   *)
THEOREM StatesTrue == NoReuse => (Spec => []StateTrue)
  <1> SUFFICES ASSUME NoReuse PROVE Spec => []StateTrue
    OBVIOUS
  <1>1. Init => AgreeInv
    BY AgreeInit, Zenon
  <1>2. AgreeInv /\ [Next]_vars => AgreeInv'
    BY AgreeStep, Zenon
  <1>3. AgreeInv => StateTrue
    <2> SUFFICES ASSUME AgreeInv PROVE StateTrue
      OBVIOUS
    <2>1. Typed /\ TableInv(tab, kern) /\ NewsInv
      BY Zenon DEF AgreeInv
    <2> SUFFICES ASSUME NEW j \in Listed(tab)
                 PROVE  LET job == tab.job[j] IN
                        /\ job.state \in Terminal =>
                              Alive(j) = {} /\ job.status = LastProc(job).state
                        /\ job.state = PRUNNING /\ Alive(j) = {} =>
                              chld \/ handler \/ held_sigchld
      BY Zenon DEF StateTrue
    <2> DEFINE job == tab.job[j]
    <2>2. ProcsInv(job, j, kern) /\ StateInv(job)
      BY <2>1, Zenon DEF TableInv
    <2>3. tab \in Table /\ j \in JobIds
      BY <2>1, ListedJobs, Zenon DEF Typed
    <2>4. job.procs \in Seq(Proc)
      BY <2>3, Zenon DEF Table, Job
    <2>5. ASSUME job.state \in Terminal, NEW p \in Alive(j) PROVE FALSE
      <3>1. p \in Pids /\ kern[p].st # "free" /\ kern[p].job = j
        BY <2>5, Zenon DEF Alive, Children
      <3>2. p \in PidsOf(job)
        BY <2>1, <3>1, Zenon DEF TableInv
      <3>3. PICK i \in DOMAIN job.procs : job.procs[i].pid = p
        BY <3>2, Zenon DEF PidsOf
      <3>4. job.procs[i].state \in Terminal
        BY <2>2, <2>5, Zenon DEF StateInv
      <3> QED
        BY <2>2, <3>1, <3>3, <3>4, Zenon DEF ProcsInv
    <2>6. ASSUME job.state = PRUNNING, Alive(j) = {} PROVE chld \/ handler \/ held_sigchld
      <3>1. PICK i \in DOMAIN job.procs : job.procs[i].state = PRUNNING
        BY <2>2, <2>6, Zenon DEF StateInv
      <3> DEFINE p == job.procs[i].pid
      <3>2. job.procs[i] \in Proc
        <4> HIDE DEF job
        <4> QED
          BY <2>4
      <3>3. p \in Pids
        BY <3>2, Zenon DEF Proc
      <3>4. PRUNNING \notin Terminal
        BY DEF PRUNNING, Terminal, PEXITED, PSIGNALLED
      <3>5. kern[p].st # "free" /\ kern[p].job = j
        BY <2>2, <3>1, <3>4, Zenon DEF ProcsInv
      <3>6. kern[p].st = "dead"
        BY <2>6, <3>3, <3>5, Zenon DEF Alive, Children
      <3> QED
        BY <2>1, <3>3, <3>6, Zenon DEF NewsInv
    <2>7. job.state \in Terminal => job.status = LastProc(job).state
      BY <2>2, Zenon DEF StateInv
    <2> QED
      BY <2>5, <2>6, <2>7, Zenon
  <1> QED
    BY <1>1, <1>2, <1>3, PTL DEF Spec
-----------------------------------------------------------------------------
(* The zombies: jobs that have ended and are kept for a wait to come. *)

\* nzombie is their number, and all their processes have been waited for.
ZombiesTrue(t) ==
    /\ t.nzombie = Cardinality(Zombies(t))
    /\ \A j \in Zombies(t) :
          /\ "STARTED" \in t.job[j].flags
          /\ \A i \in DOMAIN t.job[j].procs : t.job[j].procs[i].state \in Terminal

\* A set of jobs is finite.
LEMMA JobsFinite ==
    ASSUME NEW S, S \subseteq JobIds
    PROVE  IsFiniteSet(S) /\ Cardinality(S) \in Nat
  <1>1. 1 \in Int /\ MaxJobs \in Int
    BY JobsAssumption
  <1>2. IsFiniteSet(JobIds)
    BY <1>1, FS_Interval, Zenon DEF JobIds
  <1> QED
    BY <1>2, FS_Subset, FS_CardinalityType, Zenon

(* Oldest(S, n) is all of S when S has at most n members, and leaves at    *)
(* most |S| - n otherwise: a member has fewer than |S| older ones, and no  *)
(* two members have the same number of them.                               *)
LEMMA OldestFacts ==
    ASSUME NEW S, S \subseteq JobIds, NEW n \in Int
    PROVE  /\ Oldest(S, n) \subseteq S
           /\ Cardinality(S) <= n => Oldest(S, n) = S
           /\ n <= 0 => Oldest(S, n) = {}
           /\ 0 <= n /\ n <= Cardinality(S) =>
                 Cardinality(S \ Oldest(S, n)) <= Cardinality(S) - n
  <1> DEFINE Older(j) == {k \in S : k < j}
             c == Cardinality(S)
             rest == S \ Oldest(S, n)
  <1>1. IsFiniteSet(S) /\ c \in Nat
    BY JobsFinite, Zenon
  <1>2. S \subseteq Int
    BY JobsAssumption DEF JobIds
  <1>3. ASSUME NEW j \in S
        PROVE  /\ IsFiniteSet(Older(j)) /\ Cardinality(Older(j)) \in Nat
               /\ Cardinality(Older(j)) < c
    <2>1. Older(j) \subseteq S /\ j \notin Older(j)
      BY <1>2
    <2>2. IsFiniteSet(Older(j)) /\ Cardinality(Older(j)) \in Nat
      BY <1>1, <2>1, FS_Subset, FS_CardinalityType, Zenon
    <2>3. Cardinality(Older(j)) <= c /\ (c = Cardinality(Older(j)) => S = Older(j))
      BY <1>1, <2>1, FS_Subset, Zenon
    <2>4. S # Older(j)
      BY <2>1, Zenon
    <2> HIDE DEF Older, c
    <2> QED
      BY <1>1, <2>2, <2>3, <2>4
  <1>4. Oldest(S, n) = {j \in S : Cardinality(Older(j)) < n}
    BY Zenon DEF Oldest
  <1>5. ASSUME NEW i \in S, NEW j \in S, i < j
        PROVE  Cardinality(Older(i)) < Cardinality(Older(j))
    <2>1. Older(i) \subseteq Older(j) /\ i \in Older(j) /\ i \notin Older(i)
      <3>1. i \in Int /\ j \in Int /\ \A k \in S : k \in Int
        BY <1>2, Zenon
      <3>2. ~(i < i) /\ \A k \in S : k < i => k < j
        BY <1>5, <3>1
      <3> QED
        BY <1>5, <3>2, Zenon
    <2>2. Older(i) # Older(j)
      BY <2>1, Zenon
    <2>3. /\ Cardinality(Older(i)) <= Cardinality(Older(j))
          /\ Cardinality(Older(j)) = Cardinality(Older(i)) => Older(j) = Older(i)
      BY <1>3, <2>1, FS_Subset, Zenon
    <2>4. Cardinality(Older(i)) \in Nat /\ Cardinality(Older(j)) \in Nat
      BY <1>3, Zenon
    <2> HIDE DEF Older
    <2> QED
      BY <2>2, <2>3, <2>4
  <1> HIDE DEF Older, c
  <1>6. ASSUME c <= n PROVE Oldest(S, n) = S
    <2>1. \A j \in S : Cardinality(Older(j)) < n
      BY <1>1, <1>3, <1>6
    <2> QED
      BY <1>4, <2>1, Zenon
  <1>7. ASSUME n <= 0 PROVE Oldest(S, n) = {}
    BY <1>3, <1>4, <1>7
  <1>8. ASSUME 0 <= n, n <= c PROVE Cardinality(rest) <= c - n
    <2> DEFINE f == [j \in rest |-> Cardinality(Older(j))]
               m == c - 1
    <2>1. m \in Int /\ n <= m + 1
      BY <1>1, <1>8
    <2>2. \A j \in rest : j \in S /\ ~(Cardinality(Older(j)) < n)
      BY <1>4, Zenon
    <2>3. \A j \in rest : Cardinality(Older(j)) \in n..m
      BY <1>1, <1>3, <2>2
    <2>4. f \in [rest -> n..m]
      BY <2>3, Zenon
    <2>5. \A i, j \in rest : f[i] = f[j] => i = j
      <3> SUFFICES ASSUME NEW i \in rest, NEW j \in rest, f[i] = f[j] PROVE i = j
        BY Zenon
      <3>1. f[i] = Cardinality(Older(i)) /\ f[j] = Cardinality(Older(j)) /\ i \in S /\ j \in S
        BY Zenon
      <3>2. Cardinality(Older(i)) = Cardinality(Older(j))
        BY <3>1, Zenon
      <3>3. Cardinality(Older(i)) \in Nat
        BY <1>3, <3>1, Zenon
      <3> HIDE DEF f
      <3> QED
        BY <1>2, <1>5, <3>1, <3>2, <3>3
    <2>6. f \in Injection(rest, n..m)
      <3> HIDE DEF f, rest
      <3> QED
        BY <2>4, <2>5, Zenon DEF Injection, IsInjective
    <2>7. IsFiniteSet(n..m) /\ Cardinality(n..m) = IF n > m THEN 0 ELSE m - n + 1
      BY <2>1, FS_Interval
    <2>8. Cardinality(rest) <= Cardinality(n..m)
      <3> DEFINE T == n..m
      <3>1. f \in Injection(rest, T) /\ IsFiniteSet(T)
        BY <2>6, <2>7, Zenon
      <3> HIDE DEF f, rest, T
      <3>2. Cardinality(rest) <= Cardinality(T)
        BY <3>1, FS_Injection, Zenon
      <3> QED
        BY <3>2 DEF T
    <2>9. Cardinality(n..m) = c - n
      BY <1>1, <1>8, <2>7
    <2> HIDE DEF rest, m
    <2> QED
      BY <2>8, <2>9, Zenon
  <1> QED
    BY <1>4, <1>6, <1>7, <1>8, Zenon DEF c

\* The zombies of a table are jobs of the list.
LEMMA ZombiesFinite ==
    ASSUME NEW t \in Table
    PROVE  /\ Zombies(t) \subseteq Listed(t) /\ Zombies(t) \subseteq JobIds
           /\ IsFiniteSet(Zombies(t)) /\ Cardinality(Zombies(t)) \in Nat
  <1>1. Zombies(t) \subseteq Listed(t) /\ Zombies(t) \subseteq JobIds
    BY ListedJobs, Zenon DEF Zombies
  <1> QED
    BY <1>1, JobsFinite, Zenon

\* A change that concerns no zombie.
LEMMA SameZombiesTrue ==
    ASSUME NEW t, NEW u, SameZombies(u, t), ZombiesTrue(t)
    PROVE  ZombiesTrue(u) /\ Zombies(u) = Zombies(t)
  <1>1. Zombies(u) = Zombies(t)
    BY Zenon DEF SameZombies, Zombies
  <1>2. \A j \in Zombies(t) : j \in Listed(t)
    BY Zenon DEF Zombies
  <1> QED
    BY <1>1, <1>2, Zenon DEF SameZombies, ZombiesTrue, SameProcs

\* remove_job() counts the zombies that it removes.
LEMMA RemoveJobsZombies ==
    ASSUME NEW t \in Table, NEW S, ZombiesTrue(t)
    PROVE  LET u == RemoveJobs(t, S) IN
           /\ ZombiesTrue(u) /\ Zombies(u) = Zombies(t) \ S
           /\ u.async \in {0, t.async} /\ Listed(u) = Listed(t) \ S
  <1> DEFINE u == RemoveJobs(t, S)
             c == Cardinality(Zombies(t))
             d == Cardinality(S \cap Zombies(t))
  <1>1. /\ Shrunk(u, t) /\ Listed(u) = Listed(t) \ S
        /\ u.async = (IF t.async \in S \cap Listed(t) THEN 0 ELSE t.async)
        /\ u.nzombie = t.nzombie - d
    BY RemoveJobsFacts
  <1> HIDE DEF u
  <1>2. Zombies(u) = Zombies(t) \ S
    BY <1>1, Zenon DEF Zombies, Shrunk
  <1>3. Cardinality(Zombies(u)) = c - Cardinality(Zombies(t) \cap S)
    BY <1>2, ZombiesFinite, FS_Difference, Zenon
  <1>4. Zombies(t) \cap S = S \cap Zombies(t)
    OBVIOUS
  <1>5. u.nzombie = Cardinality(Zombies(u))
    <2>1. t.nzombie = c
      BY Zenon DEF ZombiesTrue
    <2> QED
      BY <1>1, <1>3, <1>4, <2>1, Zenon
  <1>6. \A j \in Zombies(u) : j \in Zombies(t) /\ u.job[j] = t.job[j]
    BY <1>1, <1>2, ZombiesFinite, Zenon DEF Zombies, Shrunk
  <1>7. ZombiesTrue(u)
    BY <1>5, <1>6, Zenon DEF ZombiesTrue
  <1> QED
    BY <1>1, <1>2, <1>7, Zenon DEF u

(* j_set_async(): the count stays right, at most child_max other zombies   *)
(* stay, and only zombies go: the last asynchronous job if $! was not used *)
(* for it, and others when there are more than child_max.                  *)
LEMMA SetAsyncZombies ==
    ASSUME NEW t \in Table, NEW j \in Listed(t), Pointers(t), env \in Env, ZombiesTrue(t)
    PROVE  LET u == SetAsync(t, j) IN
           /\ ZombiesTrue(u)
           /\ u.async \in {0, t.async, j}
           /\ u.async \notin {0, t.async} /\ env.child_max >= 0 =>
                 Cardinality(Zombies(u) \ {j}) <= env.child_max
           /\ \A i \in Listed(t) \ Listed(u) :
                 "KNOWN" \in t.job[i].flags => Cardinality(Zombies(t)) > env.child_max
  <1> DEFINE t1 == IF t.async # 0 /\ UnknownZombie(t.job[t.async])
                   THEN RemoveJobs(t, {t.async}) ELSE t
             others == Zombies(t1) \ {j}
             excess == t1.nzombie - env.child_max
             old == Oldest(others, excess)
             t0 == RemoveJobs(t1, old)
             t2 == [t0 EXCEPT !.async = j]
             t3 == [t2 EXCEPT !.nzombie = 0]
             u == SetAsync(t, j)
             c == Cardinality(Zombies(t1))
             max == env.child_max
             Known(i) == "KNOWN" \in t.job[i].flags
  <1>1. u = IF "STARTED" \notin t1.job[j].flags THEN t1
            ELSE IF /\ excess > Cardinality(others)
                    /\ "ZOMBIE" \notin t2.job[j].flags \/ t2.nzombie # 1
            THEN t3 ELSE t2
    BY Zenon DEF SetAsync
  <1>2. /\ t1 \in Table /\ ZombiesTrue(t1) /\ Zombies(t1) \subseteq Zombies(t)
        /\ t1.async \in {0, t.async} /\ Listed(t1) \subseteq Listed(t)
        /\ \A i \in Listed(t) \ Listed(t1) : ~Known(i)
    <2>1. CASE t1 = t
      BY <2>1, Zenon
    <2>2. CASE t1 = RemoveJobs(t, {t.async}) /\ UnknownZombie(t.job[t.async])
      <3> HIDE DEF t1
      <3>1. /\ ZombiesTrue(t1) /\ Zombies(t1) = Zombies(t) \ {t.async}
            /\ t1.async \in {0, t.async} /\ Listed(t1) = Listed(t) \ {t.async}
        BY <2>2, RemoveJobsZombies
      <3>2. Shrunk(t1, t)
        BY <2>2, RemoveJobsFacts, ZenonT(60)
      <3>3. "KNOWN" \notin t.job[t.async].flags
        <4>1. "KNOWN" \notin {"ZOMBIE"}
          OBVIOUS
        <4> QED
          BY <2>2, <4>1, Zenon DEF UnknownZombie
      <3> QED
        BY <3>1, <3>2, <3>3, Zenon DEF Shrunk
    <2> QED
      BY <2>1, <2>2, Zenon
  <1> HIDE DEF t1, u, Known
  <1>3. c \in Nat /\ t1.nzombie = c /\ max \in Int /\ Cardinality(Zombies(t)) \in Nat
        /\ c <= Cardinality(Zombies(t))
    <2>1. IsFiniteSet(Zombies(t)) /\ Cardinality(Zombies(t)) \in Nat /\ c \in Nat
      BY <1>2, ZombiesFinite, Zenon
    <2>2. c <= Cardinality(Zombies(t))
      BY <1>2, <2>1, FS_Subset, Zenon
    <2>3. max \in Int
      BY Zenon DEF Env
    <2>4. t1.nzombie = c
      BY <1>2, Zenon DEF ZombiesTrue
    <2> QED
      BY <2>1, <2>2, <2>3, <2>4, Zenon
  <1>4. excess = c - max /\ excess \in Int
    BY <1>3
  <1>5. /\ others \subseteq JobIds /\ IsFiniteSet(others) /\ Cardinality(others) \in Nat
        /\ Cardinality(others) = IF j \in Zombies(t1) THEN c - 1 ELSE c
    <2>1. Zombies(t1) \subseteq JobIds /\ IsFiniteSet(Zombies(t1))
      BY <1>2, ZombiesFinite, Zenon
    <2>2. others \subseteq JobIds
      BY <2>1, Zenon
    <2> QED
      BY <2>1, <2>2, JobsFinite, FS_RemoveElement, Zenon
  <1> HIDE DEF others, excess, c, max
  <1>6. /\ old \subseteq others
        /\ Cardinality(others) <= excess => old = others
        /\ excess <= 0 => old = {}
        /\ 0 <= excess /\ excess <= Cardinality(others) =>
              Cardinality(others \ old) <= Cardinality(others) - excess
    BY <1>4, <1>5, OldestFacts, Zenon
  <1> HIDE DEF old
  <1>7. CASE u = t1
    BY <1>2, <1>7, Zenon DEF u, Known
  <1>8. CASE u # t1 /\ "STARTED" \in t1.job[j].flags
    <2>1. /\ ZombiesTrue(t0) /\ Zombies(t0) = Zombies(t1) \ old
          /\ t0.async \in {0, t1.async} /\ Listed(t0) = Listed(t1) \ old
      BY <1>2, RemoveJobsZombies
    <2>2. Shrunk(t0, t1)
      BY <1>2, RemoveJobsFacts
    <2> HIDE DEF t0
    <2>3. j \in 0..MaxJobs /\ 0 \in Int /\ t0 \in Table
      <3>1. j \in JobIds
        BY ListedJobs, Zenon
      <3>2. j \in 0..MaxJobs /\ 0 \in Int
        BY <3>1, JobsAssumption DEF JobIds
      <3> QED
        BY <2>2, <3>2, Zenon DEF Shrunk
    <2>4. /\ Listed(t2) = Listed(t0) /\ t2.async = j /\ t2.job = t0.job /\ Shrunk(t2, t0)
          /\ t2.nzombie = t0.nzombie
      BY <2>3, FieldFacts
    <2> HIDE DEF t2
    <2>5. Listed(t3) = Listed(t2) /\ t3.async = t2.async /\ t3.job = t2.job /\ t3.nzombie = 0
      <3>1. t2 \in Table
        BY <2>4, Zenon DEF Shrunk
      <3> QED
        BY <2>3, <3>1, FieldFacts, ZenonT(60)
    <2> HIDE DEF t3
    <2>6. Zombies(t2) = Zombies(t0) /\ Zombies(t3) = Zombies(t2) /\ ZombiesTrue(t2)
      BY <2>1, <2>4, <2>5, Zenon DEF Zombies, ZombiesTrue
    <2>7. u \in {t2, t3} /\ (u = t3 => u = t2 \/
                              /\ excess > Cardinality(others)
                              /\ "ZOMBIE" \notin t2.job[j].flags \/ t2.nzombie # 1)
      BY <1>1, <1>8, Zenon
    <2>8. ZombiesTrue(u)
      <3>1. CASE u = t2
        BY <2>6, <3>1, Zenon
      <3>2. CASE /\ u = t3 /\ excess > Cardinality(others)
                 /\ "ZOMBIE" \notin t2.job[j].flags \/ t2.nzombie # 1
        <4>1. Cardinality(others) <= excess
          BY <1>4, <1>5, <3>2
        <4>2. Zombies(t2) = Zombies(t1) \ others
          BY <1>6, <2>1, <2>6, <4>1, Zenon
        <4>3. Zombies(t2) \subseteq {j}
          BY <4>2, Zenon DEF others
        <4>4. Zombies(t2) # {j}
          <5>1. Cardinality({j}) = 1
            BY FS_Singleton, Zenon
          <5>2. t2.nzombie = Cardinality(Zombies(t2))
            BY <2>6, Zenon DEF ZombiesTrue
          <5>3. j \in Zombies(t2) => "ZOMBIE" \in t2.job[j].flags
            BY Zenon DEF Zombies
          <5> QED
            BY <3>2, <5>1, <5>2, <5>3, Zenon
        <4>5. Zombies(t2) = {}
          BY <4>3, <4>4, Zenon
        <4>6. Zombies(t3) = {} /\ t3.nzombie = 0 /\ Cardinality({}) = 0
          BY <2>5, <2>6, <4>5, FS_EmptySet, Zenon
        <4> QED
          BY <3>2, <4>6, Zenon DEF ZombiesTrue
      <3> QED
        BY <2>7, <3>1, <3>2, Zenon
    <2>9. Zombies(u) \ {j} = others \ old
      BY <2>1, <2>6, <2>7, Zenon DEF others
    <2>10. ASSUME max >= 0 PROVE Cardinality(Zombies(u) \ {j}) <= max
      <3>1. Cardinality(others \ old) \in Nat
        <4>1. others \ old \subseteq JobIds
          BY <1>5, Zenon
        <4> QED
          BY <4>1, JobsFinite, Zenon
      <3>2. CASE excess <= 0
        <4>1. others \ old = others
          BY <1>6, <3>2, Zenon
        <4> QED
          BY <1>3, <1>4, <1>5, <2>9, <2>10, <3>2, <4>1
      <3>3. CASE excess > 0 /\ excess <= Cardinality(others)
        <4>1. Cardinality(others \ old) <= Cardinality(others) - excess
          BY <1>4, <1>6, <3>3
        <4>2. Cardinality(others) <= c
          BY <1>3, <1>5
        <4>3. Cardinality(others) - excess <= max
          BY <1>3, <1>4, <1>5, <4>2
        <4>4. Cardinality(others \ old) <= max
          BY <1>3, <1>4, <1>5, <3>1, <4>1, <4>3
        <4> QED
          BY <2>9, <4>4, Zenon
      <3>4. CASE excess > Cardinality(others)
        <4>1. old = others
          BY <1>4, <1>5, <1>6, <3>4
        <4>2. others \ old = {} /\ Cardinality({}) = 0
          BY <4>1, FS_EmptySet, Zenon
        <4> QED
          BY <1>3, <2>9, <2>10, <4>2
      <3> QED
        BY <1>4, <1>5, <3>2, <3>3, <3>4
    <2>11. ASSUME NEW i \in Listed(t) \ Listed(u), Known(i)
           PROVE  Cardinality(Zombies(t)) > max
      <3>1. i \in Listed(t1)
        BY <1>2, <2>11, Zenon
      <3>2. i \in old
        BY <2>1, <2>4, <2>5, <2>7, <2>11, <3>1, Zenon
      <3>3. ~(excess <= 0)
        BY <1>6, <3>2, Zenon
      <3> QED
        BY <1>3, <1>4, <3>3
    <2>12. u.async = j
      BY <2>4, <2>5, <2>7, Zenon
    <2> QED
      BY <2>8, <2>10, <2>11, <2>12, Zenon DEF u, Known, max
  <1> QED
    BY <1>1, <1>7, <1>8, Zenon

\* check_job() of a job that is not yet a zombie.
LEMMA CheckedZombiesTrue ==
    ASSUME NEW t \in Table, NEW j \in Listed(t), NEW u \in Table, CheckedZombies(u, t, j),
           ZombiesTrue(t), j \notin Zombies(t)
    PROVE  /\ ZombiesTrue(u) /\ u.async \in {0, t.async}
           /\ \A i \in Listed(t) \ Listed(u) :
                 i = j /\ ("KNOWN" \in t.job[j].flags => monitor /\ env.notify)
  <1>1. CASE SameZombies(u, t)
    <2>1. ZombiesTrue(u)
      BY <1>1, SameZombiesTrue, Zenon
    <2>2. Listed(u) = Listed(t) /\ u.async \in {0, t.async}
      BY <1>1, Zenon DEF SameZombies
    <2> QED
      BY <2>1, <2>2, Zenon
  <1>2. CASE /\ Listed(u) = Listed(t) /\ u.nzombie = t.nzombie + 1 /\ u.async = t.async
             /\ \A i \in Listed(t) \ {j} : u.job[i] = t.job[i]
             /\ u.job[j].procs = t.job[j].procs
             /\ {"STARTED", "ZOMBIE"} \subseteq u.job[j].flags
             /\ \A i \in DOMAIN t.job[j].procs : t.job[j].procs[i].state \in Terminal
    <2>1. Zombies(u) = Zombies(t) \cup {j}
      BY <1>2, Zenon DEF Zombies
    <2>2. Cardinality(Zombies(t) \cup {j}) = Cardinality(Zombies(t)) + 1
      BY ZombiesFinite, FS_AddElement, Zenon
    <2>3. u.nzombie = Cardinality(Zombies(u))
      BY <1>2, <2>1, <2>2, Zenon DEF ZombiesTrue
    <2>4. \A i \in Zombies(t) : i \in Listed(t) /\ i # j
      BY Zenon DEF Zombies
    <2>5. \A i \in Zombies(t) : u.job[i] = t.job[i]
      BY <1>2, <2>4, Zenon
    <2>6. \A i \in Zombies(u) :
             /\ "STARTED" \in u.job[i].flags
             /\ \A k \in DOMAIN u.job[i].procs : u.job[i].procs[k].state \in Terminal
      <3>1. \A i \in Zombies(u) : i \in Zombies(t) \/ i = j
        BY <2>1, Zenon
      <3> QED
        BY <1>2, <2>5, <3>1, Zenon DEF ZombiesTrue
    <2>7. ZombiesTrue(u)
      BY <2>3, <2>6, Zenon DEF ZombiesTrue
    <2> QED
      BY <1>2, <2>7, Zenon
  <1>3. CASE /\ "KNOWN" \in t.job[j].flags => monitor /\ env.notify
             /\ \E x \in Table : SameZombies(x, t) /\ u = RemoveJobs(x, {j})
    <2>1. PICK x \in Table : SameZombies(x, t) /\ u = RemoveJobs(x, {j})
      BY <1>3, Zenon
    <2>2. ZombiesTrue(x) /\ Listed(x) = Listed(t) /\ x.async \in {0, t.async}
      BY <2>1, SameZombiesTrue, Zenon DEF SameZombies
    <2>3. ZombiesTrue(u) /\ u.async \in {0, x.async} /\ Listed(u) = Listed(x) \ {j}
      BY <2>1, <2>2, RemoveJobsZombies
    <2> QED
      BY <1>3, <2>2, <2>3, Zenon
  <1> QED
    BY <1>1, <1>2, <1>3, Zenon DEF CheckedZombies

\* A job for which $! was used goes only for one of these reasons.
KnownRemoved ==
    \A j \in Listed(tab) \ Listed(tab') :
       "KNOWN" \in tab.job[j].flags =>
          \/ main.j = j
          \/ handler /\ monitor /\ env.notify
          \/ ~handler /\ tab.job[j].state \in Terminal /\ tab'.async \in {0, tab.async}
          \/ ~handler /\ Cardinality(Zombies(tab)) > env.child_max

\* A new asynchronous job finds at most child_max other zombies.
AsyncBounded ==
    env.child_max >= 0 /\ AsyncListed /\ tab'.async \notin {0, tab.async} =>
       Cardinality(Zombies(tab') \ {tab'.async}) <= env.child_max

ZombieStep == ZombiesTrue(tab') /\ KnownRemoved /\ AsyncBounded

\* A step that concerns no zombie and removes no job.
LEMMA SameZombiesStep ==
    ASSUME ZombiesTrue(tab), SameZombies(tab', tab)
    PROVE  ZombieStep
  <1>1. ZombiesTrue(tab')
    BY SameZombiesTrue, Zenon
  <1> QED
    BY <1>1, Zenon DEF ZombieStep, KnownRemoved, AsyncBounded, SameZombies

(* The handler's loop: the job of a child that is waited for is not a      *)
(* zombie.                                                                 *)
LEMMA WaitpidZombies ==
    ASSUME AgreeInv, ZombiesTrue(tab), NEW p \in Pids, Waitpid(p)
    PROVE  ZombieStep
  <1>1. Typed /\ PlaceInv /\ TableInv(tab, kern)
    BY Zenon DEF AgreeInv
  <1>2. tab \in Table /\ Pointers(tab) /\ Listed(tab) \subseteq JobIds
    BY <1>1, ListedJobs, Zenon DEF Typed, PlaceInv, Pointers
  <1>3. PICK s \in 1..3 : WaitedFor(p, s)
    BY <1>1, WaitpidCases, Zenon
  <1>4. handler /\ kern[p].st # "free" /\ tab' = Reported(tab, p, s) /\ s \in 0..3
    <2>1. s \in 0..3
      OBVIOUS
    <2> QED
      BY <1>3, <2>1, Zenon DEF WaitedFor
  <1>5. CASE WithPid(tab, p) = {}
    <2>1. tab' = tab
      BY <1>4, <1>5, Zenon DEF Reported
    <2>2. SameZombies(tab', tab)
      BY <2>1, Zenon DEF SameZombies
    <2> QED
      BY <2>2, SameZombiesStep, Zenon
  <1>6. CASE WithPid(tab, p) # {}
    <2> DEFINE Found(j, n, x) ==
                 /\ Updated(x, tab, j, n, p, s)
                 /\ Reported(tab, p, s) = CheckJob(x, j) /\ Checked(Reported(tab, p, s), x, j)
                 /\ Pointers(x) /\ x.job[j].procs # <<>>
    <2>1. PICK j \in Listed(tab) : \E n, x : Found(j, n, x)
      BY <1>2, <1>4, <1>6, ReportedFacts, Zenon
    <2>2. PICK n, x : Found(j, n, x)
      BY <2>1, Zenon
    <2>3. tab' = CheckJob(x, j) /\ Checked(tab', x, j)
      BY <1>4, <2>2, Zenon
    <2>4. /\ n \in DOMAIN tab.job[j].procs /\ tab.job[j].procs[n].pid = p
          /\ x \in Table /\ Listed(x) = Listed(tab)
          /\ x.async = tab.async /\ x.nzombie = tab.nzombie
          /\ \A i \in JobIds \ {j} : x.job[i] = tab.job[i]
          /\ x.job[j].flags = tab.job[j].flags
      BY <2>2, Zenon DEF Updated, ProcChanged
    <2>5. tab.job[j].procs[n].state \notin Terminal
      <3>1. ProcsInv(tab.job[j], j, kern)
        BY <1>1, Zenon DEF TableInv
      <3> QED
        BY <1>4, <2>4, <3>1, Zenon DEF ProcsInv
    <2>6. j \notin Zombies(tab)
      BY <2>4, <2>5, Zenon DEF ZombiesTrue
    <2>7. Zombies(x) = Zombies(tab)
      BY <1>2, <2>4, Zenon DEF Zombies
    <2>8. \A i \in Zombies(tab) : x.job[i] = tab.job[i]
      BY <1>2, <2>4, <2>6, ZombiesFinite, Zenon
    <2>9. ZombiesTrue(x)
      BY <2>4, <2>7, <2>8, Zenon DEF ZombiesTrue
    <2>10. CheckedZombies(tab', x, j)
      BY <2>2, <2>4, <2>3, CheckJobFacts, Zenon
    <2>11. tab' \in Table
      BY <2>3, Zenon DEF Checked
    <2>12. /\ ZombiesTrue(tab') /\ tab'.async \in {0, x.async}
           /\ \A i \in Listed(x) \ Listed(tab') :
                 i = j /\ ("KNOWN" \in x.job[j].flags => monitor /\ env.notify)
      BY <2>4, <2>6, <2>7, <2>9, <2>10, <2>11, CheckedZombiesTrue, Zenon
    <2>13. KnownRemoved
      BY <1>4, <2>4, <2>12, Zenon DEF KnownRemoved
    <2> QED
      BY <2>4, <2>12, <2>13, Zenon DEF ZombieStep, AsyncBounded
  <1> QED
    BY <1>5, <1>6, Zenon

\* j_set_async() on a table that has the zombies of the old one.
LEMMA SetAsyncStep ==
    ASSUME Typed, ~handler, NEW t \in Table, NEW j \in Listed(t), Pointers(t), ZombiesTrue(t),
           Zombies(t) = Zombies(tab), t.async = tab.async \/ ~AsyncListed,
           Listed(tab) \subseteq Listed(t),
           \A i \in Listed(tab) : "KNOWN" \in tab.job[i].flags => "KNOWN" \in t.job[i].flags,
           tab' = SetAsync(t, j)
    PROVE  ZombieStep
  <1>1. /\ ZombiesTrue(tab')
        /\ tab'.async \in {0, t.async, j}
        /\ tab'.async \notin {0, t.async} /\ env.child_max >= 0 =>
              Cardinality(Zombies(tab') \ {j}) <= env.child_max
        /\ \A i \in Listed(t) \ Listed(tab') :
              "KNOWN" \in t.job[i].flags => Cardinality(Zombies(t)) > env.child_max
    <2>1. env \in Env
      BY Zenon DEF Typed
    <2> QED
      BY <2>1, SetAsyncZombies
  <1>2. KnownRemoved
    BY <1>1, Zenon DEF KnownRemoved
  <1>3. AsyncBounded
    BY <1>1, Zenon DEF AsyncBounded
  <1> QED
    BY <1>1, <1>2, <1>3, Zenon DEF ZombieStep

\* The actions that change the flags of a job, or nothing of the table.
LEMMA FlagsStep ==
    ASSUME AgreeInv, ZombiesTrue(tab),
           \/ Child \/ Sigchld \/ SigchldReturns
           \/ Sleep \/ PipeFails \/ AbandonSub \/ Change \/ Trapsig \/ Runtraps \/ UNCHANGED vars
           \/ WaitLast \/ WaitAny \/ (\E p \in Pids : WaitPid(p))
           \/ Async \/ StartLast \/ Woke
    PROVE  ZombieStep
  <1>1. Typed /\ PlaceInv /\ tab \in Table /\ Pointers(tab) /\ kern \in [Pids -> Kern]
    BY Zenon DEF AgreeInv, Typed, PlaceInv, Pointers
  <1>2. CASE UNCHANGED tab
    <2>1. SameZombies(tab', tab)
      BY <1>2, Zenon DEF SameZombies
    <2> QED
      BY <2>1, SameZombiesStep, Zenon
  <1>3. ASSUME NEW j \in JobIds, NEW f \in SUBSET (Flags \ {"ZOMBIE"}),
               tab' = SetFlags(tab, j, f)
        PROVE  ZombieStep
    <2>1. SameZombies(tab', tab)
      BY <1>1, <1>3, FlagsSameZombies, Zenon
    <2> QED
      BY <2>1, SameZombiesStep, Zenon
  <1>4. /\ {"WAITING"} \in SUBSET (Flags \ {"ZOMBIE"})
        /\ {"KNOWN"} \in SUBSET (Flags \ {"ZOMBIE"})
        /\ {"WAITING", "STARTED"} \in SUBSET (Flags \ {"ZOMBIE"})
        /\ {"WAITING"} \in SUBSET (Flags \ {"STARTED", "ZOMBIE"})
    BY DEF Flags
  <1>5. CASE Child
    BY <1>1, <1>2, <1>5, ChildKern, Zenon
  <1>6. CASE \/ Sigchld \/ SigchldReturns
             \/ Sleep \/ PipeFails \/ AbandonSub \/ Change \/ Trapsig \/ Runtraps
             \/ UNCHANGED vars
    BY <1>2, <1>6, Zenon DEF Sigchld, SigchldReturns, Sleep, PipeFails, AbandonSub, Change,
                             Trapsig, Runtraps, vars
  <1>7. CASE WaitLast \/ WaitAny \/ (\E p \in Pids : WaitPid(p))
    BY <1>1, <1>7, WaitSafe, SameZombiesStep, Zenon
  <1>8. CASE Async
    <2>1. tab' = SetFlags(tab, tab.async, {"KNOWN"}) /\ tab.async # 0
      BY <1>8, Zenon DEF Async
    <2>2. tab.async \in 0..MaxJobs
      BY <1>1, Zenon DEF Table
    <2>3. tab.async \in JobIds
      BY <2>1, <2>2, JobsAssumption DEF JobIds
    <2> QED
      BY <1>3, <1>4, <2>1, <2>3, Zenon
  <1>9. CASE StartLast
    <2>1. tab' = SetFlags(tab, tab.last, {"WAITING", "STARTED"}) /\ main.at = "pipe"
      BY <1>9, Zenon DEF StartLast
    <2>2. tab.last \in JobIds
      BY <1>1, <2>1, ListedJobs, Zenon DEF PlaceInv
    <2> QED
      BY <1>3, <1>4, <2>1, <2>2, Zenon
  <1>10. CASE Woke
    <2>1. CASE UNCHANGED tab
      BY <1>2, <2>1, Zenon
    <2>2. CASE tab' = ClearFlags(tab, main.j, {"WAITING"})
      <3>1. main.at = "woke"
        BY <1>10, Zenon DEF Woke
      <3>2. main.j \in JobIds
        BY <1>1, <3>1, ListedJobs, Zenon DEF PlaceInv
      <3>3. SameZombies(tab', tab)
        BY <1>1, <1>4, <2>2, <3>2, FlagsSameZombies, Zenon
      <3> QED
        BY <3>3, SameZombiesStep, Zenon
    <2> QED
      BY <1>10, <2>1, <2>2, Zenon DEF Woke
  <1> QED
    BY <1>5, <1>6, <1>7, <1>8, <1>9, <1>10, Zenon

\* The actions that remove jobs: a wait that ends, jobs, the prompt, a failing fork().
LEMMA RemovalStep ==
    ASSUME AgreeInv, ZombiesTrue(tab),
           \/ \E S \in SUBSET Listed(tab), z \in BOOLEAN : Jobs(S, z)
           \/ Notify \/ SomeFork \/ WaitDone
    PROVE  ZombieStep
  <1>1. Typed /\ PlaceInv /\ tab \in Table /\ Pointers(tab)
    BY Zenon DEF AgreeInv, Typed, PlaceInv, Pointers
  <1>2. ASSUME NEW t \in Table, SameZombies(t, tab), NEW S, tab' = RemoveJobs(t, S)
        PROVE  /\ ZombiesTrue(tab') /\ Listed(tab') = Listed(tab) \ S
               /\ tab'.async \in {0, tab.async} /\ AsyncBounded
    <2>1. ZombiesTrue(t) /\ Listed(t) = Listed(tab) /\ t.async \in {0, tab.async}
      BY <1>2, SameZombiesTrue, Zenon DEF SameZombies
    <2>2. ZombiesTrue(tab') /\ tab'.async \in {0, t.async} /\ Listed(tab') = Listed(t) \ S
      BY <1>2, <2>1, RemoveJobsZombies
    <2> QED
      BY <2>1, <2>2, Zenon DEF AsyncBounded
  <1>3. SameZombies(tab, tab)
    BY Zenon DEF SameZombies
  <1>4. CASE Notify \/ \E S \in SUBSET Listed(tab), z \in BOOLEAN : Jobs(S, z)
    <2>1. PICK D : /\ tab' = RemoveJobs(tab, D) /\ ~handler
                   /\ \A j \in D : tab.job[j].state \in Terminal
      <3>1. CASE Notify
        <4> DEFINE done == {j \in Listed(tab) : tab.job[j].state \in Terminal}
        <4>1. ~handler /\ tab' = RemoveJobs(tab, done)
          BY <3>1, Zenon DEF Notify
        <4>2. \A j \in done : tab.job[j].state \in Terminal
          BY Zenon
        <4> HIDE DEF done
        <4> QED
          BY <4>1, <4>2, Zenon
      <3>2. CASE \E S \in SUBSET Listed(tab), z \in BOOLEAN : Jobs(S, z)
        <4>1. PICK S, z : Jobs(S, z)
          BY <3>2, Zenon
        <4> DEFINE done == {j \in (IF z THEN S ELSE S \ Zombies(tab)) :
                               tab.job[j].state \in Terminal}
        <4>2. ~handler /\ tab' = RemoveJobs(tab, done)
          BY <4>1, Zenon DEF Jobs
        <4>3. \A j \in done : tab.job[j].state \in Terminal
          BY Zenon
        <4> HIDE DEF done
        <4> QED
          BY <4>2, <4>3, Zenon
      <3> QED
        BY <1>4, <3>1, <3>2, Zenon
    <2>2. /\ ZombiesTrue(tab') /\ Listed(tab') = Listed(tab) \ D
          /\ tab'.async \in {0, tab.async} /\ AsyncBounded
      BY <1>1, <1>2, <1>3, <2>1, Zenon
    <2>3. KnownRemoved
      BY <2>1, <2>2, Zenon DEF KnownRemoved
    <2> QED
      BY <2>2, <2>3, Zenon DEF ZombieStep
  <1>5. ASSUME NEW t \in Table, SameZombies(t, tab), tab' = RemoveJobs(t, {main.j})
        PROVE  ZombieStep
    <2>1. /\ ZombiesTrue(tab') /\ Listed(tab') = Listed(tab) \ {main.j} /\ AsyncBounded
      BY <1>2, <1>5, Zenon
    <2> QED
      BY <2>1, Zenon DEF ZombieStep, KnownRemoved
  <1>6. CASE SomeFork
    <2>1. CASE tab' = RemoveJobs(tab, {tab.last}) /\ main.at = "pipe"
      <3>1. tab.last = main.j
        BY <1>1, <2>1, Zenon DEF PlaceInv
      <3> QED
        BY <1>1, <1>3, <1>5, <2>1, <3>1, Zenon
    <2>2. CASE FirstFails
      BY <1>1, <2>2, FirstFailsFacts, SameZombiesStep, Zenon DEF Typed
    <2> QED
      BY <1>6, <2>1, <2>2, ForkCases, Zenon
  <1>7. CASE WaitDone
    <2> DEFINE t == ClearFlags(tab, main.j, {"WAITING", "FG"})
    <2>1. /\ tab' = RemoveJobs(t, {main.j}) \/ tab' = t
          /\ main.at = "check"
      BY <1>7, Zenon DEF WaitDone
    <2>2. main.j \in JobIds
      BY <1>1, <2>1, ListedJobs, Zenon DEF PlaceInv
    <2>3. /\ {"WAITING", "FG"} \in SUBSET (Flags \ {"STARTED", "ZOMBIE"})
          /\ {"WAITING", "FG"} \in SUBSET (Flags \ {"STARTED"})
      BY DEF Flags
    <2>4. t \in Table
      BY <1>1, <2>2, <2>3, ClearFlagsLike
    <2>5. SameZombies(t, tab)
      BY <1>1, <2>2, <2>3, FlagsSameZombies, Zenon
    <2> HIDE DEF t
    <2> QED
      BY <1>5, <2>1, <2>4, <2>5, SameZombiesStep, Zenon
  <1> QED
    BY <1>4, <1>6, <1>7, Zenon

\* bg and fg: a zombie has no process to continue.
LEMMA ResumeStep ==
    ASSUME AgreeInv, ZombiesTrue(tab), NEW j \in JobIds, NEW bg \in BOOLEAN, Resume(j, bg)
    PROVE  ZombieStep
  <1>1. Typed /\ PlaceInv /\ tab \in Table
    BY Zenon DEF AgreeInv, Typed
  <1>2. j \in Listed(tab)
    BY <1>1, ResumeFacts, Zenon
  <1>3. PICK u : /\ Resumed(u, tab, j) /\ Pointers(u)
                 /\ tab' = SetAsync(u, j) \/ SameZombies(tab', u)
    BY <1>1, ResumeFacts, Zenon DEF MadeAsync
  <1>4. /\ u \in Table /\ Listed(u) = Listed(tab) /\ u.async = tab.async
        /\ u.nzombie = tab.nzombie
        /\ \A i \in JobIds \ {j} : u.job[i] = tab.job[i]
        /\ u.job[j].flags = tab.job[j].flags
        /\ u.job[j].procs = Continued(tab.job[j].procs)
    BY <1>3, Zenon DEF Resumed
  <1>5. Listed(tab) \subseteq JobIds /\ Zombies(tab) \subseteq Listed(tab)
    BY <1>1, ListedJobs, ZombiesFinite, Zenon
  <1>6. Zombies(u) = Zombies(tab) /\ \A i \in Listed(tab) : u.job[i].flags = tab.job[i].flags
    BY <1>4, <1>5, Zenon DEF Zombies
  <1>7. ASSUME j \in Zombies(tab)
        PROVE  \A i \in DOMAIN u.job[j].procs : u.job[j].procs[i].state \in Terminal
    <2> DEFINE old == tab.job[j].procs
    <2>1. old \in Seq(Proc)
      BY <1>1, Zenon DEF Table, Job
    <2>2. \A i \in DOMAIN old : old[i].state \in Terminal
      BY <1>7, Zenon DEF ZombiesTrue
    <2>3. PSTOPPED \notin Terminal
      BY DEF PSTOPPED, Terminal, PEXITED, PSIGNALLED
    <2>4. /\ DOMAIN Continued(old) = DOMAIN old
          /\ \A i \in DOMAIN old : old[i].state # PSTOPPED => Continued(old)[i] = old[i]
      BY <2>1, ContinuedFacts, Zenon
    <2> QED
      BY <1>4, <2>2, <2>3, <2>4, Zenon
  <1>8. ZombiesTrue(u)
    <2>1. u.nzombie = Cardinality(Zombies(u))
      BY <1>4, <1>6, Zenon DEF ZombiesTrue
    <2> SUFFICES ASSUME NEW i \in Zombies(tab)
                 PROVE  /\ "STARTED" \in u.job[i].flags
                        /\ \A k \in DOMAIN u.job[i].procs : u.job[i].procs[k].state \in Terminal
      BY <1>6, <2>1, Zenon DEF ZombiesTrue
    <2>2. /\ "STARTED" \in tab.job[i].flags /\ i \in Listed(tab) /\ i \in JobIds
          /\ \A k \in DOMAIN tab.job[i].procs : tab.job[i].procs[k].state \in Terminal
      BY <1>5, Zenon DEF ZombiesTrue
    <2>3. CASE i = j
      BY <1>6, <1>7, <2>2, <2>3, Zenon
    <2>4. CASE i # j
      BY <1>4, <2>2, <2>4, Zenon
    <2> QED
      BY <2>3, <2>4, Zenon
  <1>9. CASE tab' = SetAsync(u, j)
    <2>1. ~handler
      BY DEF Resume
    <2> QED
      BY <1>1, <1>2, <1>3, <1>4, <1>6, <1>8, <1>9, <2>1, SetAsyncStep, ZenonT(60)
  <1>10. CASE SameZombies(tab', u)
    <2>1. ZombiesTrue(tab') /\ Listed(tab') = Listed(tab) /\ tab'.async \in {0, tab.async}
      BY <1>4, <1>8, <1>10, SameZombiesTrue, Zenon DEF SameZombies
    <2> QED
      BY <2>1, Zenon DEF ZombieStep, KnownRemoved, AsyncBounded
  <1> QED
    BY <1>3, <1>9, <1>10, Zenon

\* exchild(): the job it works on is not started, hence not a zombie.
LEMMA ExchildStep ==
    ASSUME AgreeInv, ZombiesTrue(tab), NEW kind \in Kinds, NEW pid \in FreePids,
           NEW pipeo \in BOOLEAN, NEW recycled \in BOOLEAN,
           Exchild(kind, pid, pipeo, recycled)
    PROVE  ZombieStep
  <1>1. Typed /\ PlaceInv /\ TableInv(tab, kern) /\ tab \in Table /\ Pointers(tab)
    BY Zenon DEF AgreeInv, Typed, PlaceInv, Pointers
  <1>2. PICK j, u, first : Launched(j, u, first, kind, pid)
    BY <1>1, ExchildFacts, Zenon
  <1>3. Staged(u, tab, j, pid, first) /\ ~handler /\ (~first => main.at = "pipe" /\ j = main.j)
    BY <1>2, Zenon DEF Launched
  <1>4. /\ u \in Table /\ j \in JobIds /\ Listed(u) = Listed(tab) \cup {j}
        /\ u.last = j /\ u.nzombie = tab.nzombie
        /\ IF first THEN j = tab.njobs + 1 ELSE j \in Listed(tab)
        /\ \A i \in JobIds \ {j} : u.job[i] = tab.job[i]
        /\ "ZOMBIE" \notin u.job[j].flags /\ (~first => u.job[j].flags = tab.job[j].flags)
    BY <1>3, Zenon DEF Staged
  <1>5. u.async = tab.async \/ ~AsyncListed
    BY <1>3, Zenon DEF Staged, AsyncStaged, AsyncListed
  <1>6. Listed(tab) \subseteq JobIds
    BY <1>1, ListedJobs, Zenon
  <1>7. first => j \notin Listed(tab)
    <2>1. \A i \in Listed(tab) : i <= tab.njobs
      BY <1>1, Zenon DEF TableInv
    <2>2. tab.njobs \in 0..MaxJobs
      BY <1>1, Zenon DEF Table
    <2>3. ~(tab.njobs + 1 <= tab.njobs)
      BY <2>2, JobsAssumption
    <2> QED
      BY <1>4, <2>1, <2>3, Zenon
  <1>8. j \notin Zombies(tab)
    <2>1. CASE first
      BY <1>1, <1>7, <2>1, ZombiesFinite, Zenon
    <2>2. CASE ~first
      <3>1. "STARTED" \notin tab.job[j].flags
        BY <1>1, <1>3, <2>2, Zenon DEF PlaceInv
      <3> QED
        BY <3>1, Zenon DEF ZombiesTrue
    <2> QED
      BY <2>1, <2>2, Zenon
  <1>9. j \notin Zombies(u)
    BY <1>4, Zenon DEF Zombies
  <1>10. Zombies(u) = Zombies(tab)
    <2>1. \A i \in Listed(u) \ {j} : i \in Listed(tab) /\ u.job[i] = tab.job[i]
      BY <1>4, <1>6, Zenon
    <2>2. \A i \in Listed(tab) : i \in Listed(u)
      BY <1>4, Zenon
    <2>3. \A i : i \in Zombies(u) <=> i \in Listed(u) /\ "ZOMBIE" \in u.job[i].flags
      BY Zenon DEF Zombies
    <2>4. \A i : i \in Zombies(tab) <=> i \in Listed(tab) /\ "ZOMBIE" \in tab.job[i].flags
      BY Zenon DEF Zombies
    <2>5. \A i : i \in Zombies(u) <=> i \in Zombies(tab)
      BY <1>8, <1>9, <2>1, <2>2, <2>3, <2>4, Zenon
    <2> QED
      BY <2>5, Zenon
  <1>11. ZombiesTrue(u)
    <2>1. \A i \in Zombies(tab) : i \in JobIds \ {j}
      BY <1>1, <1>8, ZombiesFinite, Zenon
    <2>2. \A i \in Zombies(tab) : u.job[i] = tab.job[i]
      BY <1>4, <2>1, Zenon
    <2> QED
      BY <1>4, <1>10, <2>2, Zenon DEF ZombiesTrue
  <1> DEFINE t == SetFlags(u, j, {"STARTED"})
  <1>12. SameZombies(t, u) /\ t \in Table /\ t.last = u.last /\ t.async = u.async
    <2>1. {"STARTED"} \in SUBSET (Flags \ {"ZOMBIE"}) /\ {"STARTED"} \in SUBSET Flags
      BY DEF Flags
    <2>2. t \in Table /\ t.last = u.last /\ t.async = u.async
      BY <1>4, <2>1, SetFlagsLike
    <2> QED
      BY <1>4, <2>1, <2>2, FlagsSameZombies, Zenon
  <1>13. \A i \in Listed(tab) : "KNOWN" \in tab.job[i].flags => "KNOWN" \in t.job[i].flags
    <2>1. {"STARTED"} \in SUBSET Flags
      BY DEF Flags
    <2>2. /\ t.job[j].flags = u.job[j].flags \cup {"STARTED"}
          /\ \A i \in JobIds \ {j} : t.job[i] = u.job[i]
      BY <1>4, <2>1, SetFlagsLike
    <2> HIDE DEF t
    <2>3. \A i \in Listed(tab) : i = j => ~first
      BY <1>7, Zenon
    <2> QED
      BY <1>4, <1>6, <2>2, <2>3, Zenon
  <1> HIDE DEF t
  <1>14. /\ ZombiesTrue(t) /\ Zombies(t) = Zombies(tab) /\ Listed(t) = Listed(u)
         /\ t.async = tab.async \/ ~AsyncListed
         /\ Pointers(t) /\ j \in Listed(t)
    <2>1. ZombiesTrue(t) /\ Zombies(t) = Zombies(tab) /\ Listed(t) = Listed(u)
      BY <1>10, <1>11, <1>12, SameZombiesTrue, Zenon DEF SameZombies
    <2> QED
      BY <1>1, <1>4, <1>12, <1>5, <2>1, Zenon DEF Pointers
  <1>15. ASSUME ZombiesTrue(tab'), Listed(tab') = Listed(u),
                tab'.async \in {0, tab.async} \/ ~AsyncListed
         PROVE  ZombieStep
    BY <1>4, <1>15, Zenon DEF ZombieStep, KnownRemoved, AsyncBounded
  <1>16. CASE tab' = u
    BY <1>11, <1>15, <1>16, <1>5, Zenon
  <1>17. CASE tab' = SetAsync(t, j)
    BY <1>1, <1>3, <1>4, <1>12, <1>13, <1>14, <1>17, SetAsyncStep, Zenon
  <1>18. CASE WaitJ(t, j, "fg")
    <2>1. tab' = SetFlags(t, j, {"WAITING"})
      BY <1>18, Zenon DEF WaitJ
    <2>2. {"WAITING"} \in SUBSET (Flags \ {"ZOMBIE"})
      BY DEF Flags
    <2>3. SameZombies(tab', t)
      BY <1>4, <1>12, <2>1, <2>2, FlagsSameZombies, Zenon
    <2>4. /\ ZombiesTrue(tab') /\ Listed(tab') = Listed(u)
          /\ tab'.async \in {0, tab.async} \/ ~AsyncListed
      BY <1>14, <2>3, SameZombiesTrue, Zenon DEF SameZombies
    <2> QED
      BY <1>15, <2>4, Zenon
  <1> QED
    BY <1>2, <1>16, <1>17, <1>18, Zenon DEF Launched, t

\* The invariant for the zombies, which rests on the agreement with the children.
ZombieInv == AgreeInv /\ ZombiesTrue(tab)

\* Every step keeps it, and removes known jobs and zombies as it should.
LEMMA ZombieStepLemma ==
    ASSUME ZombieInv, [Next]_vars
    PROVE  ZombieInv' /\ ZombieStep
  <1>1. AgreeInv /\ ZombiesTrue(tab)
    BY Zenon DEF ZombieInv
  <1>2. ZombieStep
    <2>1. CASE \/ Child \/ Sigchld \/ SigchldReturns
               \/ Sleep \/ PipeFails \/ AbandonSub \/ Change \/ Trapsig \/ Runtraps
               \/ UNCHANGED vars
               \/ WaitLast \/ WaitAny \/ (\E p \in Pids : WaitPid(p))
               \/ Async \/ StartLast \/ Woke
      BY <1>1, <2>1, FlagsStep, Zenon
    <2>2. CASE \/ \E S \in SUBSET Listed(tab), z \in BOOLEAN : Jobs(S, z)
               \/ Notify \/ SomeFork \/ WaitDone
      BY <1>1, <2>2, RemovalStep, Zenon
    <2>3. CASE \E p \in Pids : Waitpid(p)
      BY <1>1, <2>3, WaitpidZombies, Zenon
    <2>4. CASE \E j \in JobIds, bg \in BOOLEAN : Resume(j, bg)
      BY <1>1, <2>4, ResumeStep, Zenon
    <2>5. CASE \E kind \in Kinds, pid \in FreePids, pipeo, recycled \in BOOLEAN :
                    Exchild(kind, pid, pipeo, recycled)
      BY <1>1, <2>5, ExchildStep, Zenon
    <2> QED
      BY <2>1, <2>2, <2>3, <2>4, <2>5, StepCases, Zenon
  <1>3. AgreeInv'
    BY <1>1, AgreeStep, Zenon
  <1>4. ZombiesTrue(tab)'
    BY <1>2, Zenon DEF ZombieStep, ZombiesTrue, Zombies, Listed
  <1> QED
    BY <1>2, <1>3, <1>4, Zenon DEF ZombieInv

\* The shell starts without jobs.
LEMMA ZombieInit ==
    ASSUME NoReuse, Init
    PROVE  ZombieInv
  <1>1. AgreeInv
    BY AgreeInit, Zenon
  <1>2. Zombies(tab) = {}
    BY PlaceInit, Zenon DEF Zombies
  <1>3. tab.nzombie = 0
    BY Zenon DEF Init, NoJobs
  <1>4. Cardinality({}) = 0
    BY FS_EmptySet, Zenon
  <1> QED
    BY <1>1, <1>2, <1>3, <1>4, Zenon DEF ZombieInv, ZombiesTrue

(* KnownKept, when no pid that the table names is given out again: a job   *)
(* for which $! was used goes when it is waited for, announced or shown,   *)
(* or when it is one of too many zombies.  remove_job() is reached from    *)
(* check_job(), which makes such a job a zombie instead unless it is       *)
(* announced, and from j_set_async(), whose count nzombie is then right.   *)
THEOREM KnownStay == NoReuse => (Spec => KnownKept)
  <1> SUFFICES ASSUME NoReuse PROVE Spec => KnownKept
    OBVIOUS
  <1>1. Init => ZombieInv
    BY ZombieInit, Zenon
  <1>2. ZombieInv /\ [Next]_vars => ZombieInv'
    BY ZombieStepLemma, Zenon
  <1>3. ZombieInv /\ [Next]_vars =>
          [\A j \in Listed(tab) \ Listed(tab') :
             "KNOWN" \in tab.job[j].flags =>
                \/ main.j = j
                \/ handler /\ monitor /\ env.notify
                \/ ~handler /\ tab.job[j].state \in Terminal /\ tab'.async \in {0, tab.async}
                \/ ~handler /\ Cardinality(Zombies(tab)) > env.child_max]_vars
    BY ZombieStepLemma, Zenon DEF ZombieStep, KnownRemoved
  <1> QED
    BY <1>1, <1>2, <1>3, PTL DEF Spec, KnownKept

(* ZombieBound, when no pid that the table names is given out again: since *)
(* nzombie counts the zombies (one is made only of a job that was none,    *)
(* because its last child has just been waited for), j_set_async() removes *)
(* as many of the others as are too many.  A freed async_job that new_job()*)
(* has returned is made the asynchronous one without j_set_async().        *)
THEOREM ZombiesBounded == NoReuse => (Spec => ZombieBound)
  <1> SUFFICES ASSUME NoReuse PROVE Spec => ZombieBound
    OBVIOUS
  <1>1. Init => ZombieInv
    BY ZombieInit, Zenon
  <1>2. ZombieInv /\ [Next]_vars => ZombieInv'
    BY ZombieStepLemma, Zenon
  <1>3. ZombieInv /\ [Next]_vars =>
          [env.child_max >= 0 /\ AsyncListed /\ tab'.async \notin {0, tab.async} =>
             Cardinality(Zombies(tab') \ {tab'.async}) <= env.child_max]_vars
    BY ZombieStepLemma, Zenon DEF ZombieStep, AsyncBounded
  <1> QED
    BY <1>1, <1>2, <1>3, PTL DEF Spec, ZombieBound
=============================================================================
