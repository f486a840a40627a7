--------------------------- MODULE JobTokensProofs ---------------------------
(***************************************************************************)
(* Theorems about JobTokens, for any tree of makes, any -j and any size of *)
(* the pipe that holds the tokens; first those about each make, then how   *)
(* many tokens and jobs there are: the makes never have more tokens than   *)
(* -j allows, lose none unless one of them aborts or dies, and run no more *)
(* shells than -j.                                                         *)
(***************************************************************************)
EXTENDS JobTokens, TLAPS, FiniteSetTheorems, FunctionTheorems

-----------------------------------------------------------------------------
(* The inductive invariant. *)

\* What a make is.
Record ==
    [pc : {None, "server", "addflush", "addwrite", "start", "read", "putback",
           "stopflush", "stopput", "examine", "catch", "exited"},
     ret : {None, "start", "loop", "finish"}, hand : {None, "+", "E"},
     aborting : {None, "error", "wait"}, fatal : BOOLEAN,
     running : 0..MaxJobs, want : BOOLEAN, have : BOOLEAN, errors : BOOLEAN,
     todo : Nat, later : Nat, jobs : Nat, good : Nat, bad : Nat,
     status : {None, "good", "bad"}]

\* Job_TokenReturn() and Job_TokenWithdraw() have a byte in hand only here.
HandKnown(r) ==
    /\ r.pc \in {"addflush", "stopflush", "stopput"} => r.hand = "E"
    /\ r.pc = "putback" => r.hand = "+"
    /\ r.pc = "addwrite" => r.hand # None
    /\ r.pc \in {"addflush", "addwrite"} => r.ret # None
    /\ r.pc \in {None, "server", "start", "read", "examine", "catch", "exited"} => r.hand = None

\* MakeStartJobs() holds a token only while it looks at a node.
HaveKnown(r) ==
    /\ r.pc = "examine" => r.have
    /\ r.have => r.pc \in {None, "start", "examine", "exited"}
    /\ r.pc \in {"read", "putback"} => r.running < MaxJobs
    /\ r.pc \in {"read", "putback", "examine"} => r.todo > 0

\* A make has a status once it has exited, and a good one only if all is well.
StatusKnown(r) ==
    /\ r.pc \notin {None, "exited"} => r.status = None
    /\ r.pc = "exited" => r.status # None
    /\ r.status = "good" => r.jobs = 0 /\ r.bad = 0 /\ ~r.errors
    /\ r.pc = None /\ r.status = None =>
         r.jobs = 0 /\ r.good = 0 /\ r.bad = 0 /\ ~r.errors /\ r.aborting = None

Local(r) == HandKnown(r) /\ HaveKnown(r) /\ StatusKnown(r)

\* The sub-makes of m that have not been reaped.
Subs(m) == {s \in SubMakes : Parent[s] = m /\ mk[s].pc # None}

\* jobTokensRunning of a make r with c sub-makes.
Balanced(r, c) ==
    r.running = r.jobs + r.good + r.bad + (IF r.have THEN 1 ELSE 0) + c

\* A failure that make r knows of or will be told.
Spoilt(r) == r.bad > 0 \/ r.errors \/ r.status = "bad"

(* A make whose sub-makes have not been reaped has been started and has    *)
(* not returned success; and it has noticed the failure of a reaped one.   *)
ParentKnows ==
    \A s \in SubMakes :
        /\ mk[s].pc # None => /\ mk[Parent[s]].status # "good"
                              /\ mk[Parent[s]].pc # None \/ mk[Parent[s]].status # None
        /\ mk[s].pc = None /\ mk[s].status = "bad" => mk[Parent[s]].errors

MakeInv ==
    /\ mk[Root].pc # None
    /\ \A m \in Makes : Local(mk[m])
    /\ \A m \in Makes : Live(m) => Balanced(mk[m], Cardinality(Subs(m)))
    /\ ParentKnows

\* A failure and a kill have left their trace.
FailureKnown == failed \/ kills > 0 => \E m \in Makes : Spoilt(mk[m])

\* The error token is in the pipe, or in the hands of a make that will put it there.
StopperInv ==
    (\E m \in Makes : mk[m].aborting = "error") /\ kills = 0 /\ ~opt.missing =>
        \/ \E k \in 1..Len(pipe) : pipe[k] = "E"
        \/ \E m \in Makes : mk[m].hand = "E"
-----------------------------------------------------------------------------
(* One make: what a step makes of its record. *)

(* The record r of a make with c sub-makes may become q: jobTokensRunning  *)
(* still counts its jobs, it exits with success only without any, and it   *)
(* forgets no failure.                                                     *)
StepOK(r, q, c) ==
    /\ q \in Record /\ Local(q)
    /\ q.pc = None <=> r.pc = None
    /\ q.pc \notin {None, "exited"} => Balanced(q, c)
    /\ q.status = "good" => r.status = "good" \/ c = 0
    /\ r.status # None \/ r.pc = None => q.status = r.status
    /\ r.errors => q.errors
    /\ Spoilt(r) => Spoilt(q)

\* r leaves Job_TokenReturn() or the loop as q: it goes on, or exits.
Leaves(r, q) ==
    /\ q \in Record
    /\ q.running = r.running /\ q.jobs = r.jobs /\ q.good = r.good /\ q.bad = r.bad
    /\ q.have = r.have /\ q.errors = r.errors /\ q.aborting = r.aborting
    /\ \/ q.pc \in {"catch", "start"} /\ q.status = r.status /\ q.hand = r.hand
       \/ /\ q.pc = "exited" /\ q.hand = None /\ r.running = 0
          /\ q.status = "bad" \/ (q.status = "good" /\ ~r.errors)

\* exit().
LEMMA ExitedLeaves ==
    ASSUME NEW r \in Record, NEW st \in {"good", "bad"}, r.running = 0, st = "good" => ~r.errors
    PROVE  Leaves(r, Exited(r, st))
  <1> DEFINE q == Exited(r, st)
  <1>1. q \in Record
    BY Zenon DEF Record, Exited
  <1>2. /\ q.running = r.running /\ q.jobs = r.jobs /\ q.good = r.good /\ q.bad = r.bad
        /\ q.have = r.have /\ q.errors = r.errors /\ q.aborting = r.aborting
        /\ q.pc = "exited" /\ q.hand = None /\ q.status = st
    BY Zenon DEF Record, Exited
  <1> HIDE DEF q
  <1>3. st = "bad" \/ (st = "good" /\ ~r.errors)
    OBVIOUS
  <1>4. Leaves(r, q)
    BY <1>1, <1>2, <1>3, Zenon DEF Leaves
  <1> QED
    BY <1>4 DEF q

\* The loop goes on.
LEMMA GoesOnLeaves ==
    ASSUME NEW r \in Record, NEW l \in {"catch", "start"}
    PROVE  Leaves(r, [r EXCEPT !.pc = l])
  <1> DEFINE q == [r EXCEPT !.pc = l]
  <1>1. q \in Record
    BY Zenon DEF Record
  <1>2. /\ q.running = r.running /\ q.jobs = r.jobs /\ q.good = r.good /\ q.bad = r.bad
        /\ q.have = r.have /\ q.errors = r.errors /\ q.aborting = r.aborting
        /\ q.pc = l /\ q.hand = r.hand /\ q.status = r.status
    BY Zenon DEF Record
  <1> QED
    BY <1>1, <1>2, Zenon DEF Leaves

\* The loop of Make_Run() or Job_Wait().
LEMMA LoopedLeaves == ASSUME NEW r \in Record PROVE Leaves(r, Looped(r))
  <1>1. CASE r.running > 0 \/ (~r.fatal /\ r.todo > 0)
    BY <1>1, GoesOnLeaves DEF Looped
  <1>2. CASE ~(r.running > 0 \/ (~r.fatal /\ r.todo > 0))
    <2>1. r.running = 0
      BY <1>2, JobTokensAssumption, SMT DEF Record
    <2> DEFINE st == IF r.fatal \/ r.errors THEN "bad" ELSE "good"
    <2>2. st \in {"good", "bad"} /\ (st = "good" => ~r.errors)
      OBVIOUS
    <2>3. Looped(r) = Exited(r, st)
      BY <1>2, Zenon DEF Looped
    <2> HIDE DEF st
    <2> QED
      BY <2>1, <2>2, <2>3, ExitedLeaves
  <1> QED
    BY <1>1, <1>2

\* The end of JobFinish().
LEMMA JobFinishedLeaves == ASSUME NEW r \in Record PROVE Leaves(r, JobFinished(r))
  BY ExitedLeaves, GoesOnLeaves DEF JobFinished

\* The end of Job_TokenReturn().
LEMMA ReturnedLeaves ==
    ASSUME NEW r \in Record, NEW ret \in {"loop", "finish", "start"}
    PROVE  Leaves(r, Returned(r, ret))
  <1>1. CASE ret = "loop"
    BY <1>1, LoopedLeaves DEF Returned
  <1>2. CASE ret = "finish"
    BY <1>2, JobFinishedLeaves DEF Returned
  <1>3. CASE ret = "start"
    BY <1>3, GoesOnLeaves DEF Returned
  <1> QED
    BY <1>1, <1>2, <1>3

\* Nothing is left of a sum that is 0.
LEMMA SumZero ==
    ASSUME NEW a \in Nat, NEW b \in Nat, NEW d \in Nat, NEW e \in Nat, a + b + d + e = 0
    PROVE  a = 0 /\ b = 0 /\ d = 0 /\ e = 0
  BY SMT

\* A make that leaves with its books in order is in order.
LEMMA LeavesOK ==
    ASSUME NEW r \in Record, NEW q, NEW c \in Nat, Leaves(r, q), Balanced(r, c),
           r.hand = None, ~r.have, r.status = None, r.pc # None
    PROVE  StepOK(r, q, c)
  <1>1. /\ r.running \in Nat /\ r.jobs \in Nat /\ r.good \in Nat /\ r.bad \in Nat
        /\ q \in Record
    BY JobTokensAssumption, SMT DEF Record, Leaves
  <1>2. q.status = "good" =>
           r.running = 0 /\ r.jobs = 0 /\ r.good = 0 /\ r.bad = 0 /\ c = 0 /\ ~r.errors
    <2>1. r.running = r.jobs + r.good + r.bad + c
      BY <1>1, SMT DEF Balanced
    <2>2. q.status = "good" => r.running = 0 /\ ~r.errors
      BY Zenon DEF Leaves, None
    <2>3. r.running = 0 => r.jobs = 0 /\ r.good = 0 /\ r.bad = 0 /\ c = 0
      <3>1. SUFFICES ASSUME r.running = 0
                     PROVE  r.jobs = 0 /\ r.good = 0 /\ r.bad = 0 /\ c = 0
        OBVIOUS
      <3>2. r.jobs + r.good + r.bad + c = 0
        BY <2>1, <3>1
      <3>3. r.jobs \in Nat /\ r.good \in Nat /\ r.bad \in Nat
        BY <1>1
      <3> QED
        BY <3>2, <3>3, SumZero, ZenonT(60)
    <2> QED
      BY <2>2, <2>3, Zenon
  <1>3. HandKnown(q) /\ HaveKnown(q)
    BY SMT DEF Leaves, HandKnown, HaveKnown, None
  <1>4. StatusKnown(q)
    BY <1>1, <1>2, SMT DEF Leaves, StatusKnown, None
  <1>5. Balanced(q, c)
    BY DEF Leaves, Balanced
  <1>6. Spoilt(r) => Spoilt(q)
    <2>1. r.status # "bad"
      BY DEF None
    <2> QED
      BY <2>1, Zenon DEF Leaves, Spoilt
  <1>7. q.pc # None
    BY SMT DEF Leaves, None
  <1>8. r.errors => q.errors
    BY DEF Leaves
  <1> QED
    BY <1>1, <1>2, <1>3, <1>4, <1>5, <1>6, <1>7, <1>8, Zenon DEF StepOK, Local
\* A record that differs from r only in what StepOK does not look at.
LEMMA StepOKFrom ==
    ASSUME NEW r, NEW u, NEW q, NEW c, StepOK(u, q, c),
           r.pc # None, u.pc # None, r.status = None, u.status = None,
           r.errors => u.errors, r.bad > 0 => u.bad > 0 \/ u.errors
    PROVE  StepOK(r, q, c)
  BY Zenon DEF StepOK, Spoilt, None

\* Job_TokenReturn() of the token of a job that is gone.
LEMMA TokenReturnedOK ==
    ASSUME NEW r \in Record, NEW ret \in {"loop", "finish", "start"}, NEW c \in Nat,
           r.running = r.jobs + r.good + r.bad + 1 + c,
           ~r.have, r.hand = None, r.status = None, r.pc # None
    PROVE  /\ StepOK(r, TokenReturned(r, ret), c)
           /\ TokenReturned(r, ret).aborting = r.aborting
           /\ r.aborting = "error" => TokenReturned(r, ret).hand = "E"
  <1> DEFINE q == TokenReturned(r, ret)
             l == IF Token(r) = "+" THEN "addwrite" ELSE "addflush"
             v == [r EXCEPT !.running = @ - 1, !.hand = Token(r), !.ret = ret, !.pc = l]
             u == [r EXCEPT !.running = 0]
  <1>1. /\ r.running \in 0..MaxJobs /\ r.jobs \in Nat /\ r.good \in Nat /\ r.bad \in Nat
        /\ MaxJobs \in Nat
    BY JobTokensAssumption, Zenon DEF Record
  <1>2. /\ r.running - 1 \in 0..MaxJobs /\ 0 \in 0..MaxJobs
        /\ r.running - 1 = r.jobs + r.good + r.bad + 0 + c
        /\ r.running = 1 => 0 = r.jobs + r.good + r.bad + 0 + c
    BY <1>1, SMT
  <1>3. Token(r) \in {"+", "E"} /\ (r.aborting = "error" <=> Token(r) = "E")
    BY Zenon DEF Token
  <1>4. l \in {"addwrite", "addflush"} /\ (l = "addflush" => Token(r) = "E")
    BY <1>3
  <1>5. CASE r.running # 1 \/ Token(r) # "+"
    <2>1. q = v
      BY <1>5, Zenon DEF TokenReturned
    <2> HIDE DEF q, l
    <2>2. /\ v.running = r.running - 1 /\ v.jobs = r.jobs /\ v.good = r.good /\ v.bad = r.bad
          /\ v.have = r.have /\ v.errors = r.errors /\ v.aborting = r.aborting
          /\ v.pc = l /\ v.hand = Token(r) /\ v.ret = ret /\ v.status = r.status
      BY Zenon DEF Record
    <2>3. v \in Record
      BY <1>2, <1>3, <1>4, Zenon DEF Record
    <2> HIDE DEF v
    <2>4. Balanced(v, c)
      BY <1>2, <2>2, Zenon DEF Balanced
    <2>5. HandKnown(v)
      BY <1>3, <1>4, <2>2, SMT DEF HandKnown, None
    <2>6. HaveKnown(v)
      BY <1>4, <2>2, SMT DEF HaveKnown
    <2>7. StatusKnown(v)
      BY <1>4, <2>2, SMT DEF StatusKnown, None
    <2>8. v.pc # None /\ v.status # "good"
      BY <1>4, <2>2, SMT DEF None
    <2>9. Spoilt(r) => Spoilt(v)
      BY <2>2, Zenon DEF Spoilt
    <2>10. StepOK(r, v, c)
      BY <2>2, <2>3, <2>4, <2>5, <2>6, <2>7, <2>8, <2>9, Zenon DEF StepOK, Local
    <2> QED
      BY <1>3, <2>1, <2>2, <2>10 DEF q
  <1>6. CASE ~(r.running # 1 \/ Token(r) # "+")
    <2>1. q = Returned(u, ret)
      BY <1>6, Zenon DEF TokenReturned
    <2> HIDE DEF q
    <2>2. /\ u.running = 0 /\ u.jobs = r.jobs /\ u.good = r.good /\ u.bad = r.bad
          /\ u.have = r.have /\ u.errors = r.errors /\ u.aborting = r.aborting
          /\ u.pc = r.pc /\ u.hand = r.hand /\ u.status = r.status
      BY Zenon DEF Record
    <2>3. u \in Record
      BY <1>2, Zenon DEF Record
    <2> HIDE DEF u
    <2>4. Balanced(u, c)
      BY <1>2, <1>6, <2>2, Zenon DEF Balanced
    <2>5. Leaves(u, q)
      BY <2>1, <2>3, ReturnedLeaves
    <2>6. StepOK(u, q, c)
      BY <2>2, <2>3, <2>4, <2>5, LeavesOK
    <2>7. StepOK(r, q, c)
      BY <2>2, <2>6, StepOKFrom
    <2>8. q.aborting = r.aborting /\ r.aborting # "error"
      BY <1>3, <1>6, <2>2, <2>5 DEF Leaves
    <2> QED
      BY <2>7, <2>8 DEF q
  <1> QED
    BY <1>5, <1>6

\* Make_Update() moves nodes to toBeMade.
LEMMA UpdatedFacts ==
    ASSUME NEW r \in Record, NEW u \in Updated(r)
    PROVE  /\ u \in Record
           /\ u.pc = r.pc /\ u.ret = r.ret /\ u.hand = r.hand /\ u.aborting = r.aborting
           /\ u.running = r.running /\ u.have = r.have /\ u.errors = r.errors
           /\ u.jobs = r.jobs /\ u.good = r.good /\ u.bad = r.bad /\ u.status = r.status
  <1>1. PICK k \in 0..r.later : u = [r EXCEPT !.todo = @ + k, !.later = @ - k]
    BY Zenon DEF Updated
  <1>2. r.todo \in Nat /\ r.later \in Nat
    BY Zenon DEF Record
  <1>3. r.todo + k \in Nat /\ r.later - k \in Nat
    BY <1>2, SMT
  <1>4. u \in Record
    BY <1>1, <1>3, Zenon DEF Record
  <1> QED
    BY <1>1, <1>4, ZenonT(60) DEF Record
\* The end of a job: its token is returned, and its failure noted.
LEMMA FinishedOK ==
    ASSUME NEW r \in Record, NEW ok \in BOOLEAN, NEW c \in Nat, NEW x \in Finished(r, ok),
           r.running = r.jobs + r.good + r.bad + 1 + c,
           ~r.have, r.hand = None, r.status = None, r.pc # None
    PROVE  /\ StepOK(r, x, c)
           /\ ~ok => x.errors
           /\ x.aborting = "error" => x.hand = "E"
           /\ r.aborting = "error" => x.aborting = "error"
  <1> DEFINE e == [r EXCEPT !.errors = @ \/ ~ok]
             ab == IF e.errors /\ ~opt.keepgoing THEN "error" ELSE e.aborting
             a == [e EXCEPT !.aborting = ab]
  <1>1. /\ e \in Record
        /\ e.errors = (r.errors \/ ~ok) /\ e.aborting = r.aborting
        /\ e.pc = r.pc /\ e.ret = r.ret /\ e.hand = r.hand /\ e.status = r.status
        /\ e.running = r.running /\ e.have = r.have
        /\ e.jobs = r.jobs /\ e.good = r.good /\ e.bad = r.bad
    BY Zenon DEF Record
  <1> HIDE DEF e
  <1>2. ab \in {None, "error", "wait"} /\ (r.aborting = "error" => ab = "error")
    BY <1>1, Zenon DEF Record
  <1> HIDE DEF ab
  <1>3. /\ a \in Record
        /\ a.errors = e.errors /\ a.aborting = ab
        /\ a.pc = e.pc /\ a.ret = e.ret /\ a.hand = e.hand /\ a.status = e.status
        /\ a.running = e.running /\ a.have = e.have
        /\ a.jobs = e.jobs /\ a.good = e.good /\ a.bad = e.bad
    BY <1>1, <1>2, Zenon DEF Record
  <1>4. PICK u \in IF ok /\ r.aborting # "error" THEN Updated(a) ELSE {a} :
               x = TokenReturned(u, "finish")
    BY Zenon DEF Finished, e, ab
  <1> HIDE DEF a
  <1>5. /\ u \in Record
        /\ u.errors = a.errors /\ u.aborting = a.aborting
        /\ u.pc = a.pc /\ u.hand = a.hand /\ u.status = a.status
        /\ u.running = a.running /\ u.have = a.have
        /\ u.jobs = a.jobs /\ u.good = a.good /\ u.bad = a.bad
    BY <1>3, <1>4, UpdatedFacts, Zenon
  <1>6. /\ StepOK(u, x, c) /\ x.aborting = u.aborting
        /\ u.aborting = "error" => x.hand = "E"
    <2>1. u.jobs = r.jobs /\ u.good = r.good /\ u.bad = r.bad /\ u.running = r.running
      BY <1>1, <1>3, <1>5
    <2>2. u.running = u.jobs + u.good + u.bad + 1 + c
      BY <2>1
    <2>3. ~u.have /\ u.hand = None /\ u.status = None /\ u.pc # None
      BY <1>1, <1>3, <1>5, Zenon
    <2> QED
      BY <1>4, <1>5, <2>2, <2>3, TokenReturnedOK, Zenon
  <1>7. StepOK(r, x, c)
    BY <1>1, <1>3, <1>5, <1>6, StepOKFrom, ZenonT(60)
  <1>8. ~ok => x.errors
    BY <1>1, <1>3, <1>5, <1>6, Zenon DEF StepOK
  <1> QED
    BY <1>2, <1>3, <1>5, <1>6, <1>7, <1>8, Zenon

\* A live make that goes on with what StepOK looks at in order.
LEMMA EditOK ==
    ASSUME NEW r \in Record, Local(r), NEW q \in Record, NEW c \in Nat, Balanced(q, c),
           r.pc \notin {None, "exited"}, q.pc \notin {None, "exited"},
           q.status = r.status, r.errors => q.errors, r.bad > 0 => q.bad > 0,
           HandKnown(q), HaveKnown(q)
    PROVE  StepOK(r, q, c)
  <1>1. r.status = None
    BY DEF Local, StatusKnown
  <1>2. StatusKnown(q)
    BY <1>1, SMT DEF StatusKnown, None
  <1> QED
    BY <1>1, <1>2, Zenon DEF StepOK, Local, Spoilt, None

\* A step that leaves a make as it is.
LEMMA SameOK ==
    ASSUME NEW r \in Record, Local(r), NEW c, r.pc \notin {None, "exited"} => Balanced(r, c)
    PROVE  StepOK(r, r, c)
  BY Zenon DEF StepOK

\* Job_TokenWithdraw() succeeds.
LEMMA WithdrawnOK ==
    ASSUME NEW r \in Record, Local(r), NEW c \in Nat, Balanced(r, c), r.pc \in {"read", "putback"}
    PROVE  StepOK(r, Withdrawn(r), c)
  <1> DEFINE q == Withdrawn(r)
  <1>1. /\ r.running \in 0..MaxJobs /\ r.running < MaxJobs /\ MaxJobs \in Nat /\ r.todo > 0
        /\ ~r.have
    BY JobTokensAssumption, SMT DEF Record, Local, HaveKnown, None
  <1>2. r.running + 1 \in 0..MaxJobs
    BY <1>1, SMT
  <1>3. q \in Record
    BY <1>2, Zenon DEF Record, Withdrawn
  <1>4. /\ q.running = r.running + 1 /\ q.jobs = r.jobs /\ q.good = r.good /\ q.bad = r.bad
        /\ q.have = TRUE /\ q.errors = r.errors /\ q.todo = r.todo
        /\ q.pc = "examine" /\ q.hand = None /\ q.status = r.status
    BY Zenon DEF Record, Withdrawn
  <1>5. r.jobs \in Nat /\ r.good \in Nat /\ r.bad \in Nat
    BY Zenon DEF Record
  <1> HIDE DEF q
  <1>6. Balanced(q, c)
    BY <1>1, <1>4, <1>5, SMT DEF Balanced
  <1>7. HandKnown(q) /\ HaveKnown(q)
    BY <1>1, <1>4, SMT DEF HandKnown, HaveKnown, None
  <1>8. r.pc \notin {None, "exited"} /\ q.pc \notin {None, "exited"}
    BY <1>4, SMT DEF None
  <1>9. StepOK(r, q, c)
    BY <1>3, <1>4, <1>6, <1>7, <1>8, EditOK, Zenon
  <1> QED
    BY <1>9 DEF q

\* A make without a token goes through the loop, whatever it has set before.
LEMMA LoopOK ==
    ASSUME NEW r \in Record, Local(r), NEW c \in Nat, Balanced(r, c),
           r.pc \notin {None, "exited"}, ~r.have, NEW u \in Record,
           u.running = r.running, u.jobs = r.jobs, u.good = r.good, u.bad = r.bad,
           u.have = r.have, u.errors = r.errors, u.pc = r.pc, u.status = r.status,
           u.hand = None
    PROVE  StepOK(r, Looped(u), c) /\ Looped(u).aborting = u.aborting
  <1>1. r.status = None
    BY DEF Local, StatusKnown
  <1>2. Balanced(u, c)
    BY Zenon DEF Balanced
  <1>3. Leaves(u, Looped(u))
    BY LoopedLeaves
  <1>4. StepOK(u, Looped(u), c)
    BY <1>1, <1>2, <1>3, LeavesOK, Zenon
  <1>5. StepOK(r, Looped(u), c)
    BY <1>1, <1>4, StepOKFrom, Zenon
  <1> QED
    BY <1>3, <1>5 DEF Leaves

\* A make that is killed or gives up.
LEMMA ExitedOK ==
    ASSUME NEW r \in Record, Local(r), NEW c, r.pc \notin {None, "exited"}, NEW j \in Nat,
           j = r.jobs \/ j = 0
    PROVE  /\ StepOK(r, Exited(r, "bad"), c)
           /\ StepOK(r, [Exited(r, "bad") EXCEPT !.jobs = j], c)
  <1> DEFINE q == Exited(r, "bad")
             p == [q EXCEPT !.jobs = j]
  <1>0. r.status = None
    BY DEF Local, StatusKnown
  <1>1. q \in Record
    BY Zenon DEF Record, Exited
  <1>2. /\ q.errors = r.errors /\ q.bad = r.bad
        /\ q.pc = "exited" /\ q.hand = None /\ q.status = "bad"
    BY Zenon DEF Record, Exited
  <1> HIDE DEF q
  <1>3. p \in Record /\ p.errors = q.errors /\ p.bad = q.bad /\ p.pc = q.pc /\ p.hand = q.hand
        /\ p.status = q.status
    BY <1>1, Zenon DEF Record
  <1> HIDE DEF p
  <1>4. ASSUME NEW x \in Record, x.errors = r.errors, x.pc = "exited", x.hand = None,
               x.status = "bad"
        PROVE  StepOK(r, x, c)
    <2>1. HandKnown(x) /\ HaveKnown(x) /\ StatusKnown(x)
      BY <1>4, SMT DEF HandKnown, HaveKnown, StatusKnown, None
    <2>2. x.pc # None
      BY <1>4, SMT DEF None
    <2> QED
      BY <1>0, <1>4, <2>1, <2>2, Zenon DEF StepOK, Local, Spoilt
  <1>5. StepOK(r, q, c)
    BY <1>1, <1>2, <1>4
  <1>6. StepOK(r, p, c)
    BY <1>2, <1>3, <1>4
  <1> QED
    BY <1>5, <1>6 DEF q, p
-----------------------------------------------------------------------------
(* One step of one make. *)

\* TypeOK, with a name for what a make is.
Typed ==
    /\ opt \in Options
    /\ pipe \in Seq({"+", "E"}) /\ Len(pipe) <= PipeSize
    /\ mk \in [Makes -> Record]
    /\ kills \in 0..MaxKills /\ failed \in BOOLEAN

\* The typing of make's records in the form the provers use is that of the model.
LEMMA TypedOK == Typed <=> TypeOK
  BY Zenon DEF Typed, TypeOK, Record

\* The sub-makes are finitely many.
LEMMA SubsFinite ==
    ASSUME NEW m
    PROVE  IsFiniteSet(Subs(m)) /\ Cardinality(Subs(m)) \in Nat
  <1>1. IsFiniteSet(Subs(m))
    BY JobTokensAssumption, FS_Subset DEF Subs
  <1> QED
    BY <1>1, FS_CardinalityType

\* The steps that change nothing but the pipe and the make that takes them.
Own(m) ==
    \/ ServerStart(m) \/ AddFlush(m) \/ AddWrite(m)
    \/ StartJobs(m) \/ WithdrawEmpty(m) \/ WithdrawToken(m) \/ PutBack(m)
    \/ WithdrawStopper(m) \/ StopFlush(m) \/ StopPut(m)
    \/ UpToDate(m) \/ Defer(m) \/ StartShell(m) \/ StartNothing(m)
    \/ CatchNothing(m)
    \/ \E ok \in BOOLEAN : CatchShell(m, ok)

\* Each of them leaves the make in order.
LEMMA OwnOK ==
    ASSUME Typed, MakeInv, NEW m \in Makes, Own(m)
    PROVE  \E q : Becomes(m, q) /\ StepOK(mk[m], q, Cardinality(Subs(m)))
  <1> DEFINE r == mk[m]
             c == Cardinality(Subs(m))
             Goal == \E q : Becomes(m, q) /\ StepOK(r, q, c)
  <1> USE DEF Becomes
  <1> SUFFICES Goal
    OBVIOUS
  <1>r. r \in Record /\ Local(r) /\ c \in Nat
    BY SubsFinite DEF Typed, MakeInv
  <1>l. r.pc \notin {None, "exited"} => Balanced(r, c) /\ r.status = None
    BY <1>r DEF MakeInv, Live, Local, StatusKnown
  <1>n. /\ r.running \in 0..MaxJobs /\ MaxJobs \in Nat /\ r.jobs \in Nat /\ r.good \in Nat
        /\ r.bad \in Nat /\ r.todo \in Nat /\ r.later \in Nat
    BY <1>r, JobTokensAssumption, Zenon DEF Record
  <1> HIDE DEF c
  <1>edit. ASSUME NEW q \in Record, Becomes(m, q), r.pc \notin {None, "exited"},
                  q.pc \notin {None, "exited"}, q.running = r.running, q.jobs = r.jobs,
                  q.good = r.good, q.bad = r.bad, q.have = r.have, q.status = r.status,
                  q.errors = r.errors, HandKnown(q), HaveKnown(q)
           PROVE  Goal
    <2>1. Balanced(q, c)
      BY <1>l, <1>edit, Zenon DEF Balanced
    <2> QED
      BY <1>r, <1>edit, <2>1, EditOK, Zenon
  <1>1. CASE ServerStart(m)
    <2>1. r.pc = "server" /\ r.pc \notin {None, "exited"} /\ ~r.have /\ r.hand = None
      BY <1>1, <1>r, SMT DEF ServerStart, Local, HaveKnown, HandKnown, None
    <2>2. StepOK(r, r, c)
      BY <1>r, <1>l, <2>1, SameOK
    <2> DEFINE q == [r EXCEPT !.pc = "start"]
    <2>3. /\ q \in Record /\ q.pc = "start" /\ q.running = r.running /\ q.jobs = r.jobs
          /\ q.good = r.good /\ q.bad = r.bad /\ q.have = r.have /\ q.status = r.status
          /\ q.errors = r.errors /\ q.hand = r.hand
      BY <1>r, Zenon DEF Record
    <2> HIDE DEF q
    <2>4. HandKnown(q) /\ HaveKnown(q) /\ q.pc \notin {None, "exited"}
      BY <2>1, <2>3, SMT DEF HandKnown, HaveKnown, None
    <2>5. Becomes(m, q) => Goal
      BY <2>1, <2>3, <2>4, <1>edit
    <2> QED
      BY <1>1, <2>2, <2>5, Zenon DEF ServerStart, q
  <1>2. CASE AddFlush(m)
    <2>1. /\ r.pc = "addflush" /\ r.pc \notin {None, "exited"}
          /\ ~r.have /\ r.hand = "E" /\ r.ret # None
      BY <1>2, <1>r, SMT DEF AddFlush, Local, HaveKnown, HandKnown, None
    <2>2. StepOK(r, r, c)
      BY <1>r, <1>l, <2>1, SameOK
    <2> DEFINE q == [r EXCEPT !.pc = "addwrite"]
    <2>3. /\ q \in Record /\ q.pc = "addwrite" /\ q.running = r.running /\ q.jobs = r.jobs
          /\ q.good = r.good /\ q.bad = r.bad /\ q.have = r.have /\ q.status = r.status
          /\ q.errors = r.errors /\ q.hand = r.hand /\ q.ret = r.ret
      BY <1>r, Zenon DEF Record
    <2> HIDE DEF q
    <2>4. HandKnown(q) /\ HaveKnown(q) /\ q.pc \notin {None, "exited"}
      BY <2>1, <2>3, SMT DEF HandKnown, HaveKnown, None
    <2>5. Becomes(m, q) => Goal
      BY <2>1, <2>3, <2>4, <1>edit
    <2> QED
      BY <1>2, <2>2, <2>5, Zenon DEF AddFlush, q
  <1>3. CASE AddWrite(m)
    <2>1. r.pc = "addwrite" /\ r.pc \notin {None, "exited"} /\ ~r.have /\ r.ret # None
      BY <1>3, <1>r, SMT DEF AddWrite, Local, HaveKnown, HandKnown, None
    <2> DEFINE u == [r EXCEPT !.hand = None, !.ret = None]
    <2>2. /\ u \in Record /\ u.running = r.running /\ u.jobs = r.jobs /\ u.good = r.good
          /\ u.bad = r.bad /\ u.have = r.have /\ u.errors = r.errors /\ u.pc = r.pc
          /\ u.status = r.status /\ u.hand = None
      BY <1>r, Zenon DEF Record
    <2> HIDE DEF u
    <2>3. r.ret \in {"loop", "finish", "start"}
      BY <1>r, <2>1, Zenon DEF Record
    <2>4. Leaves(u, Returned(u, r.ret))
      BY <2>2, <2>3, ReturnedLeaves
    <2>5. Balanced(u, c)
      BY <1>l, <2>1, <2>2, Zenon DEF Balanced
    <2>6. StepOK(u, Returned(u, r.ret), c)
      BY <1>r, <1>l, <2>1, <2>2, <2>4, <2>5, LeavesOK, Zenon
    <2>7. StepOK(r, Returned(u, r.ret), c)
      BY <1>l, <2>1, <2>2, <2>6, StepOKFrom, Zenon
    <2> QED
      BY <1>3, <2>7, Zenon DEF AddWrite, u  <1>4. CASE StartJobs(m)
    <2>1. r.pc = "start" /\ r.pc \notin {None, "exited"} /\ r.hand = None
      BY <1>4, <1>r, SMT DEF StartJobs, Local, HandKnown, None
    <2> DEFINE r0 == [r EXCEPT !.have = FALSE]
               w == [r EXCEPT !.want = FALSE]
               e == [r EXCEPT !.pc = "examine"]
               d == [w EXCEPT !.pc = "read"]
    <2>2. \/ r.todo = 0 /\ r.have /\ Becomes(m, TokenReturned(r0, "loop"))
          \/ r.todo = 0 /\ ~r.have /\ Becomes(m, Looped(r))
          \/ r.todo # 0 /\ r.have /\ Becomes(m, e)
          \/ r.todo # 0 /\ ~r.have /\ Becomes(m, Looped(w))
          \/ r.todo # 0 /\ ~r.have /\ ~(r.running >= MaxJobs) /\ Becomes(m, d)
      BY <1>4, Zenon DEF StartJobs
    <2>3. /\ r0 \in Record /\ r0.running = r.running /\ r0.jobs = r.jobs /\ r0.good = r.good
          /\ r0.bad = r.bad /\ r0.have = FALSE /\ r0.errors = r.errors /\ r0.pc = r.pc
          /\ r0.status = r.status /\ r0.hand = r.hand
      BY <1>r, Zenon DEF Record
    <2>4. /\ w \in Record /\ w.running = r.running /\ w.jobs = r.jobs /\ w.good = r.good
          /\ w.bad = r.bad /\ w.have = r.have /\ w.errors = r.errors /\ w.pc = r.pc
          /\ w.status = r.status /\ w.hand = r.hand /\ w.todo = r.todo
      BY <1>r, Zenon DEF Record
    <2>5. /\ e \in Record /\ e.running = r.running /\ e.jobs = r.jobs /\ e.good = r.good
          /\ e.bad = r.bad /\ e.have = r.have /\ e.errors = r.errors /\ e.pc = "examine"
          /\ e.status = r.status /\ e.hand = r.hand /\ e.todo = r.todo
      BY <1>r, Zenon DEF Record
    <2> HIDE DEF r0, w, e
    <2>6. /\ d \in Record /\ d.running = w.running /\ d.jobs = w.jobs /\ d.good = w.good
          /\ d.bad = w.bad /\ d.have = w.have /\ d.errors = w.errors /\ d.pc = "read"
          /\ d.status = w.status /\ d.hand = w.hand /\ d.todo = w.todo
      BY <2>4, Zenon DEF Record
    <2> HIDE DEF d
    <2>7. CASE r.todo = 0 /\ r.have /\ Becomes(m, TokenReturned(r0, "loop"))
      <3>1. r.running = r.jobs + r.good + r.bad + 1 + c
        BY <1>l, <2>1, <2>7, Zenon DEF Balanced
      <3>2. r0.running = r0.jobs + r0.good + r0.bad + 1 + c
        BY <2>3, <3>1, Zenon
      <3>3. StepOK(r0, TokenReturned(r0, "loop"), c)
        BY <1>r, <1>l, <2>1, <2>3, <3>2, TokenReturnedOK, Zenon
      <3>4. StepOK(r, TokenReturned(r0, "loop"), c)
        BY <1>l, <2>1, <2>3, <3>3, StepOKFrom, Zenon
      <3> QED
        BY <2>7, <3>4
    <2>8. CASE r.todo = 0 /\ ~r.have /\ Becomes(m, Looped(r))
      BY <1>r, <1>l, <2>1, <2>8, LoopOK, Zenon
    <2>9. CASE r.todo # 0 /\ r.have /\ Becomes(m, e)
      <3>1. HandKnown(e) /\ HaveKnown(e) /\ e.pc \notin {None, "exited"}
        BY <1>n, <2>1, <2>5, <2>9, SMT DEF HandKnown, HaveKnown, None
      <3> QED
        BY <2>1, <2>5, <2>9, <3>1, <1>edit
    <2>10. CASE r.todo # 0 /\ ~r.have /\ Becomes(m, Looped(w))
      BY <1>r, <1>l, <2>1, <2>4, <2>10, LoopOK, Zenon
    <2>11. CASE r.todo # 0 /\ ~r.have /\ ~(r.running >= MaxJobs) /\ Becomes(m, d)
      <3>1. HandKnown(d) /\ HaveKnown(d) /\ d.pc \notin {None, "exited"}
        BY <1>n, <2>1, <2>4, <2>6, <2>11, SMT DEF HandKnown, HaveKnown, None
      <3> QED
        BY <2>1, <2>4, <2>6, <2>11, <3>1, <1>edit
    <2> QED
      BY <2>2, <2>7, <2>8, <2>9, <2>10, <2>11, Zenon
  <1>5. CASE WithdrawEmpty(m)
    <2>1. r.pc = "read" /\ r.pc \notin {None, "exited"} /\ r.hand = None /\ ~r.have
      BY <1>5, <1>r, SMT DEF WithdrawEmpty, Local, HandKnown, HaveKnown, None
    <2> DEFINE w == [r EXCEPT !.want = TRUE]
    <2>2. /\ w \in Record /\ w.running = r.running /\ w.jobs = r.jobs /\ w.good = r.good
          /\ w.bad = r.bad /\ w.have = r.have /\ w.errors = r.errors /\ w.pc = r.pc
          /\ w.status = r.status /\ w.hand = r.hand
      BY <1>r, Zenon DEF Record
    <2>3. Becomes(m, Looped(w)) \/ Becomes(m, Withdrawn(r))
      BY <1>5, Zenon DEF WithdrawEmpty
    <2> HIDE DEF w
    <2>4. StepOK(r, Looped(w), c)
      BY <1>r, <1>l, <2>1, <2>2, LoopOK, Zenon
    <2>5. StepOK(r, Withdrawn(r), c)
      BY <1>r, <1>l, <2>1, WithdrawnOK, Zenon
    <2> QED
      BY <2>3, <2>4, <2>5, Zenon
  <1>6. CASE WithdrawToken(m)
    <2>1. r.pc = "read" /\ r.pc \notin {None, "exited"} /\ r.hand = None /\ ~r.have
          /\ r.running < MaxJobs /\ r.todo > 0
      BY <1>6, <1>r, SMT DEF WithdrawToken, Local, HandKnown, HaveKnown, None
    <2> DEFINE q == [r EXCEPT !.hand = "+", !.pc = "putback"]
    <2>2. /\ q \in Record /\ q.running = r.running /\ q.jobs = r.jobs /\ q.good = r.good
          /\ q.bad = r.bad /\ q.have = r.have /\ q.errors = r.errors /\ q.pc = "putback"
          /\ q.status = r.status /\ q.hand = "+" /\ q.todo = r.todo
      BY <1>r, Zenon DEF Record
    <2>3. Becomes(m, q) \/ Becomes(m, Withdrawn(r))
      BY <1>6, Zenon DEF WithdrawToken
    <2> HIDE DEF q
    <2>4. HandKnown(q) /\ HaveKnown(q) /\ q.pc \notin {None, "exited"}
      BY <2>1, <2>2, SMT DEF HandKnown, HaveKnown, None
    <2>5. Becomes(m, q) => Goal
      BY <2>1, <2>2, <2>4, <1>edit
    <2>6. StepOK(r, Withdrawn(r), c)
      BY <1>r, <1>l, <2>1, WithdrawnOK, Zenon
    <2> QED
      BY <2>3, <2>5, <2>6, Zenon
  <1>7. CASE PutBack(m)
    <2>1. r.pc = "putback" /\ r.pc \notin {None, "exited"}
      BY <1>7, SMT DEF PutBack, None
    <2>2. StepOK(r, Withdrawn(r), c)
      BY <1>r, <1>l, <2>1, WithdrawnOK, Zenon
    <2> QED
      BY <1>7, <2>2, Zenon DEF PutBack
  <1>8. CASE WithdrawStopper(m)
    <2>1. r.pc = "read" /\ r.pc \notin {None, "exited"} /\ ~r.have
      BY <1>8, <1>r, SMT DEF WithdrawStopper, Local, HandKnown, HaveKnown, None
    <2>2. Head(pipe) = "E"
      BY <1>8, SMT DEF WithdrawStopper, Typed
    <2> DEFINE q == [r EXCEPT !.hand = "E", !.pc = "stopflush"]
    <2>3. /\ q \in Record /\ q.running = r.running /\ q.jobs = r.jobs /\ q.good = r.good
          /\ q.bad = r.bad /\ q.have = r.have /\ q.errors = r.errors /\ q.pc = "stopflush"
          /\ q.status = r.status /\ q.hand = "E"
      BY <1>r, Zenon DEF Record
    <2>4. Becomes(m, q)
      BY <1>8, <2>2, Zenon DEF WithdrawStopper
    <2> HIDE DEF q
    <2>5. HandKnown(q) /\ HaveKnown(q) /\ q.pc \notin {None, "exited"}
      BY <2>1, <2>3, SMT DEF HandKnown, HaveKnown, None
    <2> QED
      BY <2>1, <2>3, <2>4, <2>5, <1>edit
  <1>9. CASE StopFlush(m)
    <2>1. r.pc = "stopflush" /\ r.pc \notin {None, "exited"} /\ ~r.have /\ r.hand = "E"
      BY <1>9, <1>r, SMT DEF StopFlush, Local, HandKnown, HaveKnown, None
    <2> DEFINE q == [r EXCEPT !.pc = "stopput"]
    <2>2. StepOK(r, r, c)
      BY <1>r, <1>l, <2>1, SameOK
    <2>3. /\ q \in Record /\ q.running = r.running /\ q.jobs = r.jobs /\ q.good = r.good
          /\ q.bad = r.bad /\ q.have = r.have /\ q.errors = r.errors /\ q.pc = "stopput"
          /\ q.status = r.status /\ q.hand = r.hand
      BY <1>r, Zenon DEF Record
    <2>4. Becomes(m, q) \/ Becomes(m, r)
      BY <1>9, Zenon DEF StopFlush
    <2> HIDE DEF q
    <2>5. HandKnown(q) /\ HaveKnown(q) /\ q.pc \notin {None, "exited"}
      BY <2>1, <2>3, SMT DEF HandKnown, HaveKnown, None
    <2>6. Becomes(m, q) => Goal
      BY <2>1, <2>3, <2>5, <1>edit
    <2> QED
      BY <2>2, <2>4, <2>6, Zenon
  <1>10. CASE StopPut(m)
    <2>1. r.pc = "stopput" /\ r.pc \notin {None, "exited"} /\ ~r.have
      BY <1>10, <1>r, SMT DEF StopPut, Local, HandKnown, HaveKnown, None
    <2> DEFINE w == [r EXCEPT !.hand = None, !.fatal = TRUE, !.aborting = "wait"]
    <2>2. /\ w \in Record /\ w.running = r.running /\ w.jobs = r.jobs /\ w.good = r.good
          /\ w.bad = r.bad /\ w.have = r.have /\ w.errors = r.errors /\ w.pc = r.pc
          /\ w.status = r.status /\ w.hand = None
      BY <1>r, Zenon DEF Record
    <2>3. Becomes(m, Exited(r, "bad")) \/ Becomes(m, Looped(w))
      BY <1>10, Zenon DEF StopPut
    <2> HIDE DEF w
    <2>4. StepOK(r, Looped(w), c)
      BY <1>r, <1>l, <2>1, <2>2, LoopOK, Zenon
    <2>5. StepOK(r, Exited(r, "bad"), c)
      BY <1>r, <1>n, <2>1, ExitedOK, Zenon
    <2> QED
      BY <2>3, <2>4, <2>5, Zenon
  <1>d. ASSUME r.pc = "examine"
        PROVE  /\ Dequeued(m) \in Record /\ Dequeued(m).running = r.running
               /\ Dequeued(m).jobs = r.jobs /\ Dequeued(m).good = r.good
               /\ Dequeued(m).bad = r.bad /\ Dequeued(m).have = r.have
               /\ Dequeued(m).errors = r.errors /\ Dequeued(m).pc = "start"
               /\ Dequeued(m).status = r.status /\ Dequeued(m).hand = r.hand
               /\ Dequeued(m).aborting = r.aborting /\ Dequeued(m).later = r.later
               /\ r.have /\ r.hand = None /\ r.pc \notin {None, "exited"}
               /\ r.running = r.jobs + r.good + r.bad + 1 + c
    <2>1. r.have /\ r.hand = None /\ r.pc \notin {None, "exited"} /\ r.todo > 0
      BY <1>d, <1>r, SMT DEF Local, HandKnown, HaveKnown, None
    <2>2. r.todo - 1 \in Nat
      BY <1>n, <2>1, SMT
    <2>3. Dequeued(m) \in Record
      BY <1>r, <2>2, Zenon DEF Record, Dequeued
    <2>4. /\ Dequeued(m).running = r.running
          /\ Dequeued(m).jobs = r.jobs /\ Dequeued(m).good = r.good
          /\ Dequeued(m).bad = r.bad /\ Dequeued(m).have = r.have
          /\ Dequeued(m).errors = r.errors /\ Dequeued(m).pc = "start"
          /\ Dequeued(m).status = r.status /\ Dequeued(m).hand = r.hand
          /\ Dequeued(m).aborting = r.aborting /\ Dequeued(m).later = r.later
      BY <1>r, Zenon DEF Record, Dequeued
    <2>5. r.running = r.jobs + r.good + r.bad + 1 + c
      BY <1>l, <2>1, Zenon DEF Balanced
    <2> QED
      BY <2>1, <2>3, <2>4, <2>5, Zenon
  <1>11. CASE UpToDate(m)
    <2>1. PICK q \in Updated(Dequeued(m)) : Becomes(m, q)
      BY <1>11 DEF UpToDate
    <2>2. r.pc = "examine"
      BY <1>11 DEF UpToDate
    <2>3. /\ q \in Record /\ q.pc = "start" /\ q.running = r.running /\ q.jobs = r.jobs
          /\ q.good = r.good /\ q.bad = r.bad /\ q.have = r.have /\ q.status = r.status
          /\ q.errors = r.errors /\ q.hand = r.hand
      BY <1>d, <2>1, <2>2, UpdatedFacts, Zenon
    <2>4. HandKnown(q) /\ HaveKnown(q) /\ q.pc \notin {None, "exited"}
      BY <1>d, <2>2, <2>3, SMT DEF HandKnown, HaveKnown, None
    <2> QED
      BY <1>d, <2>1, <2>2, <2>3, <2>4, <1>edit
  <1>12. CASE Defer(m)
    <2>1. r.pc = "examine"
      BY <1>12 DEF Defer
    <2> DEFINE q == [Dequeued(m) EXCEPT !.later = @ + 1]
    <2>2. Dequeued(m).later + 1 \in Nat
      BY <1>d, <1>n, <2>1, SMT
    <2>3. q \in Record
      BY <1>d, <2>1, <2>2, Zenon DEF Record
    <2>4. /\ q.pc = "start" /\ q.running = r.running /\ q.jobs = r.jobs
          /\ q.good = r.good /\ q.bad = r.bad /\ q.have = r.have /\ q.status = r.status
          /\ q.errors = r.errors /\ q.hand = r.hand
      BY <1>d, <2>1, Zenon DEF Record
    <2>5. Becomes(m, q)
      BY <1>12 DEF Defer
    <2> HIDE DEF q
    <2>6. HandKnown(q) /\ HaveKnown(q) /\ q.pc \notin {None, "exited"}
      BY <1>d, <2>1, <2>4, SMT DEF HandKnown, HaveKnown, None
    <2> QED
      BY <1>d, <2>1, <2>3, <2>4, <2>5, <2>6, <1>edit
  <1>13. CASE StartShell(m)
    <2>1. r.pc = "examine"
      BY <1>13 DEF StartShell
    <2> DEFINE q == [Dequeued(m) EXCEPT !.jobs = @ + 1, !.have = FALSE]
    <2>2. Dequeued(m).jobs + 1 \in Nat
      BY <1>d, <1>n, <2>1, SMT
    <2>3. q \in Record
      BY <1>d, <2>1, <2>2, Zenon DEF Record
    <2>4. /\ q.pc = "start" /\ q.running = r.running /\ q.jobs = r.jobs + 1
          /\ q.good = r.good /\ q.bad = r.bad /\ q.have = FALSE /\ q.status = r.status
          /\ q.errors = r.errors /\ q.hand = r.hand
      BY <1>d, <2>1, Zenon DEF Record
    <2>5. Becomes(m, q)
      BY <1>13 DEF StartShell
    <2> HIDE DEF q
    <2>6. HandKnown(q) /\ HaveKnown(q) /\ q.pc \notin {None, "exited"}
      BY <1>d, <2>1, <2>4, SMT DEF HandKnown, HaveKnown, None
    <2>7. Balanced(q, c)
      <3>1. r.running = r.jobs + r.good + r.bad + 1 + c
        BY <1>d, <2>1
      <3> QED
        BY <1>n, <1>r, <2>4, <3>1, SMT DEF Balanced
    <2>8. StepOK(r, q, c)
      BY <1>d, <1>r, <2>1, <2>3, <2>4, <2>6, <2>7, EditOK, Zenon
    <2> QED
      BY <2>5, <2>8, Zenon
  <1>14. CASE StartNothing(m)
    <2>1. r.pc = "examine"
      BY <1>14 DEF StartNothing
    <2>2. PICK u \in IF r.aborting = None THEN Updated(Dequeued(m)) ELSE {Dequeued(m)} :
                 Becomes(m, TokenReturned([u EXCEPT !.have = FALSE], "start"))
      BY <1>14, Zenon DEF StartNothing
    <2>3. /\ u \in Record /\ u.pc = "start" /\ u.running = r.running /\ u.jobs = r.jobs
          /\ u.good = r.good /\ u.bad = r.bad /\ u.status = r.status
          /\ u.errors = r.errors /\ u.hand = r.hand
      BY <1>d, <2>1, <2>2, UpdatedFacts, Zenon
    <2> DEFINE v == [u EXCEPT !.have = FALSE]
    <2>4. /\ v \in Record /\ v.pc = "start" /\ v.running = r.running /\ v.jobs = r.jobs
          /\ v.good = r.good /\ v.bad = r.bad /\ v.have = FALSE /\ v.status = r.status
          /\ v.errors = r.errors /\ v.hand = r.hand
      BY <2>3, Zenon DEF Record
    <2> HIDE DEF v
    <2>5. v.running = v.jobs + v.good + v.bad + 1 + c
      BY <1>d, <2>1, <2>4, Zenon
    <2>6. v.pc # None
      BY <2>4, SMT DEF None
    <2>7. StepOK(v, TokenReturned(v, "start"), c)
      BY <1>d, <1>r, <1>l, <2>1, <2>4, <2>5, <2>6, TokenReturnedOK, Zenon
    <2>8. StepOK(r, TokenReturned(v, "start"), c)
      BY <1>d, <1>l, <2>1, <2>4, <2>6, <2>7, StepOKFrom, Zenon
    <2> QED
      BY <2>2, <2>8, Zenon DEF v
  <1>15. CASE CatchNothing(m)
    <2>1. r.pc = "catch" /\ r.pc \notin {None, "exited"} /\ ~r.have /\ r.hand = None
      BY <1>15, <1>r, SMT DEF CatchNothing, Local, HaveKnown, HandKnown, None
    <2> DEFINE q == [r EXCEPT !.pc = "start"]
    <2>2. Becomes(m, Looped(r)) \/ Becomes(m, q)
      BY <1>15, Zenon DEF CatchNothing
    <2>3. StepOK(r, Looped(r), c)
      BY <1>r, <1>l, <2>1, LoopOK, Zenon
    <2>4. /\ q \in Record /\ q.running = r.running /\ q.jobs = r.jobs /\ q.good = r.good
          /\ q.bad = r.bad /\ q.have = r.have /\ q.errors = r.errors /\ q.pc = "start"
          /\ q.status = r.status /\ q.hand = r.hand
      BY <1>r, Zenon DEF Record
    <2> HIDE DEF q
    <2>5. HandKnown(q) /\ HaveKnown(q) /\ q.pc \notin {None, "exited"}
      BY <2>1, <2>4, SMT DEF HandKnown, HaveKnown, None
    <2>6. Becomes(m, q) => Goal
      BY <2>1, <2>4, <2>5, <1>edit
    <2> QED
      BY <2>2, <2>3, <2>6, Zenon
  <1>16. ASSUME NEW ok \in BOOLEAN, CatchShell(m, ok) PROVE Goal
    <2>1. r.pc = "catch" /\ r.pc \notin {None, "exited"} /\ ~r.have /\ r.hand = None
      BY <1>16, <1>r, SMT DEF CatchShell, Local, HaveKnown, HandKnown, None
    <2> DEFINE v == IF ok THEN [r EXCEPT !.good = @ - 1] ELSE [r EXCEPT !.bad = @ - 1]
    <2>2. PICK x \in Finished(v, ok) : Becomes(m, x)
      BY <1>16, Zenon DEF CatchShell
    <2>3. (IF ok THEN r.good ELSE r.bad) > 0
      BY <1>16, Zenon DEF CatchShell
    <2>4. (ok => r.good - 1 \in Nat) /\ (~ok => r.bad - 1 \in Nat)
      BY <1>n, <2>3, SMT
    <2>5. v \in Record
      BY <1>r, <2>4, Zenon DEF Record
    <2>6. /\ v.pc = r.pc /\ v.running = r.running /\ v.jobs = r.jobs /\ v.have = r.have
          /\ v.errors = r.errors /\ v.status = r.status /\ v.hand = r.hand
          /\ v.good = (IF ok THEN r.good - 1 ELSE r.good)
          /\ v.bad = (IF ok THEN r.bad ELSE r.bad - 1)
      BY <1>r, Zenon DEF Record
    <2> HIDE DEF v
    <2>7. v.running = v.jobs + v.good + v.bad + 1 + c
      <3>1. r.running = r.jobs + r.good + r.bad + 0 + c
        BY <1>l, <2>1, Zenon DEF Balanced
      <3> QED
        BY <1>n, <1>r, <2>6, <3>1, SMT
    <2>8. StepOK(v, x, c) /\ (~ok => x.errors)
      <3>1. ~v.have /\ v.hand = None /\ v.status = None /\ v.pc # None
        BY <1>l, <2>1, <2>6, Zenon
      <3> QED
        BY <1>r, <1>16, <2>2, <2>5, <2>7, <3>1, FinishedOK
    <2>9. StepOK(r, x, c)
      <3>1. CASE ok
        BY <1>l, <2>1, <2>6, <2>8, <3>1, StepOKFrom, Zenon
      <3>2. CASE ~ok
        BY <1>l, <2>1, <2>6, <2>8, <3>2, Zenon DEF StepOK, Spoilt
      <3> QED
        BY <3>1, <3>2
    <2> QED
      BY <2>2, <2>9, Zenon
  <1> HIDE DEF r, Goal, Becomes
  <1> QED
    BY <1>1, <1>2, <1>3, <1>4, <1>5, <1>6, <1>7, <1>8, <1>9, <1>10, <1>11, <1>12, <1>13,
       <1>14, <1>15, <1>16, Zenon DEF Own

-----------------------------------------------------------------------------
(* All makes: a step in which none is started or reaped keeps MakeInv. *)

\* If every make's record changes as StepOK allows, the invariant of the records is kept.
LEMMA AllStepOK ==
    ASSUME Typed, MakeInv, mk' \in [Makes -> Record],
           \A x \in Makes : StepOK(mk[x], mk'[x], Cardinality(Subs(x)))
    PROVE  MakeInv'
  <1>0. SubMakes \subseteq Makes /\ Root \in Makes /\ \A s \in SubMakes : Parent[s] \in Makes
    BY JobTokensAssumption DEF Makes
  <1>1. \A x \in Makes : mk'[x].pc = None <=> mk[x].pc = None
    BY Zenon DEF StepOK
  <1>2. ASSUME NEW x PROVE Subs(x)' = Subs(x)
    BY <1>0, <1>1, Zenon DEF Subs
  <1>3. (mk[Root].pc # None)'
    BY <1>0, <1>1 DEF MakeInv
  <1>4. \A x \in Makes : Local(mk[x])'
    BY Zenon DEF StepOK
  <1>5. ASSUME NEW x \in Makes, Live(x)' PROVE Balanced(mk[x], Cardinality(Subs(x)))'
    <2>1. Balanced(mk'[x], Cardinality(Subs(x)))
      BY <1>5, Zenon DEF StepOK, Live
    <2> QED
      BY <1>2, <2>1
  <1>6. ASSUME NEW s \in SubMakes, mk'[s].pc # None
        PROVE  /\ mk'[Parent[s]].status # "good"
               /\ mk'[Parent[s]].pc # None \/ mk'[Parent[s]].status # None
    <2> DEFINE p == Parent[s]
    <2>1. /\ p \in Makes /\ mk[s].pc # None
          /\ mk[p].status # "good" /\ (mk[p].pc # None \/ mk[p].status # None)
      BY <1>0, <1>1, <1>6 DEF MakeInv, ParentKnows
    <2>2. Cardinality(Subs(p)) # 0
      <3>1. s \in Subs(p)
        BY <2>1 DEF Subs
      <3> QED
        BY <3>1, SubsFinite, FS_EmptySet
    <2>3. StepOK(mk[p], mk'[p], Cardinality(Subs(p)))
      BY <2>1
    <2> QED
      BY <2>1, <2>2, <2>3, Zenon DEF StepOK
  <1>7. ASSUME NEW s \in SubMakes, mk'[s].pc = None, mk'[s].status = "bad"
        PROVE  mk'[Parent[s]].errors
    <2>1. mk[s].pc = None /\ mk[s].status = "bad"
      BY <1>0, <1>1, <1>7, Zenon DEF StepOK
    <2>2. mk[Parent[s]].errors /\ Parent[s] \in Makes
      BY <1>0, <2>1 DEF MakeInv, ParentKnows
    <2> QED
      BY <2>2, Zenon DEF StepOK
  <1>8. ParentKnows'
    BY <1>6, <1>7, Zenon DEF ParentKnows
  <1> QED
    BY <1>3, <1>4, <1>5, <1>8, Zenon DEF MakeInv

\* A make that takes no part in a step.
LEMMA StillOK ==
    ASSUME Typed, MakeInv, NEW x \in Makes
    PROVE  StepOK(mk[x], mk[x], Cardinality(Subs(x)))
  <1>1. mk[x] \in Record /\ Local(mk[x])
    BY DEF Typed, MakeInv
  <1>2. mk[x].pc \notin {None, "exited"} => Balanced(mk[x], Cardinality(Subs(x)))
    BY DEF MakeInv, Live
  <1> QED
    BY <1>1, <1>2, SameOK

\* The makes that a step leaves in order.
Orderly ==
    /\ mk' \in [Makes -> Record]
    /\ \A x \in Makes : StepOK(mk[x], mk'[x], Cardinality(Subs(x)))

\* A make's own steps leave every make in order.
LEMMA OwnOrderly ==
    ASSUME Typed, MakeInv, NEW m \in Makes, Own(m)
    PROVE  Orderly /\ UNCHANGED <<opt, kills, failed>>
  <1>1. PICK q : Becomes(m, q) /\ StepOK(mk[m], q, Cardinality(Subs(m)))
    BY OwnOK
  <1>2. mk' = [mk EXCEPT ![m] = q] /\ q \in Record
    BY <1>1 DEF Becomes, StepOK
  <1>3. mk' \in [Makes -> Record]
    BY <1>2 DEF Typed
  <1>4. ASSUME NEW x \in Makes PROVE StepOK(mk[x], mk'[x], Cardinality(Subs(x)))
    <2>1. CASE x = m
      <3>1. mk'[x] = q
        BY <1>2, <2>1 DEF Typed
      <3> QED
        BY <1>1, <2>1, <3>1
    <2>2. CASE x # m
      <3>1. mk'[x] = mk[x]
        BY <1>2, <2>2 DEF Typed
      <3> QED
        BY <3>1, StillOK
    <2> QED
      BY <2>1, <2>2
  <1> QED
    BY <1>1, <1>3, <1>4 DEF Orderly, Becomes

\* A failed shell is on record with its make, or the make has failed already.
LEMMA ShellEndsOrderly ==
    ASSUME Typed, MakeInv, NEW m \in Makes, NEW ok \in BOOLEAN, ShellEnds(m, ok)
    PROVE  /\ Orderly
           /\ ~ok => Spoilt(mk'[m])
           /\ mk'[m].hand = mk[m].hand /\ mk'[m].aborting = mk[m].aborting
           /\ \A x \in Makes \ {m} : mk'[x] = mk[x]
  <1> DEFINE r == mk[m]
             c == Cardinality(Subs(m))
             g == [r EXCEPT !.jobs = @ - 1, !.good = @ + 1]
             b == [r EXCEPT !.jobs = @ - 1, !.bad = @ + 1]
             n == [r EXCEPT !.jobs = @ - 1]
             q == IF Live(m) /\ ok THEN g ELSE IF Live(m) THEN b ELSE n
  <1>1. r \in Record /\ Local(r) /\ c \in Nat /\ (Live(m) => Balanced(r, c))
    BY SubsFinite DEF Typed, MakeInv
  <1>2. /\ r.running \in 0..MaxJobs /\ r.jobs \in Nat /\ r.good \in Nat /\ r.bad \in Nat
        /\ r.jobs > 0
    BY <1>1, Zenon DEF Record, ShellEnds
  <1>3. r.jobs - 1 \in Nat /\ r.good + 1 \in Nat /\ r.bad + 1 \in Nat
    BY <1>2, SMT
  <1>4. g \in Record /\ b \in Record /\ n \in Record
    BY <1>1, <1>3, Zenon DEF Record
  <1>5. ASSUME NEW y \in {g, b, n}
        PROVE  /\ y.pc = r.pc /\ y.hand = r.hand /\ y.ret = r.ret /\ y.have = r.have
               /\ y.running = r.running /\ y.errors = r.errors /\ y.status = r.status
               /\ y.todo = r.todo /\ y.jobs = r.jobs - 1 /\ y.aborting = r.aborting
    BY <1>1, <1>5, Zenon DEF Record
  <1>6. /\ g.good = r.good + 1 /\ g.bad = r.bad /\ b.good = r.good /\ b.bad = r.bad + 1
        /\ n.good = r.good /\ n.bad = r.bad
    BY <1>1, Zenon DEF Record
  <1> HIDE DEF g, b, n
  <1>7. mk' = [mk EXCEPT ![m] = q]
    BY DEF ShellEnds, g, b, n
  <1>8. q \in {g, b, n}
    OBVIOUS
  <1>9. (Live(m) => q \in {g, b}) /\ (Live(m) /\ ~ok => q = b) /\ (~Live(m) => q = n)
    OBVIOUS
  <1> HIDE DEF q
  <1>10. r.status # "good" /\ (r.pc = None => r.status # None)
    <2>1. r.jobs # 0
      BY <1>2, SMT
    <2> QED
      BY <1>1, <2>1, Zenon DEF Local, StatusKnown
  <1>11. q.bad = r.bad \/ q.bad = r.bad + 1
    BY <1>6, <1>8, Zenon
  <1>12. Local(q)
    <2>1. HandKnown(q)
      BY <1>1, <1>5, <1>8, Zenon DEF HandKnown, Local
    <2>2. HaveKnown(q)
      BY <1>1, <1>5, <1>8, Zenon DEF HaveKnown, Local
    <2>3. StatusKnown(q)
      BY <1>1, <1>5, <1>8, <1>10, Zenon DEF StatusKnown, Local
    <2> QED
      BY <2>1, <2>2, <2>3 DEF Local
  <1>13. Live(m) => Balanced(q, c)
    <2>1. SUFFICES ASSUME Live(m) PROVE Balanced(q, c)
      OBVIOUS
    <2> DEFINE h == IF r.have THEN 1 ELSE 0
    <2>2. r.running = r.jobs + r.good + r.bad + h + c
      BY <1>1, <2>1, Zenon DEF Balanced
    <2>3. h \in Nat
      OBVIOUS
    <2> HIDE DEF h
    <2>4. r.running = (r.jobs - 1) + (r.good + 1) + r.bad + h + c
      BY <1>1, <1>2, <2>2, <2>3, SMT
    <2>5. r.running = (r.jobs - 1) + r.good + (r.bad + 1) + h + c
      BY <1>1, <1>2, <2>2, <2>3, SMT
    <2>6. q.running = q.jobs + q.good + q.bad + h + c
      BY <1>5, <1>6, <1>8, <1>9, <2>1, <2>4, <2>5, Zenon
    <2>7. h = IF q.have THEN 1 ELSE 0
      BY <1>5, <1>8, Zenon DEF h
    <2> QED
      BY <2>6, <2>7, Zenon DEF Balanced
  <1>14. Spoilt(r) => Spoilt(q)
    <2>1. r.bad > 0 => q.bad > 0
      BY <1>2, <1>11, SMT
    <2> QED
      BY <1>5, <1>8, <2>1, Zenon DEF Spoilt
  <1>15. StepOK(r, q, c)
    BY <1>4, <1>5, <1>8, <1>10, <1>12, <1>13, <1>14, Zenon DEF StepOK, Live
  <1>16. ~ok => Spoilt(q)
    <2>1. CASE Live(m)
      <3>1. r.bad + 1 > 0
        BY <1>2, SMT
      <3> QED
        BY <1>6, <1>9, <2>1, <3>1, Zenon DEF Spoilt
    <2>2. CASE ~Live(m)
      <3>1. r.status = "bad"
        BY <1>1, <1>10, <2>2, SMT DEF Live, Local, StatusKnown, Record
      <3> QED
        BY <1>5, <1>8, <3>1, Zenon DEF Spoilt
    <2> QED
      BY <2>1, <2>2
  <1>17. mk' \in [Makes -> Record] /\ mk'[m] = q /\ \A x \in Makes \ {m} : mk'[x] = mk[x]
    BY <1>4, <1>7, <1>8 DEF Typed
  <1>18. ASSUME NEW x \in Makes PROVE StepOK(mk[x], mk'[x], Cardinality(Subs(x)))
    BY <1>15, <1>17, StillOK
  <1>19. q.hand = r.hand /\ q.aborting = r.aborting
    BY <1>5, <1>8, Zenon
  <1> QED
    BY <1>16, <1>17, <1>18, <1>19, Zenon DEF Orderly

\* A make that is killed, and one that gives up and takes its sub-makes with it.
LEMMA KillOrderly ==
    ASSUME Typed, MakeInv, NEW s \in SubMakes, Kill(s)
    PROVE  Orderly /\ Spoilt(mk'[s])
  <1>1. s \in Makes /\ mk[s] \in Record /\ Local(mk[s]) /\ mk[s].pc \notin {None, "exited"}
    BY DEF Makes, Typed, MakeInv, Kill, Live
  <1>2. StepOK(mk[s], Exited(mk[s], "bad"), Cardinality(Subs(s)))
    <2>1. mk[s].jobs \in Nat
      BY <1>1, Zenon DEF Record
    <2> QED
      BY <1>1, <2>1, ExitedOK
  <1>3. mk' = [mk EXCEPT ![s] = Exited(mk[s], "bad")] /\ Exited(mk[s], "bad") \in Record
    BY <1>2 DEF Kill, StepOK
  <1>4. /\ mk' \in [Makes -> Record] /\ mk'[s] = Exited(mk[s], "bad")
        /\ \A x \in Makes \ {s} : mk'[x] = mk[x]
    BY <1>1, <1>3 DEF Typed
  <1>5. ASSUME NEW x \in Makes PROVE StepOK(mk[x], mk'[x], Cardinality(Subs(x)))
    BY <1>2, <1>4, StillOK
  <1>6. Exited(mk[s], "bad").status = "bad"
    BY <1>1, Zenon DEF Exited, Record
  <1> QED
    BY <1>4, <1>5, <1>6, Zenon DEF Orderly, Spoilt

\* A make that dies of an error of its own leaves every make in order.
LEMMA DieOrderly ==
    ASSUME Typed, MakeInv, NEW m \in Makes, Die(m)
    PROVE  Orderly
  <1>1. ASSUME NEW x \in Makes
        PROVE  mk'[x] = IF x = m THEN [Exited(mk[m], "bad") EXCEPT !.jobs = 0]
                        ELSE IF x \in Running(m) THEN Exited(mk[x], "bad") ELSE mk[x]
    BY Zenon DEF Die
  <1>2. mk[m].pc \notin {None, "exited"}
    BY DEF Die, None
  <1>3. ASSUME NEW x \in Makes PROVE StepOK(mk[x], mk'[x], Cardinality(Subs(x)))
    <2>1. mk[x] \in Record /\ Local(mk[x]) /\ mk[x].jobs \in Nat /\ 0 \in Nat
      BY Zenon DEF Typed, MakeInv, Record
    <2>2. CASE x = m
      <3>1. StepOK(mk[m], [Exited(mk[m], "bad") EXCEPT !.jobs = 0], Cardinality(Subs(m)))
        BY <1>2, <2>1, <2>2, ExitedOK
      <3> QED
        BY <1>1, <2>2, <3>1
    <2>3. CASE x # m /\ x \in Running(m)
      <3>1. mk[x].pc \notin {None, "exited"}
        BY <2>3 DEF Running, Live
      <3> QED
        BY <1>1, <2>1, <2>3, <3>1, ExitedOK
    <2>4. CASE x # m /\ x \notin Running(m)
      BY <1>1, <2>4, StillOK
    <2> QED
      BY <2>2, <2>3, <2>4
  <1>4. mk' \in [Makes -> Record]
    <2>1. \A x \in Makes : mk'[x] \in Record
      BY <1>3 DEF StepOK
    <2>2. mk' = [x \in Makes |-> mk'[x]]
      BY Zenon DEF Die
    <2> QED
      BY <2>1, <2>2
  <1> QED
    BY <1>3, <1>4 DEF Orderly

\* A failure that a step does not forget.
Remembers == \A x \in Makes : Spoilt(mk[x]) => Spoilt(mk'[x])

(* A sub-make is started: it has none of its own yet, and its parent's     *)
(* token is now for it.                                                    *)
LEMMA StartSubMakeOK ==
    ASSUME Typed, MakeInv, NEW m \in Makes, NEW s \in SubMakes, StartSubMake(m, s)
    PROVE  mk' \in [Makes -> Record] /\ MakeInv' /\ Remembers
  <1> DEFINE r == mk[m]
             c == Cardinality(Subs(m))
             d == Dequeued(m)
             q == [d EXCEPT !.have = FALSE]
             z == NewMake(s, "start")
  <1>0. /\ s \in Makes /\ Root \in Makes /\ Root \notin SubMakes /\ SubMakes \subseteq Makes
        /\ \A y \in SubMakes : Parent[y] \in Makes
        /\ MaxJobs \in Nat /\ Work[s] \in Nat /\ Later[s] \in Nat
    BY JobTokensAssumption DEF Makes
  <1>1. r \in Record /\ Local(r) /\ c \in Nat /\ mk[s] \in Record /\ Local(mk[s])
    BY <1>0, SubsFinite DEF Typed, MakeInv
  <1>2. /\ r.pc = "examine" /\ Parent[s] = m /\ mk[s].pc = None /\ mk[s].status = None
        /\ mk' = [mk EXCEPT ![m] = q, ![s] = z]
    BY Zenon DEF StartSubMake
  <1>3. /\ r.have /\ r.hand = None /\ r.todo > 0 /\ r.todo \in Nat /\ r.pc \notin {None, "exited"}
        /\ m # s
    BY <1>1, <1>2, SMT DEF Local, HandKnown, HaveKnown, None, Record
  <1>4. r.todo - 1 \in Nat
    BY <1>3, SMT
  <1>5. r.status = None
    BY <1>1, <1>3 DEF Local, StatusKnown
  <1>6. d \in Record /\ d.running = r.running /\ d.jobs = r.jobs /\ d.good = r.good
        /\ d.bad = r.bad /\ d.errors = r.errors /\ d.status = r.status /\ d.hand = r.hand
        /\ d.pc = "start"
    BY <1>1, <1>4, Zenon DEF Record, Dequeued
  <1> HIDE DEF d
  <1>7. q \in Record /\ q.running = r.running /\ q.jobs = r.jobs /\ q.good = r.good
        /\ q.bad = r.bad /\ q.errors = r.errors /\ q.status = r.status /\ q.hand = r.hand
        /\ q.pc = "start" /\ q.have = FALSE
    BY <1>6, Zenon DEF Record
  <1> HIDE DEF q
  <1>8. z \in Record
    <2>1. 0 \in 0..MaxJobs /\ 0 \in Nat
      BY <1>0, SMT
    <2> QED
      BY <1>0, <2>1, Zenon DEF Record, NewMake
  <1>9. /\ z.pc = "start" /\ z.hand = None /\ z.status = None /\ z.have = FALSE
        /\ z.running = 0 /\ z.jobs = 0 /\ z.good = 0 /\ z.bad = 0
    BY Zenon DEF NewMake
  <1> HIDE DEF z
  <1>10. /\ mk' \in [Makes -> Record] /\ mk'[m] = q /\ mk'[s] = z
         /\ \A y \in Makes \ {m, s} : mk'[y] = mk[y]
    BY <1>0, <1>2, <1>3, <1>7, <1>8 DEF Typed
  <1>11. Local(q) /\ Local(z) /\ q.pc # None /\ z.pc # None
    <2>1. HandKnown(q) /\ HaveKnown(q) /\ StatusKnown(q)
      BY <1>3, <1>5, <1>7, SMT DEF HandKnown, HaveKnown, StatusKnown, None
    <2>2. HandKnown(z) /\ HaveKnown(z) /\ StatusKnown(z)
      BY <1>9, SMT DEF HandKnown, HaveKnown, StatusKnown, None
    <2> QED
      BY <1>7, <1>9, <2>1, <2>2, SMT DEF Local, None
  <1>12. Subs(s) = {}
    BY <1>2 DEF Subs, MakeInv, ParentKnows
  <1>13. ASSUME NEW y \in SubMakes, y # s PROVE mk'[y].pc # None <=> mk[y].pc # None
    <2>1. CASE y = m
      BY <1>3, <1>10, <1>11, <2>1
    <2>2. CASE y # m
      BY <1>0, <1>10, <1>13, <2>2
    <2> QED
      BY <2>1, <2>2
  <1>14. Subs(m)' = Subs(m) \cup {s} /\ s \notin Subs(m)
    <2>1. s \in Subs(m)' /\ s \notin Subs(m)
      BY <1>2, <1>10, <1>11 DEF Subs
    <2>2. ASSUME NEW y, y # s PROVE y \in Subs(m)' <=> y \in Subs(m)
      BY <1>13, <2>2 DEF Subs
    <2> QED
      BY <2>1, <2>2
  <1>15. Cardinality(Subs(m)') = c + 1
    BY <1>14, SubsFinite, FS_AddElement
  <1>16. ASSUME NEW y, y # m PROVE Subs(y)' = Subs(y)
    BY <1>2, <1>13, <1>16 DEF Subs
  <1>17. Balanced(q, c + 1)
    <2>1. r.running = r.jobs + r.good + r.bad + 1 + c
      BY <1>3, Zenon DEF Balanced, MakeInv, Live
    <2>2. r.jobs \in Nat /\ r.good \in Nat /\ r.bad \in Nat
      BY <1>1, Zenon DEF Record
    <2>3. r.jobs + r.good + r.bad + 1 + c = r.jobs + r.good + r.bad + 0 + (c + 1)
      BY <1>1, <2>2, SMT
    <2> QED
      BY <1>7, <2>1, <2>3, Zenon DEF Balanced
  <1>18. Balanced(z, 0)
    BY <1>9 DEF Balanced
  <1>19. ASSUME NEW x \in Makes, Live(x)' PROVE Balanced(mk[x], Cardinality(Subs(x)))'
    <2>1. CASE x = m
      BY <1>10, <1>15, <1>17, <2>1
    <2>2. CASE x = s
      <3>1. Cardinality(Subs(s)') = 0
        BY <1>3, <1>12, <1>16, FS_EmptySet
      <3> QED
        BY <1>10, <1>18, <2>2, <3>1
    <2>3. CASE x \notin {m, s}
      <3>1. mk'[x] = mk[x] /\ Subs(x)' = Subs(x)
        BY <1>10, <1>16, <2>3
      <3>2. Live(x)
        BY <1>19, <3>1 DEF Live
      <3> QED
        BY <3>1, <3>2 DEF MakeInv
    <2> QED
      BY <2>1, <2>2, <2>3
  <1>20. ASSUME NEW y \in SubMakes, mk'[y].pc # None
         PROVE  /\ mk'[Parent[y]].status # "good"
                /\ mk'[Parent[y]].pc # None \/ mk'[Parent[y]].status # None
    <2>1. CASE Parent[y] = m
      <3>1. q.status # "good"
        BY <1>5, <1>7, SMT DEF None
      <3> QED
        BY <1>10, <1>11, <2>1, <3>1
    <2>2. CASE Parent[y] # m
      <3>1. y # s /\ mk[y].pc # None /\ Parent[y] \in Makes /\ Parent[y] # s
        BY <1>0, <1>2, <1>12, <1>13, <1>20, <2>2 DEF Subs
      <3>2. mk'[Parent[y]] = mk[Parent[y]]
        BY <1>10, <2>2, <3>1
      <3> QED
        BY <3>1, <3>2 DEF MakeInv, ParentKnows
    <2> QED
      BY <2>1, <2>2
  <1>21. ASSUME NEW y \in SubMakes, mk'[y].pc = None, mk'[y].status = "bad"
         PROVE  mk'[Parent[y]].errors
    <2>1. y \notin {m, s} /\ mk'[y] = mk[y]
      BY <1>0, <1>10, <1>11, <1>21
    <2>2. Parent[y] \in Makes /\ mk[Parent[y]].errors
      BY <1>0, <1>21, <2>1 DEF MakeInv, ParentKnows
    <2>3. Parent[y] # s
      BY <1>1, <1>2, <2>2 DEF Local, StatusKnown
    <2> QED
      BY <1>7, <1>10, <2>2, <2>3
  <1>22. ParentKnows'
    BY <1>20, <1>21, Zenon DEF ParentKnows
  <1>23. \A x \in Makes : Local(mk'[x])
    <2>1. ASSUME NEW x \in Makes PROVE Local(mk'[x])
      <3>1. CASE x \notin {m, s}
        BY <1>10, <3>1 DEF MakeInv
      <3> QED
        BY <1>10, <1>11, <3>1
    <2> QED
      BY <2>1
  <1>24. mk'[Root].pc # None
    BY <1>0, <1>10, <1>11 DEF MakeInv
  <1>25. MakeInv'
    BY <1>19, <1>22, <1>23, <1>24, Zenon DEF MakeInv
  <1>26. Remembers
    <2>1. ~Spoilt(mk[s])
      <3>1. mk[s].bad = 0 /\ ~mk[s].errors
        BY <1>1, <1>2 DEF Local, StatusKnown
      <3>2. ~(mk[s].bad > 0) /\ mk[s].status # "bad"
        BY <1>2, <3>1, SMT DEF None
      <3> QED
        BY <3>1, <3>2, Zenon DEF Spoilt
    <2>2. Spoilt(r) => Spoilt(q)
      BY <1>7, Zenon DEF Spoilt
    <2> QED
      BY <1>10, <2>1, <2>2, Zenon DEF Remembers
  <1> QED
    BY <1>10, <1>25, <1>26

(* A sub-make is reaped: its token is returned, and its failure noted.     *)
LEMMA CatchSubMakeOK ==
    ASSUME Typed, MakeInv, NEW m \in Makes, NEW s \in SubMakes, CatchSubMake(m, s)
    PROVE  mk' \in [Makes -> Record] /\ MakeInv' /\ Remembers
  <1> DEFINE r == mk[m]
             c == Cardinality(Subs(m))
             ok == mk[s].status = "good"
             z == [mk[s] EXCEPT !.pc = None]
  <1>0. /\ s \in Makes /\ Root \in Makes /\ Root \notin SubMakes /\ SubMakes \subseteq Makes
        /\ \A y \in SubMakes : Parent[y] \in Makes
    BY JobTokensAssumption DEF Makes
  <1>1. r \in Record /\ Local(r) /\ c \in Nat /\ mk[s] \in Record /\ Local(mk[s])
    BY <1>0, SubsFinite DEF Typed, MakeInv
  <1>2. r.pc = "catch" /\ Parent[s] = m /\ mk[s].pc = "exited"
    BY Zenon DEF CatchSubMake
  <1>3. PICK x \in Finished(r, ok) : mk' = [mk EXCEPT ![m] = x, ![s].pc = None]
    BY Zenon DEF CatchSubMake
  <1>4. ~r.have /\ r.hand = None /\ r.pc \notin {None, "exited"} /\ m # s /\ mk[s].pc # None
    BY <1>1, <1>2, SMT DEF Local, HandKnown, HaveKnown, None
  <1>5. r.status = None
    BY <1>1, <1>4 DEF Local, StatusKnown
  <1>6. /\ z \in Record /\ z.pc = None /\ z.status = mk[s].status /\ z.hand = mk[s].hand
        /\ z.errors = mk[s].errors /\ z.bad = mk[s].bad /\ z.jobs = mk[s].jobs
        /\ z.good = mk[s].good /\ z.have = mk[s].have /\ z.aborting = mk[s].aborting
    BY <1>1, Zenon DEF Record
  <1>7. s \in Subs(m) /\ Cardinality(Subs(m) \ {s}) = c - 1 /\ c - 1 \in Nat
    <2>1. s \in Subs(m)
      BY <1>2, <1>4 DEF Subs
    <2>2. Cardinality(Subs(m) \ {s}) = c - 1 /\ IsFiniteSet(Subs(m) \ {s})
      BY <2>1, SubsFinite, FS_RemoveElement
    <2> QED
      BY <2>1, <2>2, FS_CardinalityType
  <1>8. r.running = r.jobs + r.good + r.bad + 1 + (c - 1)
    <2>1. r.running = r.jobs + r.good + r.bad + 0 + c
      BY <1>4, Zenon DEF Balanced, MakeInv, Live
    <2>2. r.jobs \in Nat /\ r.good \in Nat /\ r.bad \in Nat
      BY <1>1, Zenon DEF Record
    <2>3. r.jobs + r.good + r.bad + 0 + c = r.jobs + r.good + r.bad + 1 + (c - 1)
      BY <1>1, <2>2, SMT
    <2> QED
      BY <2>1, <2>3, Zenon
  <1>9. StepOK(r, x, c - 1) /\ (~ok => x.errors)
    BY <1>1, <1>3, <1>4, <1>5, <1>7, <1>8, FinishedOK
  <1> HIDE DEF ok
  <1>10. x \in Record /\ Local(x) /\ x.pc # None
    BY <1>4, <1>9, Zenon DEF StepOK
  <1>11. mk' = [mk EXCEPT ![m] = x, ![s] = z]
    BY <1>0, <1>3, <1>4 DEF Typed
  <1> HIDE DEF z
  <1>12. /\ mk' \in [Makes -> Record] /\ mk'[m] = x /\ mk'[s] = z
         /\ \A y \in Makes \ {m, s} : mk'[y] = mk[y]
    BY <1>0, <1>4, <1>6, <1>10, <1>11 DEF Typed
  <1>13. Local(z) /\ z.status # None
    <2>1. mk[s].hand = None /\ mk[s].status # None
      BY <1>1, <1>2, SMT DEF Local, HandKnown, StatusKnown
    <2>2. HandKnown(z) /\ HaveKnown(z)
      BY <1>6, <2>1, SMT DEF HandKnown, HaveKnown, None
    <2>3. z.status = "good" => z.jobs = 0 /\ z.bad = 0 /\ ~z.errors
      BY <1>1, <1>6, Zenon DEF Local, StatusKnown
    <2>4. StatusKnown(z)
      BY <1>6, <2>1, <2>3, SMT DEF StatusKnown, None
    <2> QED
      BY <1>6, <2>1, <2>2, <2>4, Zenon DEF Local
  <1>14. ASSUME NEW y \in SubMakes, y # s PROVE mk'[y].pc # None <=> mk[y].pc # None
    <2>1. CASE y = m
      BY <1>4, <1>10, <1>12, <2>1
    <2>2. CASE y # m
      BY <1>0, <1>12, <1>14, <2>2
    <2> QED
      BY <2>1, <2>2
  <1>15. Subs(m)' = Subs(m) \ {s}
    BY <1>2, <1>6, <1>12, <1>14 DEF Subs
  <1>16. ASSUME NEW y, y # m PROVE Subs(y)' = Subs(y)
    BY <1>2, <1>14, <1>16 DEF Subs
  <1>17. ASSUME NEW y \in Makes, Live(y)' PROVE Balanced(mk[y], Cardinality(Subs(y)))'
    <2>1. CASE y = m
      <3>1. Balanced(x, c - 1)
        BY <1>9, <1>12, <1>17, <2>1, Zenon DEF StepOK, Live
      <3> QED
        BY <1>7, <1>12, <1>15, <2>1, <3>1
    <2>2. CASE y = s
      BY <1>6, <1>12, <1>17, <2>2 DEF Live
    <2>3. CASE y \notin {m, s}
      <3>1. mk'[y] = mk[y] /\ Subs(y)' = Subs(y)
        BY <1>12, <1>16, <2>3
      <3>2. Live(y)
        BY <1>17, <3>1 DEF Live
      <3> QED
        BY <3>1, <3>2 DEF MakeInv
    <2> QED
      BY <2>1, <2>2, <2>3
  <1>18. ASSUME NEW y \in SubMakes, mk'[y].pc # None
         PROVE  /\ mk'[Parent[y]].status # "good"
                /\ mk'[Parent[y]].pc # None \/ mk'[Parent[y]].status # None
    <2>0. y # s /\ mk[y].pc # None /\ Parent[y] \in Makes
      BY <1>0, <1>6, <1>12, <1>14, <1>18
    <2>1. CASE Parent[y] = m
      <3>1. y \in Subs(m) \ {s}
        BY <2>0, <2>1 DEF Subs
      <3>2. c - 1 # 0
        <4>1. IsFiniteSet(Subs(m) \ {s})
          BY SubsFinite, FS_Subset
        <4> QED
          BY <1>7, <3>1, <4>1, FS_EmptySet
      <3>3. x.status # "good"
        BY <1>5, <1>9, <3>2, Zenon DEF StepOK, None
      <3> QED
        BY <1>10, <1>12, <2>1, <3>3
    <2>2. CASE Parent[y] = s
      <3>1. mk[s].status # "good"
        BY <2>0, <2>2 DEF MakeInv, ParentKnows
      <3> QED
        BY <1>6, <1>12, <1>13, <2>2, <3>1
    <2>3. CASE Parent[y] \notin {m, s}
      <3>1. mk'[Parent[y]] = mk[Parent[y]]
        BY <1>12, <2>0, <2>3
      <3> QED
        BY <2>0, <3>1 DEF MakeInv, ParentKnows
    <2> QED
      BY <2>1, <2>2, <2>3
  <1>19. ASSUME NEW y \in SubMakes, mk'[y].pc = None, mk'[y].status = "bad"
         PROVE  mk'[Parent[y]].errors
    <2>1. CASE y = s
      <3>1. ~ok
        BY <1>6, <1>12, <1>19, <2>1 DEF ok
      <3> QED
        BY <1>2, <1>9, <1>12, <2>1, <3>1
    <2>2. CASE y # s
      <3>1. y # m /\ mk'[y] = mk[y]
        BY <1>0, <1>10, <1>12, <1>19, <2>2
      <3>2. Parent[y] \in Makes /\ mk[Parent[y]].errors
        BY <1>0, <1>19, <3>1 DEF MakeInv, ParentKnows
      <3>3. r.errors => x.errors
        BY <1>9 DEF StepOK
      <3> QED
        BY <1>6, <1>12, <3>2, <3>3
    <2> QED
      BY <2>1, <2>2
  <1>20. ParentKnows'
    BY <1>18, <1>19, Zenon DEF ParentKnows
  <1>21. \A y \in Makes : Local(mk'[y])
    <2>1. ASSUME NEW y \in Makes PROVE Local(mk'[y])
      <3>1. CASE y \notin {m, s}
        BY <1>12, <3>1 DEF MakeInv
      <3> QED
        BY <1>10, <1>12, <1>13, <3>1
    <2> QED
      BY <2>1
  <1>22. mk'[Root].pc # None
    BY <1>0, <1>10, <1>12 DEF MakeInv
  <1>23. MakeInv'
    BY <1>17, <1>20, <1>21, <1>22, Zenon DEF MakeInv
  <1>24. Remembers
    <2>1. Spoilt(mk[s]) => Spoilt(z)
      BY <1>6, Zenon DEF Spoilt
    <2>2. Spoilt(r) => Spoilt(x)
      BY <1>9 DEF StepOK
    <2> QED
      BY <1>12, <2>1, <2>2, Zenon DEF Remembers
  <1> QED
    BY <1>12, <1>23, <1>24
-----------------------------------------------------------------------------
(* The pipe. *)

\* What is read and written is a token, and no write overflows the pipe.
LEMMA PipeOK ==
    ASSUME Typed, MakeInv, NEW m \in Makes, Own(m)
    PROVE  pipe' \in Seq({"+", "E"}) /\ Len(pipe') <= PipeSize
  <1>1. pipe \in Seq({"+", "E"}) /\ Len(pipe) <= PipeSize /\ PipeSize \in Nat
    BY JobTokensAssumption DEF Typed
  <1>2. mk[m].pc \in {"addwrite", "putback", "stopput"} => mk[m].hand \in {"+", "E"}
    <2>1. mk[m] \in Record /\ HandKnown(mk[m])
      BY DEF Typed, MakeInv, Local
    <2>2. mk[m].hand \in {None, "+", "E"}
      BY <2>1, Zenon DEF Record
    <2> QED
      BY <2>1, <2>2, SMT DEF HandKnown
  <1>3. ASSUME NEW t \in {"+", "E"}, Len(pipe) < PipeSize, pipe' = Append(pipe, t)
        PROVE  pipe' \in Seq({"+", "E"}) /\ Len(pipe') <= PipeSize
    BY <1>1, <1>3
  <1>4. ASSUME pipe # <<>>, pipe' = Tail(pipe)
        PROVE  pipe' \in Seq({"+", "E"}) /\ Len(pipe') <= PipeSize
    BY <1>1, <1>4
  <1>5. CASE UNCHANGED pipe
    BY <1>1, <1>5
  <1>6. CASE ServerStart(m)
    BY <1>3, <1>5, <1>6 DEF ServerStart
  <1>7. CASE AddFlush(m)
    BY <1>4, <1>5, <1>7 DEF AddFlush
  <1>8. CASE AddWrite(m)
    BY <1>2, <1>3, <1>8 DEF AddWrite
  <1>9. CASE WithdrawToken(m)
    BY <1>4, <1>9 DEF WithdrawToken
  <1>10. CASE PutBack(m)
    BY <1>2, <1>3, <1>10 DEF PutBack
  <1>11. CASE WithdrawStopper(m)
    BY <1>4, <1>11 DEF WithdrawStopper
  <1>12. CASE StopFlush(m)
    BY <1>4, <1>5, <1>12 DEF StopFlush
  <1>13. CASE StopPut(m)
    BY <1>2, <1>3, <1>13 DEF StopPut
  <1>14. CASE \/ StartJobs(m) \/ WithdrawEmpty(m) \/ UpToDate(m) \/ Defer(m) \/ StartShell(m)
              \/ StartNothing(m) \/ CatchNothing(m) \/ \E ok \in BOOLEAN : CatchShell(m, ok)
    <2>1. UNCHANGED pipe
      BY <1>14, Zenon DEF StartJobs, WithdrawEmpty, UpToDate, Defer, StartShell, StartNothing,
                          CatchNothing, CatchShell
    <2> QED
      BY <1>5, <2>1
  <1> QED
    BY <1>6, <1>7, <1>8, <1>9, <1>10, <1>11, <1>12, <1>13, <1>14, Zenon DEF Own
-----------------------------------------------------------------------------
(* Type correctness, and MakeInv, of every step. *)

\* The kinds of steps.
LEMMA NextCases ==
    ASSUME Next
    PROVE  \/ \E m \in Makes : Own(m) \/ Die(m)
           \/ \E m \in Makes, s \in SubMakes : StartSubMake(m, s) \/ CatchSubMake(m, s)
           \/ \E m \in Makes, ok \in BOOLEAN : ShellEnds(m, ok)
           \/ \E s \in SubMakes : Kill(s)
  BY Zenon DEF Next, Step, Own

\* All invariants hold when the root make starts.
LEMMA InitOK ==
    ASSUME Init
    PROVE  Typed /\ MakeInv /\ FailureKnown /\ StopperInv
  <1>0. /\ Root \in Makes /\ \A s \in SubMakes : s \in Makes /\ s # Root /\ Parent[s] \in Makes
        /\ MaxJobs \in Nat /\ PipeSize \in Nat /\ MaxKills \in Nat
        /\ \A m \in Makes : Work[m] \in Nat /\ Later[m] \in Nat
    BY JobTokensAssumption DEF Makes
  <1>1. ASSUME NEW m \in Makes
        PROVE  /\ mk[m] \in Record
               /\ mk[m].pc = (IF m = Root THEN "server" ELSE None)
               /\ mk[m].hand = None /\ mk[m].have = FALSE /\ mk[m].errors = FALSE
               /\ mk[m].status = None /\ mk[m].aborting = None
               /\ mk[m].running = 0 /\ mk[m].jobs = 0 /\ mk[m].good = 0 /\ mk[m].bad = 0
    <2> DEFINE l == IF m = Root THEN "server" ELSE None
    <2>1. mk[m] = NewMake(m, l)
      BY <1>1 DEF Init
    <2>2. l \in {"server", None}
      OBVIOUS
    <2>3. 0 \in 0..MaxJobs /\ 0 \in Nat
      BY <1>0, SMT
    <2> HIDE DEF l
    <2>4. NewMake(m, l) \in Record
      BY <1>0, <2>2, <2>3, Zenon DEF Record, NewMake
    <2>5. /\ NewMake(m, l).pc = l /\ NewMake(m, l).hand = None /\ NewMake(m, l).have = FALSE
          /\ NewMake(m, l).errors = FALSE /\ NewMake(m, l).status = None
          /\ NewMake(m, l).aborting = None /\ NewMake(m, l).running = 0
          /\ NewMake(m, l).jobs = 0 /\ NewMake(m, l).good = 0 /\ NewMake(m, l).bad = 0
      BY Zenon DEF NewMake
    <2> QED
      BY <2>1, <2>4, <2>5, Zenon DEF l
  <1>2. mk \in [Makes -> Record]
    <2>1. mk = [m \in Makes |-> mk[m]]
      BY DEF Init
    <2> QED
      BY <1>1, <2>1
  <1>3. Typed
    <2>1. pipe \in Seq({"+", "E"}) /\ Len(pipe) <= PipeSize
      BY <1>0 DEF Init
    <2>2. kills \in 0..MaxKills
      <3>1. kills = 0
        BY DEF Init
      <3> QED
        BY <1>0, <3>1, SMT
    <2>3. failed \in BOOLEAN /\ opt \in Options
      BY Zenon DEF Init
    <2> QED
      BY <1>2, <2>1, <2>2, <2>3, Zenon DEF Typed
  <1>4. ASSUME NEW m \in Makes PROVE Local(mk[m])
    <2>1. mk[m].pc \in {"server", None}
      BY <1>1
    <2>2. HandKnown(mk[m]) /\ HaveKnown(mk[m])
      <3> DEFINE r == mk[m]
      <3>1. r.pc \in {"server", None} /\ r.hand = None /\ r.have = FALSE
        BY <1>1, <2>1
      <3> HIDE DEF r
      <3>2. HandKnown(r) /\ HaveKnown(r)
        BY <3>1, SMT DEF HandKnown, HaveKnown, None
      <3> QED
        BY <3>2 DEF r
    <2>3. StatusKnown(mk[m])
      <3>1. mk[m].pc # "exited" /\ mk[m].status # "good"
        BY <1>1, <2>1 DEF None
      <3>2. /\ mk[m].jobs = 0 /\ mk[m].good = 0 /\ mk[m].bad = 0 /\ ~mk[m].errors
            /\ mk[m].aborting = None /\ mk[m].status = None
        BY <1>1, <1>4, Zenon
      <3> QED
        BY <3>1, <3>2, Zenon DEF StatusKnown
    <2> QED
      BY <2>2, <2>3 DEF Local
  <1>5. ASSUME NEW s \in SubMakes PROVE mk[s].pc = None /\ mk[s].status # "bad"
    BY <1>0, <1>1 DEF None
  <1>6. ParentKnows
    BY <1>5 DEF ParentKnows
  <1>7. ASSUME NEW m \in Makes PROVE Balanced(mk[m], Cardinality(Subs(m)))
    <2>1. Subs(m) = {}
      BY <1>5 DEF Subs
    <2>2. Cardinality(Subs(m)) = 0
      BY <2>1, FS_EmptySet
    <2>3. mk[m].running = 0 /\ mk[m].jobs = 0 /\ mk[m].good = 0 /\ mk[m].bad = 0
      BY <1>1, <1>7, Zenon
    <2>4. (IF mk[m].have THEN 1 ELSE 0) = 0
      BY <1>1, <1>7, Zenon
    <2> QED
      BY <2>2, <2>3, <2>4 DEF Balanced
  <1>8. mk[Root].pc # None
    BY <1>0, <1>1 DEF None
  <1>9. MakeInv
    BY <1>4, <1>6, <1>7, <1>8 DEF MakeInv
  <1>10. FailureKnown
    BY DEF Init, FailureKnown
  <1>11. StopperInv
    BY <1>1 DEF StopperInv, None
  <1> QED
    BY <1>3, <1>9, <1>10, <1>11

\* A step of any kind.
LEMMA StepInv ==
    ASSUME Typed, MakeInv, Next
    PROVE  Typed' /\ MakeInv' /\ Remembers
  <1>1. opt' = opt /\ (pipe' = pipe \/ \E m \in Makes : Own(m))
    <2>1. ASSUME NEW m \in Makes, Own(m) PROVE opt' = opt
      BY <2>1, OwnOrderly
    <2>2. ASSUME NEW m \in Makes, Die(m) PROVE opt' = opt /\ pipe' = pipe
      BY <2>2 DEF Die
    <2>3. ASSUME NEW m \in Makes, NEW s \in SubMakes, StartSubMake(m, s) \/ CatchSubMake(m, s)
          PROVE  opt' = opt /\ pipe' = pipe
      BY <2>3, Zenon DEF StartSubMake, CatchSubMake
    <2>4. ASSUME NEW m \in Makes, NEW ok \in BOOLEAN, ShellEnds(m, ok)
          PROVE  opt' = opt /\ pipe' = pipe
      BY <2>4, Zenon DEF ShellEnds
    <2>5. ASSUME NEW s \in SubMakes, Kill(s) PROVE opt' = opt /\ pipe' = pipe
      BY <2>5, Zenon DEF Kill
    <2> QED
      BY <2>1, <2>2, <2>3, <2>4, <2>5, NextCases, Zenon
  <1>2. pipe' \in Seq({"+", "E"}) /\ Len(pipe') <= PipeSize
    <2>1. CASE pipe' = pipe
      BY <2>1 DEF Typed
    <2>2. CASE \E m \in Makes : Own(m)
      BY <2>2, PipeOK
    <2> QED
      BY <1>1, <2>1, <2>2
  <1>3. kills' \in 0..MaxKills /\ failed' \in BOOLEAN
    <2>0. kills \in 0..MaxKills /\ failed \in BOOLEAN /\ MaxKills \in Nat
      BY JobTokensAssumption DEF Typed
    <2>1. ASSUME NEW m \in Makes, Own(m) PROVE kills' = kills /\ failed' = failed
      BY <2>1, OwnOrderly, Zenon
    <2>2. ASSUME NEW m \in Makes, Die(m) PROVE kills' = kills /\ failed' = failed
      BY <2>2, Zenon DEF Die
    <2>3. ASSUME NEW m \in Makes, NEW s \in SubMakes, StartSubMake(m, s) \/ CatchSubMake(m, s)
          PROVE  kills' = kills /\ failed' = failed
      BY <2>3, Zenon DEF StartSubMake, CatchSubMake
    <2>4. ASSUME NEW m \in Makes, NEW ok \in BOOLEAN, ShellEnds(m, ok)
          PROVE  kills' = kills /\ failed' \in BOOLEAN
      BY <2>0, <2>4, Zenon DEF ShellEnds
    <2>5. ASSUME NEW s \in SubMakes, Kill(s) PROVE kills' \in 0..MaxKills /\ failed' = failed
      <3>1. kills' = kills + 1 /\ kills < MaxKills
        BY <2>5, Zenon DEF Kill
      <3>2. kills' \in 0..MaxKills
        BY <2>0, <3>1, SMT
      <3> QED
        BY <2>5, <3>2, Zenon DEF Kill
    <2> QED
      BY <2>0, <2>1, <2>2, <2>3, <2>4, <2>5, NextCases, Zenon
  <1>4. ASSUME Orderly PROVE mk' \in [Makes -> Record] /\ MakeInv' /\ Remembers
    <2>1. MakeInv'
      BY <1>4, AllStepOK DEF Orderly
    <2> QED
      BY <1>4, <2>1, Zenon DEF Orderly, StepOK, Remembers
  <1>5. mk' \in [Makes -> Record] /\ MakeInv' /\ Remembers
    <2>1. ASSUME NEW m \in Makes, Own(m) \/ Die(m) PROVE Orderly
      BY <2>1, OwnOrderly, DieOrderly
    <2>2. ASSUME NEW m \in Makes, NEW s \in SubMakes, StartSubMake(m, s) \/ CatchSubMake(m, s)
          PROVE  mk' \in [Makes -> Record] /\ MakeInv' /\ Remembers
      BY <2>2, StartSubMakeOK, CatchSubMakeOK
    <2>3. ASSUME NEW m \in Makes, NEW ok \in BOOLEAN, ShellEnds(m, ok) PROVE Orderly
      BY <2>3, ShellEndsOrderly
    <2>4. ASSUME NEW s \in SubMakes, Kill(s) PROVE Orderly
      BY <2>4, KillOrderly
    <2> QED
      BY <1>4, <2>1, <2>2, <2>3, <2>4, NextCases, Zenon
  <1>6. opt' \in Options
    BY <1>1 DEF Typed
  <1>7. Typed'
    BY <1>2, <1>3, <1>5, <1>6, Zenon DEF Typed
  <1> QED
    BY <1>5, <1>7

\* A failed shell and a kill leave a trace, and no step removes it.
LEMMA FailureStep ==
    ASSUME Typed, MakeInv, FailureKnown, Next
    PROVE  FailureKnown'
  <1>1. Remembers
    BY StepInv
  <1>2. CASE UNCHANGED <<kills, failed>>
    BY <1>1, <1>2, Zenon DEF FailureKnown, Remembers
  <1>3. ASSUME NEW m \in Makes, Own(m) \/ Die(m) PROVE UNCHANGED <<kills, failed>>
    BY <1>3, OwnOrderly, Zenon DEF Die
  <1>4. ASSUME NEW m \in Makes, NEW s \in SubMakes, StartSubMake(m, s) \/ CatchSubMake(m, s)
        PROVE  UNCHANGED <<kills, failed>>
    BY <1>4, Zenon DEF StartSubMake, CatchSubMake
  <1>5. ASSUME NEW m \in Makes, NEW ok \in BOOLEAN, ShellEnds(m, ok) PROVE FailureKnown'
    <2>1. CASE ok
      <3>1. kills' = kills /\ (failed' => failed)
        BY <1>5, <2>1, Zenon DEF ShellEnds
      <3> QED
        BY <1>1, <3>1, Zenon DEF FailureKnown, Remembers
    <2>2. CASE ~ok
      <3>1. Spoilt(mk'[m])
        BY <1>5, <2>2, ShellEndsOrderly
      <3> QED
        BY <3>1, Zenon DEF FailureKnown
    <2> QED
      BY <2>1, <2>2
  <1>6. ASSUME NEW s \in SubMakes, Kill(s) PROVE FailureKnown'
    <2>1. Spoilt(mk'[s]) /\ s \in Makes
      BY <1>6, KillOrderly DEF Makes
    <2> QED
      BY <2>1, Zenon DEF FailureKnown
  <1> QED
    BY <1>2, <1>3, <1>4, <1>5, <1>6, NextCases, Zenon

\* A step that changes nothing keeps all invariants.
LEMMA StutterInv ==
    ASSUME UNCHANGED vars
    PROVE  /\ Typed => Typed'
           /\ MakeInv => MakeInv'
           /\ FailureKnown => FailureKnown'
           /\ StopperInv => StopperInv'
  BY DEF vars, Typed, MakeInv, FailureKnown, StopperInv, Live, ParentKnows, Subs
-----------------------------------------------------------------------------
(* The stopper. *)

HasStopper == \E k \in 1..Len(pipe) : pipe[k] = "E"

\* A step in which m takes the stopper from the pipe, if anybody, and keeps it.
LEMMA StopperStep ==
    ASSUME StopperInv, NEW m \in Makes, opt' = opt, kills' = kills,
           \A x \in Makes : mk'[x].aborting = "error" =>
                             mk[x].aborting = "error" \/ mk'[x].hand = "E",
           \A x \in Makes \ {m} : mk[x].hand = "E" => mk'[x].hand = "E",
           HasStopper \/ mk[m].hand = "E" => HasStopper' \/ mk'[m].hand = "E"
    PROVE  StopperInv'
  <1>1. SUFFICES ASSUME NEW y \in Makes, mk'[y].aborting = "error", kills = 0, ~opt.missing
                 PROVE  HasStopper' \/ \E x \in Makes : mk'[x].hand = "E"
    BY Zenon DEF StopperInv, HasStopper
  <1>2. CASE mk'[y].hand = "E"
    BY <1>2
  <1>3. CASE mk[y].aborting = "error"
    <2>1. HasStopper \/ \E x \in Makes : mk[x].hand = "E"
      BY <1>1, <1>3, Zenon DEF StopperInv, HasStopper
    <2> QED
      BY <2>1, Zenon
  <1> QED
    BY <1>1, <1>2, <1>3

\* What a step of m does with the pipe.
LEMMA PipeStopper ==
    ASSUME pipe \in Seq({"+", "E"})
    PROVE  /\ HasStopper /\ pipe' = pipe => HasStopper'
           /\ \A t : HasStopper /\ pipe' = Append(pipe, t) => HasStopper'
           /\ pipe' = Append(pipe, "E") => HasStopper'
           /\ HasStopper /\ pipe # <<>> /\ Head(pipe) = "+" /\ pipe' = Tail(pipe) => HasStopper'
  <1>1. HasStopper /\ pipe' = pipe => HasStopper'
    BY DEF HasStopper
  <1>2. ASSUME NEW t, HasStopper, pipe' = Append(pipe, t) PROVE HasStopper'
    <2>1. PICK k \in 1..Len(pipe) : pipe[k] = "E"
      BY <1>2 DEF HasStopper
    <2>2. k \in 1..Len(pipe') /\ pipe'[k] = "E"
      BY <1>2, <2>1
    <2> QED
      BY <2>2 DEF HasStopper
  <1>3. ASSUME pipe' = Append(pipe, "E") PROVE HasStopper'
    <2>1. Len(pipe) + 1 \in 1..Len(pipe') /\ pipe'[Len(pipe) + 1] = "E"
      BY <1>3
    <2> QED
      BY <2>1 DEF HasStopper
  <1>4. ASSUME HasStopper, pipe # <<>>, Head(pipe) = "+", pipe' = Tail(pipe) PROVE HasStopper'
    <2>1. PICK k \in 1..Len(pipe) : pipe[k] = "E"
      BY <1>4 DEF HasStopper
    <2>2. k # 1
      BY <1>4, <2>1
    <2>3. k - 1 \in 1..Len(pipe') /\ pipe'[k - 1] = "E"
      BY <1>4, <2>1, <2>2
    <2> QED
      BY <2>3 DEF HasStopper
  <1> QED
    BY <1>1, <1>2, <1>3, <1>4, Zenon

\* A make that aborts has the stopper in hand when it returns a token.
LEMMA TokenReturnedStopper ==
    ASSUME NEW r \in Record, NEW ret \in {"loop", "finish", "start"}
    PROVE  /\ TokenReturned(r, ret).aborting = r.aborting
           /\ r.aborting = "error" => TokenReturned(r, ret).hand = "E"
  <1> DEFINE q == TokenReturned(r, ret)
             l == IF Token(r) = "+" THEN "addwrite" ELSE "addflush"
             v == [r EXCEPT !.running = @ - 1, !.hand = Token(r), !.ret = ret, !.pc = l]
             u == [r EXCEPT !.running = 0]
  <1>1. r.aborting = "error" <=> Token(r) = "E"
    BY Zenon DEF Token
  <1>2. v.hand = Token(r) /\ v.aborting = r.aborting
    BY Zenon DEF Record
  <1>3. u \in Record /\ u.aborting = r.aborting
    <2>1. 0 \in 0..MaxJobs
      BY JobTokensAssumption, SMT
    <2> QED
      BY <2>1, Zenon DEF Record
  <1>4. CASE r.running # 1 \/ Token(r) # "+"
    <2>1. q = v
      BY <1>4, Zenon DEF TokenReturned
    <2> HIDE DEF q, v
    <2>2. q.aborting = r.aborting /\ (r.aborting = "error" => q.hand = "E")
      BY <1>1, <1>2, <2>1
    <2> QED
      BY <2>2 DEF q
  <1>5. CASE ~(r.running # 1 \/ Token(r) # "+")
    <2>1. q = Returned(u, ret)
      BY <1>5, Zenon DEF TokenReturned
    <2> HIDE DEF q, u
    <2>2. q.aborting = u.aborting
      BY <1>3, <2>1, ReturnedLeaves DEF Leaves
    <2>3. q.aborting = r.aborting /\ r.aborting # "error"
      BY <1>1, <1>3, <1>5, <2>2
    <2> QED
      BY <2>3 DEF q
  <1> QED
    BY <1>4, <1>5

\* After JobFinish() with ABORT_ERROR the make is about to put the stopper in the pipe; aborting
\* is never taken back.
LEMMA FinishedStopper ==
    ASSUME NEW r \in Record, NEW ok \in BOOLEAN, NEW x \in Finished(r, ok)
    PROVE  /\ x.aborting = "error" => x.hand = "E"
           /\ r.aborting # None => x.aborting # None
  <1> DEFINE e == [r EXCEPT !.errors = @ \/ ~ok]
             ab == IF e.errors /\ ~opt.keepgoing THEN "error" ELSE e.aborting
             a == [e EXCEPT !.aborting = ab]
  <1>1. e \in Record /\ e.aborting = r.aborting
    BY Zenon DEF Record
  <1> HIDE DEF e
  <1>2. ab \in {None, "error", "wait"} /\ (r.aborting # None => ab # None)
    BY <1>1, Zenon DEF Record, None
  <1> HIDE DEF ab
  <1>3. a \in Record /\ a.aborting = ab
    BY <1>1, <1>2, Zenon DEF Record
  <1>4. PICK u \in IF ok /\ r.aborting # "error" THEN Updated(a) ELSE {a} :
               x = TokenReturned(u, "finish")
    BY Zenon DEF Finished, e, ab
  <1> HIDE DEF a
  <1>5. u \in Record /\ u.aborting = a.aborting
    BY <1>3, <1>4, UpdatedFacts, Zenon
  <1> QED
    BY <1>2, <1>3, <1>4, <1>5, TokenReturnedStopper, Zenon

\* Nobody destroys the stopper, and a make that aborts has it in hand.
LEMMA OwnStopper ==
    ASSUME Typed, MakeInv, NEW m \in Makes, Own(m)
    PROVE  /\ mk'[m].aborting = "error" => mk[m].aborting = "error" \/ mk'[m].hand = "E"
           /\ mk[m].aborting # None => mk'[m].aborting # None
           /\ HasStopper \/ mk[m].hand = "E" => HasStopper' \/ mk'[m].hand = "E"
  <1> DEFINE r == mk[m]
             Aborts == /\ mk'[m].aborting = "error" => r.aborting = "error" \/ mk'[m].hand = "E"
                       /\ r.aborting # None => mk'[m].aborting # None
             Keeps == HasStopper \/ r.hand = "E" => HasStopper' \/ mk'[m].hand = "E"
  <1> SUFFICES Aborts /\ Keeps
    OBVIOUS
  <1>r. r \in Record /\ HandKnown(r) /\ r \in Record
    BY DEF Typed, MakeInv, Local
  <1>p. pipe \in Seq({"+", "E"})
    BY DEF Typed
  <1>b. ASSUME NEW q, mk' = [mk EXCEPT ![m] = q] PROVE mk'[m] = q
    BY <1>b DEF Typed
  <1>same. ASSUME mk'[m].aborting = r.aborting PROVE Aborts
    BY <1>same
  <1>idle. ASSUME UNCHANGED pipe, r.pc \in {"server", "start", "read", "examine", "catch"}
           PROVE  Keeps
    <2>1. r.hand # "E"
      BY <1>idle, <1>r, SMT DEF HandKnown, None
    <2>2. HasStopper => HasStopper'
      BY <1>idle, <1>p, PipeStopper
    <2> QED
      BY <2>1, <2>2
  <1>loop. ASSUME NEW u \in Record PROVE Looped(u).aborting = u.aborting
    BY LoopedLeaves DEF Leaves
  <1> HIDE DEF Aborts, Keeps
  <1>1. CASE ServerStart(m)
    <2>1. mk'[m].aborting = r.aborting /\ mk'[m].hand = r.hand
      <3>1. mk'[m] = r \/ mk'[m] = [r EXCEPT !.pc = "start"]
        BY <1>1, <1>b DEF ServerStart, Becomes
      <3> QED
        BY <1>r, <3>1, Zenon DEF Record
    <2>2. HasStopper => HasStopper'
      BY <1>1, <1>p, PipeStopper DEF ServerStart
    <2>3. r.hand # "E"
      BY <1>1, <1>r, SMT DEF ServerStart, HandKnown, None
    <2> QED
      BY <2>1, <2>2, <2>3, <1>same, Zenon DEF Keeps
  <1>2. CASE AddFlush(m)
    <2>1. mk'[m].aborting = r.aborting /\ mk'[m].hand = r.hand
      <3>1. mk'[m] = r \/ mk'[m] = [r EXCEPT !.pc = "addwrite"]
        BY <1>2, <1>b DEF AddFlush, Becomes
      <3> QED
        BY <1>r, <3>1, Zenon DEF Record
    <2>2. r.hand = "E"
      BY <1>2, <1>r, SMT DEF AddFlush, HandKnown
    <2> QED
      BY <2>1, <2>2, <1>same, Zenon DEF Keeps
  <1>3. CASE AddWrite(m)
    <2> DEFINE u == [r EXCEPT !.hand = None, !.ret = None]
    <2>1. u \in Record /\ u.aborting = r.aborting
      BY <1>r, Zenon DEF Record
    <2>2. r.ret \in {"loop", "finish", "start"} /\ r.hand \in {"+", "E"}
      <3>1. r.ret # None /\ r.hand # None
        BY <1>3, <1>r, SMT DEF AddWrite, HandKnown
      <3> QED
        BY <1>r, <3>1, Zenon DEF Record
    <2>3. mk'[m] = Returned(u, r.ret)
      BY <1>3, <1>b DEF AddWrite, Becomes
    <2> HIDE DEF u
    <2>4. mk'[m].aborting = r.aborting
      BY <2>1, <2>2, <2>3, ReturnedLeaves DEF Leaves
    <2>5. pipe' = Append(pipe, r.hand)
      BY <1>3 DEF AddWrite
    <2>6. HasStopper \/ r.hand = "E" => HasStopper'
      BY <1>p, <2>5, PipeStopper
    <2> QED
      BY <2>4, <2>6, <1>same, Zenon DEF Keeps
  <1>4. CASE StartJobs(m)
    <2> DEFINE r0 == [r EXCEPT !.have = FALSE]
               w == [r EXCEPT !.want = FALSE]
               e == [r EXCEPT !.pc = "examine"]
               d == [w EXCEPT !.pc = "read"]
    <2>1. mk'[m] \in {TokenReturned(r0, "loop"), Looped(r), e, Looped(w), d}
      <3>1. mk' = [mk EXCEPT ![m] =
                      CASE r.todo = 0 /\ r.have  -> TokenReturned(r0, "loop")
                        [] r.todo = 0 /\ ~r.have -> Looped(r)
                        [] r.todo # 0 /\ r.have  -> e
                        [] r.todo # 0 /\ ~r.have ->
                             IF r.aborting # None \/ r.running >= MaxJobs THEN Looped(w) ELSE d]
        BY <1>4, Zenon DEF StartJobs, Becomes
      <3> HIDE DEF r0, w, e, d
      <3>2. mk'[m] = CASE r.todo = 0 /\ r.have  -> TokenReturned(r0, "loop")
                       [] r.todo = 0 /\ ~r.have -> Looped(r)
                       [] r.todo # 0 /\ r.have  -> e
                       [] r.todo # 0 /\ ~r.have ->
                            IF r.aborting # None \/ r.running >= MaxJobs THEN Looped(w) ELSE d
        BY <3>1, <1>b
      <3>3. r.have \in BOOLEAN
        BY <1>r, Zenon DEF Record
      <3> QED
        BY <3>2, <3>3, Zenon
    <2>2. /\ r0 \in Record /\ r0.aborting = r.aborting /\ w \in Record /\ w.aborting = r.aborting
          /\ e.aborting = r.aborting
      BY <1>r, Zenon DEF Record
    <2>3. d.aborting = w.aborting
      BY <2>2, Zenon DEF Record
    <2> HIDE DEF r0, w, e, d
    <2>4. TokenReturned(r0, "loop").aborting = r.aborting
      BY <2>2, TokenReturnedStopper
    <2>5. mk'[m].aborting = r.aborting
      BY <1>r, <1>loop, <2>1, <2>2, <2>3, <2>4, Zenon
    <2>6. UNCHANGED pipe /\ r.pc = "start"
      BY <1>4, Zenon DEF StartJobs
    <2> QED
      BY <2>5, <2>6, <1>same, <1>idle
  <1>w. /\ Withdrawn(r).aborting = r.aborting
    BY <1>r, Zenon DEF Record, Withdrawn
  <1>5. CASE WithdrawEmpty(m)
    <2> DEFINE w == [r EXCEPT !.want = TRUE]
    <2>1. w \in Record /\ w.aborting = r.aborting
      BY <1>r, Zenon DEF Record
    <2>2. mk'[m] = Looped(w) \/ mk'[m] = Withdrawn(r)
      BY <1>5, <1>b DEF WithdrawEmpty, Becomes
    <2> HIDE DEF w
    <2>3. mk'[m].aborting = r.aborting
      BY <1>w, <1>loop, <2>1, <2>2, Zenon
    <2>4. UNCHANGED pipe /\ r.pc = "read"
      BY <1>5 DEF WithdrawEmpty
    <2> QED
      BY <2>3, <2>4, <1>same, <1>idle
  <1>6. CASE WithdrawToken(m)
    <2>1. mk'[m] = [r EXCEPT !.hand = "+", !.pc = "putback"] \/ mk'[m] = Withdrawn(r)
      BY <1>6, <1>b DEF WithdrawToken, Becomes
    <2>2. mk'[m].aborting = r.aborting
      BY <1>r, <1>w, <2>1, Zenon DEF Record
    <2>3. r.hand # "E"
      BY <1>6, <1>r, SMT DEF WithdrawToken, HandKnown, None
    <2>4. HasStopper => HasStopper'
      BY <1>6, <1>p, PipeStopper DEF WithdrawToken
    <2> QED
      BY <2>2, <2>3, <2>4, <1>same, Zenon DEF Keeps
  <1>7. CASE PutBack(m)
    <2>1. mk'[m] = Withdrawn(r)
      BY <1>7, <1>b DEF PutBack, Becomes
    <2>2. r.hand # "E"
      BY <1>7, <1>r, SMT DEF PutBack, HandKnown
    <2>3. HasStopper => HasStopper'
      BY <1>7, <1>p, PipeStopper DEF PutBack
    <2> QED
      BY <1>w, <2>1, <2>2, <2>3, <1>same, Zenon DEF Keeps
  <1>8. CASE WithdrawStopper(m)
    <2>1. mk'[m] = [r EXCEPT !.hand = Head(pipe), !.pc = "stopflush"]
      BY <1>8, <1>b DEF WithdrawStopper, Becomes
    <2>2. mk'[m].aborting = r.aborting /\ mk'[m].hand = Head(pipe)
      BY <1>r, <2>1, Zenon DEF Record
    <2>3. Head(pipe) = "E"
      BY <1>8, <1>p DEF WithdrawStopper
    <2> QED
      BY <2>2, <2>3, <1>same, Zenon DEF Keeps
  <1>9. CASE StopFlush(m)
    <2>1. mk'[m].aborting = r.aborting /\ mk'[m].hand = r.hand
      <3>1. mk'[m] = r \/ mk'[m] = [r EXCEPT !.pc = "stopput"]
        BY <1>9, <1>b DEF StopFlush, Becomes
      <3> QED
        BY <1>r, <3>1, Zenon DEF Record
    <2>2. r.hand = "E"
      BY <1>9, <1>r, SMT DEF StopFlush, HandKnown
    <2> QED
      BY <2>1, <2>2, <1>same, Zenon DEF Keeps
  <1>10. CASE StopPut(m)
    <2> DEFINE w == [r EXCEPT !.hand = None, !.fatal = TRUE, !.aborting = "wait"]
    <2>1. w \in Record /\ w.aborting = "wait"
      BY <1>r, Zenon DEF Record
    <2>2. mk'[m] = Exited(r, "bad") \/ mk'[m] = Looped(w)
      BY <1>10, <1>b DEF StopPut, Becomes
    <2> HIDE DEF w
    <2>3. mk'[m].aborting = r.aborting \/ mk'[m].aborting = "wait"
      <3>1. Exited(r, "bad").aborting = r.aborting
        BY <1>r, Zenon DEF Exited, Record
      <3> QED
        BY <1>loop, <2>1, <2>2, <3>1, Zenon
    <2>4. r.hand = "E"
      BY <1>10, <1>r, SMT DEF StopPut, HandKnown
    <2>5. pipe' = Append(pipe, "E")
      BY <1>10, <2>4 DEF StopPut
    <2>6. HasStopper'
      BY <1>p, <2>5, PipeStopper
    <2> QED
      BY <2>3, <2>6, SMT DEF Aborts, Keeps, None
  <1>d. ASSUME r.pc = "examine" PROVE Dequeued(m) \in Record /\ Dequeued(m).aborting = r.aborting
    <2>1. r.todo > 0 /\ r.todo \in Nat
      BY <1>d, SMT DEF Typed, MakeInv, Local, HaveKnown, Record
    <2>2. r.todo - 1 \in Nat
      BY <2>1, SMT
    <2> QED
      BY <1>r, <2>2, Zenon DEF Record, Dequeued
  <1>11. CASE UpToDate(m)
    <2>1. PICK q \in Updated(Dequeued(m)) : mk' = [mk EXCEPT ![m] = q]
      BY <1>11 DEF UpToDate, Becomes
    <2>2. UNCHANGED pipe /\ r.pc = "examine"
      BY <1>11 DEF UpToDate
    <2>3. mk'[m].aborting = r.aborting
      BY <1>b, <1>d, <2>1, <2>2, UpdatedFacts, Zenon
    <2> QED
      BY <2>2, <2>3, <1>same, <1>idle
  <1>12. CASE Defer(m) \/ StartShell(m)
    <2>1. UNCHANGED pipe /\ r.pc = "examine"
      BY <1>12, Zenon DEF Defer, StartShell
    <2>2. \/ mk'[m] = [Dequeued(m) EXCEPT !.later = @ + 1]
          \/ mk'[m] = [Dequeued(m) EXCEPT !.jobs = @ + 1, !.have = FALSE]
      BY <1>12, <1>b DEF Defer, StartShell, Becomes
    <2>3. mk'[m].aborting = r.aborting
      BY <1>d, <2>1, <2>2, Zenon DEF Record
    <2> QED
      BY <2>1, <2>3, <1>same, <1>idle
  <1>13. CASE StartNothing(m)
    <2>1. UNCHANGED pipe /\ r.pc = "examine"
      BY <1>13, Zenon DEF StartNothing
    <2>2. PICK u \in IF r.aborting = None THEN Updated(Dequeued(m)) ELSE {Dequeued(m)} :
                 mk' = [mk EXCEPT ![m] = TokenReturned([u EXCEPT !.have = FALSE], "start")]
      BY <1>13, Zenon DEF StartNothing, Becomes
    <2>3. u \in Record /\ u.aborting = r.aborting
      BY <1>d, <2>1, <2>2, UpdatedFacts, Zenon
    <2> DEFINE v == [u EXCEPT !.have = FALSE]
    <2>4. v \in Record /\ v.aborting = r.aborting
      BY <2>3, Zenon DEF Record
    <2>5. mk'[m] = TokenReturned(v, "start")
      BY <1>b, <2>2
    <2> HIDE DEF v
    <2>6. mk'[m].aborting = r.aborting
      BY <2>4, <2>5, TokenReturnedStopper
    <2> QED
      BY <2>1, <2>6, <1>same, <1>idle
  <1>14. CASE CatchNothing(m)
    <2>1. UNCHANGED pipe /\ r.pc = "catch"
      BY <1>14, Zenon DEF CatchNothing
    <2>2. mk'[m] = Looped(r) \/ mk'[m] = [r EXCEPT !.pc = "start"]
      BY <1>14, <1>b DEF CatchNothing, Becomes
    <2>3. [r EXCEPT !.pc = "start"].aborting = r.aborting
      BY <1>r, Zenon DEF Record
    <2>4. mk'[m].aborting = r.aborting
      BY <1>r, <1>loop, <2>2, <2>3, Zenon
    <2> QED
      BY <2>1, <2>4, <1>same, <1>idle
  <1>15. ASSUME NEW ok \in BOOLEAN, CatchShell(m, ok) PROVE Aborts /\ Keeps
    <2>1. UNCHANGED pipe /\ r.pc = "catch"
      BY <1>15, Zenon DEF CatchShell
    <2> DEFINE v == IF ok THEN [r EXCEPT !.good = @ - 1] ELSE [r EXCEPT !.bad = @ - 1]
    <2>2. PICK x \in Finished(v, ok) : mk' = [mk EXCEPT ![m] = x]
      BY <1>15, Zenon DEF CatchShell, Becomes
    <2>3. (IF ok THEN r.good ELSE r.bad) > 0
      BY <1>15, Zenon DEF CatchShell
    <2>4. r.good \in Nat /\ r.bad \in Nat
      BY <1>r, Zenon DEF Record
    <2>5. (ok => r.good - 1 \in Nat) /\ (~ok => r.bad - 1 \in Nat)
      BY <2>3, <2>4, SMT
    <2>6. v \in Record /\ v.aborting = r.aborting
      BY <1>r, <2>5, Zenon DEF Record
    <2> HIDE DEF v
    <2>7. (x.aborting = "error" => x.hand = "E") /\ (r.aborting # None => x.aborting # None)
      BY <1>15, <2>2, <2>6, FinishedStopper
    <2>8. mk'[m] = x
      BY <1>b, <2>2
    <2>9. Aborts
      BY <2>7, <2>8, Zenon DEF Aborts
    <2> QED
      BY <2>1, <2>9, <1>idle
  <1> HIDE DEF r
  <1> QED
    BY <1>1, <1>2, <1>3, <1>4, <1>5, <1>6, <1>7, <1>8, <1>9, <1>10, <1>11, <1>12, <1>13,
       <1>14, <1>15, Zenon DEF Own

\* StopperInv is inductive.
LEMMA StopperInvStep ==
    ASSUME Typed, MakeInv, StopperInv, Next
    PROVE  StopperInv'
  <1>0. SubMakes \subseteq Makes
    BY DEF Makes
  <1>1. ASSUME NEW m \in Makes, Own(m) PROVE StopperInv'
    <2>1. PICK q : Becomes(m, q)
      BY <1>1, OwnOK
    <2>2. \A x \in Makes \ {m} : mk'[x] = mk[x]
      BY <2>1 DEF Becomes, Typed
    <2>3. opt' = opt /\ kills' = kills
      BY <2>1 DEF Becomes
    <2>4. \A x \in Makes : mk'[x].aborting = "error" =>
                            mk[x].aborting = "error" \/ mk'[x].hand = "E"
      BY <1>1, <2>2, OwnStopper, Zenon
    <2>5. HasStopper \/ mk[m].hand = "E" => HasStopper' \/ mk'[m].hand = "E"
      BY <1>1, OwnStopper
    <2> QED
      BY <1>1, <2>2, <2>3, <2>4, <2>5, StopperStep
  <1>2. ASSUME NEW m \in Makes, Die(m) PROVE StopperInv'
    <2>1. opt'.missing
      BY <1>2, Zenon DEF Die
    <2> QED
      BY <2>1, Zenon DEF StopperInv
  <1>3. ASSUME NEW m \in Makes, NEW s \in SubMakes, StartSubMake(m, s) PROVE StopperInv'
    <2> DEFINE q == [Dequeued(m) EXCEPT !.have = FALSE]
    <2>1. /\ mk' = [mk EXCEPT ![m] = q, ![s] = NewMake(s, "start")]
          /\ opt' = opt /\ kills' = kills /\ pipe' = pipe
          /\ mk[m].pc = "examine" /\ mk[s].pc = None
      BY <1>3, Zenon DEF StartSubMake
    <2>2. mk[m] \in Record /\ HandKnown(mk[s]) /\ HandKnown(mk[m])
      BY <1>0 DEF Typed, MakeInv, Local
    <2>3. q.aborting = mk[m].aborting
      <3>1. DOMAIN mk[m] = DOMAIN Dequeued(m) /\ Dequeued(m).aborting = mk[m].aborting
        BY <2>2, Zenon DEF Dequeued, Record
      <3>2. DOMAIN mk[m] = {"pc", "ret", "hand", "aborting", "fatal", "running", "want", "have",
                            "errors", "todo", "later", "jobs", "good", "bad", "status"}
        BY <2>2, Zenon DEF Record
      <3> QED
        BY <3>1, <3>2
    <2>4. NewMake(s, "start").aborting # "error"
      BY Zenon DEF NewMake, None
    <2>5. mk[m].hand # "E" /\ mk[s].hand # "E" /\ m # s
      BY <2>1, <2>2, SMT DEF HandKnown, None
    <2> HIDE DEF q
    <2>6. mk'[m] = q /\ mk'[s] = NewMake(s, "start") /\ \A x \in Makes \ {m, s} : mk'[x] = mk[x]
      BY <1>0, <2>1, <2>5 DEF Typed
    <2>7. HasStopper => HasStopper'
      BY <2>1 DEF HasStopper
    <2>8. \A x \in Makes : mk'[x].aborting = "error" =>
                            mk[x].aborting = "error" \/ mk'[x].hand = "E"
      BY <2>3, <2>4, <2>6, Zenon
    <2>9. \A x \in Makes \ {m} : mk[x].hand = "E" => mk'[x].hand = "E"
      BY <2>5, <2>6, Zenon
    <2> QED
      BY <1>3, <2>1, <2>5, <2>7, <2>8, <2>9, StopperStep
  <1>4. ASSUME NEW m \in Makes, NEW s \in SubMakes, CatchSubMake(m, s) PROVE StopperInv'
    <2> DEFINE ok == mk[s].status = "good"
               z == [mk[s] EXCEPT !.pc = None]
    <2>1. /\ opt' = opt /\ kills' = kills /\ pipe' = pipe
          /\ mk[m].pc = "catch" /\ mk[s].pc = "exited"
      BY <1>4, Zenon DEF CatchSubMake
    <2>2. PICK x \in Finished(mk[m], ok) : mk' = [mk EXCEPT ![m] = x, ![s].pc = None]
      BY <1>4, Zenon DEF CatchSubMake
    <2>3. mk[m] \in Record /\ mk[s] \in Record /\ HandKnown(mk[s]) /\ HandKnown(mk[m])
      BY <1>0 DEF Typed, MakeInv, Local
    <2>4. x.aborting = "error" => x.hand = "E"
      BY <2>2, <2>3, FinishedStopper
    <2>5. z.aborting = mk[s].aborting
      BY <2>3, Zenon DEF Record
    <2>6. mk[m].hand # "E" /\ mk[s].hand # "E" /\ m # s
      BY <2>1, <2>3, SMT DEF HandKnown, None
    <2>7. mk'[m] = x /\ mk'[s] = z /\ \A y \in Makes \ {m, s} : mk'[y] = mk[y]
      BY <1>0, <2>2, <2>6 DEF Typed
    <2> HIDE DEF z
    <2>8. HasStopper => HasStopper'
      BY <2>1 DEF HasStopper
    <2>9. \A y \in Makes : mk'[y].aborting = "error" =>
                            mk[y].aborting = "error" \/ mk'[y].hand = "E"
      BY <2>4, <2>5, <2>7, Zenon
    <2>10. \A y \in Makes \ {m} : mk[y].hand = "E" => mk'[y].hand = "E"
      BY <2>6, <2>7, Zenon
    <2> QED
      BY <1>4, <2>1, <2>6, <2>8, <2>9, <2>10, StopperStep
  <1>5. ASSUME NEW m \in Makes, NEW ok \in BOOLEAN, ShellEnds(m, ok) PROVE StopperInv'
    <2>1. opt' = opt /\ kills' = kills /\ pipe' = pipe
      BY <1>5, Zenon DEF ShellEnds
    <2>2. /\ mk'[m].hand = mk[m].hand /\ mk'[m].aborting = mk[m].aborting
          /\ \A x \in Makes \ {m} : mk'[x] = mk[x]
      BY <1>5, ShellEndsOrderly
    <2>3. HasStopper => HasStopper'
      BY <2>1 DEF HasStopper
    <2>4. \A x \in Makes : mk'[x].aborting = "error" =>
                            mk[x].aborting = "error" \/ mk'[x].hand = "E"
      BY <2>2, Zenon
    <2> QED
      BY <1>5, <2>1, <2>2, <2>3, <2>4, StopperStep
  <1>6. ASSUME NEW s \in SubMakes, Kill(s) PROVE StopperInv'
    <2>1. kills' = kills + 1 /\ kills \in 0..MaxKills /\ MaxKills \in Nat
      BY <1>6, JobTokensAssumption DEF Kill, Typed
    <2>2. kills' # 0
      BY <2>1, SMT
    <2> QED
      BY <2>2, Zenon DEF StopperInv
  <1> QED
    BY <1>1, <1>2, <1>3, <1>4, <1>5, <1>6, NextCases, Zenon
-----------------------------------------------------------------------------
(* The theorems. *)

\* The variables stay in their ranges: jobTokensRunning between 0 and -j, no
\* count below 0, and no more in the pipe than it holds.
THEOREM TypeCorrect == Spec => []TypeOK
  <1>1. Init => Typed /\ MakeInv
    BY InitOK
  <1>2. Typed /\ MakeInv /\ [Next]_vars => (Typed /\ MakeInv)'
    BY StepInv, StutterInv
  <1>3. Spec => [](Typed /\ MakeInv)
    BY <1>1, <1>2, PTL DEF Spec
  <1>4. Typed /\ MakeInv => TypeOK
    BY TypedOK
  <1> QED
    BY <1>3, <1>4, PTL

(* jobTokensRunning of every make counts its jobs, of whatever kind, that  *)
(* have not been reaped and the token MakeStartJobs() holds, whoever dies. *)
THEOREM TokensCounted == Spec => []TokenPerJob
  <1>1. Init => Typed /\ MakeInv
    BY InitOK
  <1>2. Typed /\ MakeInv /\ [Next]_vars => (Typed /\ MakeInv)'
    BY StepInv, StutterInv
  <1>3. Typed /\ MakeInv => TokenPerJob
    <2>1. SUFFICES ASSUME MakeInv, NEW m \in Makes, Live(m)
                   PROVE  mk[m].running = mk[m].jobs + mk[m].good + mk[m].bad
                            + (IF mk[m].have THEN 1 ELSE 0)
                            + Cardinality({s \in SubMakes : Parent[s] = m
                                              /\ (Live(s) \/ mk[s].pc = "exited")})
      BY Zenon DEF TokenPerJob
    <2>2. {s \in SubMakes : Parent[s] = m /\ (Live(s) \/ mk[s].pc = "exited")} = Subs(m)
      BY DEF Subs, Live, None
    <2>3. Balanced(mk[m], Cardinality(Subs(m)))
      BY <2>1 DEF MakeInv
    <2> QED
      BY <2>2, <2>3, Zenon DEF Balanced
  <1> QED
    BY <1>1, <1>2, <1>3, PTL DEF Spec

\* A failure anywhere in the tree keeps the root from returning success.
LEMMA FailureReachesRoot == MakeInv /\ FailureKnown /\ Typed => StatusOfBuild
  <1> SUFFICES ASSUME MakeInv, FailureKnown, Typed, mk[Root].status = "good"
               PROVE  ~failed /\ kills = 0
    BY Zenon DEF StatusOfBuild
  <1> DEFINE T == {y \in SubMakes : mk[y].pc # None \/ mk[y].status = "bad"}
  <1>0. Root \in Makes /\ \A s \in SubMakes : s \in Makes /\ Parent[s] \in Makes
    BY JobTokensAssumption DEF Makes
  <1>1. ASSUME NEW y \in Makes, y \notin T
        PROVE  mk[y].bad = 0 /\ ~mk[y].errors /\ mk[y].status # "bad"
    <2>0. StatusKnown(mk[y]) /\ mk[y].status \in {None, "good", "bad"}
      <3>1. mk[y] \in Record /\ Local(mk[y])
        BY DEF Typed, MakeInv
      <3> QED
        BY <3>1, Zenon DEF Local, Record
    <2>1. CASE y = Root
      BY <2>0, <2>1, Zenon DEF StatusKnown
    <2>2. CASE y # Root
      <3>1. mk[y].pc = None /\ mk[y].status # "bad"
        BY <1>1, <2>2 DEF Makes
      <3> QED
        BY <2>0, <3>1, Zenon DEF StatusKnown
    <2> QED
      BY <2>1, <2>2
  <1>2. T = {}
    <2>1. SUFFICES ASSUME T # {} PROVE FALSE
      OBVIOUS
    <2>2. PICK s \in T : Parent[s] \notin T
      BY <2>1, TreeAssumption
    <2>3. s \in SubMakes /\ Parent[s] \in Makes
      BY <1>0, <2>2
    <2>4. CASE mk[s].pc # None
      <3>1. /\ mk[Parent[s]].status # "good"
            /\ mk[Parent[s]].pc # None \/ mk[Parent[s]].status # None
        BY <2>3, <2>4 DEF MakeInv, ParentKnows
      <3>2. Parent[s] \in SubMakes
        BY <2>3, <3>1 DEF Makes
      <3>3. mk[Parent[s]].pc = None /\ mk[Parent[s]].status # "bad"
        BY <2>2, <3>2
      <3>4. mk[Parent[s]].status \in {None, "good", "bad"}
        <4>1. mk[Parent[s]] \in Record
          BY <2>3 DEF Typed
        <4> QED
          BY <4>1, Zenon DEF Record
      <3> QED
        BY <3>1, <3>3, <3>4
    <2>5. CASE mk[s].pc = None /\ mk[s].status = "bad"
      <3>1. mk[Parent[s]].errors
        BY <2>3, <2>5 DEF MakeInv, ParentKnows
      <3> QED
        BY <1>1, <2>2, <2>3, <3>1, Zenon
    <2> QED
      BY <2>2, <2>4, <2>5
  <1>3. ASSUME NEW y \in Makes PROVE ~Spoilt(mk[y])
    <2>1. mk[y].bad = 0 /\ ~mk[y].errors /\ mk[y].status # "bad"
      BY <1>1, <1>2
    <2>2. ~(mk[y].bad > 0)
      BY <2>1, SMT
    <2> QED
      BY <2>1, <2>2, Zenon DEF Spoilt
  <1>4. ~failed /\ ~(kills > 0)
    BY <1>3, Zenon DEF FailureKnown
  <1>5. kills = 0
    <2>1. kills \in 0..MaxKills
      BY DEF Typed
    <2> QED
      BY <1>4, <2>1, JobTokensAssumption, SMT
  <1> QED
    BY <1>4, <1>5

(* The root returns success only if no shell of any make has failed and no *)
(* sub-make was killed, however deep in the tree.                          *)
THEOREM StatusTrue == Spec => []StatusOfBuild
  <1> DEFINE I == Typed /\ MakeInv /\ FailureKnown
  <1>1. Init => I
    BY InitOK
  <1>2. I /\ [Next]_vars => I'
    BY StepInv, FailureStep, StutterInv
  <1>3. I => StatusOfBuild
    BY FailureReachesRoot
  <1> QED
    BY <1>1, <1>2, <1>3, PTL DEF Spec

(* Once a make has failed, the stopper is in the pipe or about to be put   *)
(* there: the makes that find it and take it out do not lose it, nor do    *)
(* those that flush the pipe meanwhile.                                    *)
THEOREM StopperStays == Spec => []StopperKept
  <1> DEFINE I == Typed /\ MakeInv /\ StopperInv
  <1>1. Init => I
    BY InitOK
  <1>2. I /\ [Next]_vars => I'
    BY StepInv, StopperInvStep, StutterInv
  <1>3. I => StopperKept
    BY Zenon DEF StopperInv, StopperKept, Stopped
  <1> QED
    BY <1>1, <1>2, <1>3, PTL DEF Spec

-----------------------------------------------------------------------------
(* Sets. *)

\* A finite set and its image under a bijection have the same size.
LEMMA SameSize ==
    ASSUME NEW S, NEW T, IsFiniteSet(S), NEW f \in [S -> T],
           \A x, y \in S : f[x] = f[y] => x = y,
           \A t \in T : \E x \in S : f[x] = t
    PROVE  IsFiniteSet(T) /\ Cardinality(T) = Cardinality(S)
  <1>1. f \in Bijection(S, T)
    BY Fun_IsBij
  <1>2. ExistsBijection(S, T)
    BY <1>1, Fun_ExistsBij
  <1> QED
    BY <1>2, FS_Bijection

\* A set that maps one-to-one into a finite set is finite and no larger.
LEMMA AtMostSize ==
    ASSUME NEW S, NEW T, IsFiniteSet(T), NEW f \in [S -> T],
           \A x, y \in S : f[x] = f[y] => x = y
    PROVE  IsFiniteSet(S) /\ Cardinality(S) <= Cardinality(T)
  <1>1. f \in Injection(S, T)
    BY Fun_IsInj
  <1> QED
    BY <1>1, FS_Injection

\* A subset is no larger.
LEMMA SubsetSize ==
    ASSUME NEW S, NEW T, IsFiniteSet(T), S \subseteq T
    PROVE  /\ IsFiniteSet(S) /\ Cardinality(S) \in Nat /\ Cardinality(T) \in Nat
           /\ Cardinality(S) <= Cardinality(T)
  BY FS_Subset, FS_CardinalityType

\* Sets without a common element.
LEMMA DisjointSize ==
    ASSUME NEW S, NEW T, IsFiniteSet(S), IsFiniteSet(T), S \cap T = {}
    PROVE  /\ IsFiniteSet(S \cup T)
           /\ Cardinality(S \cup T) = Cardinality(S) + Cardinality(T)
  <1>1. Cardinality(S \cup T) = Cardinality(S) + Cardinality(T) - Cardinality(S \cap T)
    BY FS_Union
  <1>2. Cardinality(S \cap T) = 0
    BY FS_EmptySet
  <1>3. Cardinality(S) \in Nat /\ Cardinality(T) \in Nat
    BY FS_CardinalityType
  <1> QED
    BY <1>1, <1>2, <1>3, FS_Union
-----------------------------------------------------------------------------
(* The tokens of one make. *)

\* What a make has taken is a number between 0 and -j.
LEMMA TakenType ==
    ASSUME NEW r \in Record
    PROVE  TakenBy(r) \in Nat /\ TakenBy(r) <= MaxJobs
  <1>1. r.running \in 0..MaxJobs /\ MaxJobs \in Nat \ {0}
    BY JobTokensAssumption, Zenon DEF Record
  <1> QED
    BY <1>1, SMT DEF TakenBy

\* Only these fields count.
LEMMA TakenSame ==
    ASSUME NEW r \in Record, NEW q \in Record, q.running = r.running,
           q.pc \in {None, "exited"} <=> r.pc \in {None, "exited"},
           q.hand = "+" <=> r.hand = "+"
    PROVE  TakenBy(q) = TakenBy(r)
  BY Zenon DEF TakenBy

\* A make without a job and without a token in hand has none.
LEMMA TakenNone ==
    ASSUME NEW r \in Record, r.pc \in {None, "exited"} \/ (r.running = 0 /\ r.hand # "+")
    PROVE  TakenBy(r) = 0
  BY SMT DEF TakenBy

\* A make exits from the loop only when it has none.
LEMMA LeavesTaken ==
    ASSUME NEW r \in Record, NEW q, Leaves(r, q), r.pc \notin {None, "exited"}, r.hand = None
    PROVE  TakenBy(q) = TakenBy(r)
  <1>1. q \in Record /\ r.hand # "+"
    BY SMT DEF Leaves, None
  <1>2. CASE q.pc \in {"catch", "start"} /\ q.hand = r.hand
    <2>1. q.pc \notin {None, "exited"}
      BY <1>2, SMT DEF None
    <2>2. q.running = r.running
      BY DEF Leaves
    <2> QED
      BY <1>1, <1>2, <2>1, <2>2, TakenSame
  <1>3. CASE q.pc = "exited" /\ r.running = 0
    BY <1>1, <1>3, TakenNone
  <1> QED
    BY <1>2, <1>3 DEF Leaves

\* Going round the loop of Make_Run() takes and returns no token.
LEMMA LoopedTaken ==
    ASSUME NEW r \in Record, r.pc \notin {None, "exited"}, r.hand = None
    PROVE  TakenBy(Looped(r)) = TakenBy(r)
  BY LoopedLeaves, LeavesTaken

\* Job_TokenReturn() puts back what it has, unless the make aborts.
LEMMA TokenReturnedTaken ==
    ASSUME NEW r \in Record, NEW ret \in {"loop", "finish", "start"},
           r.pc \notin {None, "exited"}, r.hand = None, r.running > 0
    PROVE  /\ TakenBy(TokenReturned(r, ret)) <= TakenBy(r)
           /\ r.aborting # "error" => TakenBy(TokenReturned(r, ret)) = TakenBy(r)
  <1> DEFINE q == TokenReturned(r, ret)
             l == IF Token(r) = "+" THEN "addwrite" ELSE "addflush"
             v == [r EXCEPT !.running = @ - 1, !.hand = Token(r), !.ret = ret, !.pc = l]
             u == [r EXCEPT !.running = 0]
  <1>1. r.running \in 0..MaxJobs /\ MaxJobs \in Nat /\ r.hand # "+" /\ TakenBy(r) \in Nat
    BY JobTokensAssumption, TakenType, SMT DEF Record, None
  <1>2. TakenBy(r) = IF r.running > 1 THEN r.running - 1 ELSE 0
    BY <1>1, SMT DEF TakenBy
  <1>3. Token(r) \in {"+", "E"} /\ (r.aborting = "error" <=> Token(r) = "E")
    BY Zenon DEF Token
  <1>4. CASE r.running # 1 \/ Token(r) # "+"
    <2>1. q = v
      BY <1>4, Zenon DEF TokenReturned
    <2>2. l \notin {None, "exited"}
      BY SMT DEF None
    <2> HIDE DEF q, l
    <2>3. v.running = r.running - 1 /\ v.hand = Token(r) /\ v.pc = l
      BY Zenon DEF Record
    <2> HIDE DEF v
    <2>4. TakenBy(v) = (IF r.running - 1 > 1 THEN (r.running - 1) - 1 ELSE 0)
                         + (IF Token(r) = "+" THEN 1 ELSE 0)
      BY <2>2, <2>3, Zenon DEF TakenBy
    <2>5. CASE Token(r) = "+"
      <3>1. TakenBy(v) = TakenBy(r)
        BY <1>1, <1>2, <1>4, <2>4, <2>5, SMT
      <3> QED
        BY <1>1, <2>1, <3>1 DEF q
    <2>6. CASE Token(r) = "E"
      <3>1. TakenBy(v) <= TakenBy(r)
        BY <1>1, <1>2, <2>4, <2>6, SMT
      <3> QED
        BY <1>3, <2>1, <2>6, <3>1 DEF q
    <2> QED
      BY <1>3, <2>5, <2>6
  <1>5. CASE ~(r.running # 1 \/ Token(r) # "+")
    <2>1. q = Returned(u, ret)
      BY <1>5, Zenon DEF TokenReturned
    <2>2. u \in Record /\ u.pc = r.pc /\ u.hand = r.hand /\ u.running = 0
      <3>1. 0 \in 0..MaxJobs
        BY <1>1, SMT
      <3> QED
        BY <3>1, ZenonT(60) DEF Record
    <2> HIDE DEF q, u
    <2>3. TakenBy(q) = TakenBy(u)
      BY <2>1, <2>2, ReturnedLeaves, LeavesTaken
    <2>4. TakenBy(u) = 0
      BY <1>1, <2>2, TakenNone
    <2>5. TakenBy(r) = 0
      BY <1>2, <1>5, SMT
    <2>6. TakenBy(q) = TakenBy(r) /\ TakenBy(q) <= TakenBy(r)
      BY <2>3, <2>4, <2>5
    <2> QED
      BY <2>6 DEF q
  <1> QED
    BY <1>4, <1>5

\* JobFinish() takes no token, and returns none unless it is the failure that stops the build.
LEMMA FinishedTaken ==
    ASSUME NEW r \in Record, NEW ok \in BOOLEAN, NEW x \in Finished(r, ok),
           r.pc \notin {None, "exited"}, r.hand = None, r.running > 0
    PROVE  /\ TakenBy(x) <= TakenBy(r)
           /\ x.aborting # "error" => TakenBy(x) = TakenBy(r)
  <1> DEFINE e == [r EXCEPT !.errors = @ \/ ~ok]
             ab == IF e.errors /\ ~opt.keepgoing THEN "error" ELSE e.aborting
             a == [e EXCEPT !.aborting = ab]
  <1>1. e \in Record /\ e.pc = r.pc /\ e.hand = r.hand /\ e.running = r.running
    BY ZenonT(60) DEF Record
  <1> HIDE DEF e
  <1>2. ab \in {None, "error", "wait"}
    BY <1>1, Zenon DEF Record
  <1> HIDE DEF ab
  <1>3. a \in Record /\ a.pc = e.pc /\ a.hand = e.hand /\ a.running = e.running
    BY <1>1, <1>2, ZenonT(60) DEF Record
  <1>4. PICK u \in IF ok /\ r.aborting # "error" THEN Updated(a) ELSE {a} :
               x = TokenReturned(u, "finish")
    BY Zenon DEF Finished, e, ab
  <1> HIDE DEF a
  <1>5. u \in Record /\ u.pc = r.pc /\ u.hand = r.hand /\ u.running = r.running
    BY <1>1, <1>3, <1>4, UpdatedFacts, Zenon
  <1>6. TakenBy(u) = TakenBy(r)
    BY <1>5, TakenSame
  <1>7. x.aborting = u.aborting
    BY <1>4, <1>5, TokenReturnedStopper
  <1> QED
    BY <1>4, <1>5, <1>6, <1>7, TokenReturnedTaken

\* Job_TokenWithdraw() takes one, but for the first job.
LEMMA WithdrawnTaken ==
    ASSUME NEW r \in Record
    PROVE  TakenBy(Withdrawn(r)) = r.running
  <1>1. /\ Withdrawn(r).running = r.running + 1
        /\ Withdrawn(r).hand = None /\ Withdrawn(r).pc = "examine"
    BY Zenon DEF Withdrawn, Record
  <1>2. r.running \in 0..MaxJobs /\ MaxJobs \in Nat
    BY JobTokensAssumption, Zenon DEF Record
  <1> DEFINE q == Withdrawn(r)
  <1> HIDE DEF q
  <1>3. TakenBy(q) = r.running
    BY <1>1, <1>2, SMT DEF TakenBy, None, q
  <1> QED
    BY <1>3 DEF q
-----------------------------------------------------------------------------
(* The tokens in the pipe, and those of all makes. *)

\* The tokens in the pipe can be counted.
LEMMA InPipeFinite ==
    ASSUME pipe \in Seq({"+", "E"})
    PROVE  IsFiniteSet(InPipe) /\ Cardinality(InPipe) \in Nat /\ Cardinality(InPipe) <= Len(pipe)
  <1>1. Len(pipe) \in Nat
    OBVIOUS
  <1>2. IsFiniteSet(1..Len(pipe)) /\ Cardinality(1..Len(pipe)) = Len(pipe)
    BY <1>1, FS_Interval, SMTT(60)
  <1>3. InPipe \subseteq 1..Len(pipe)
    BY DEF InPipe
  <1> QED
    BY <1>2, <1>3, SubsetSize

\* Writing a plus to the pipe adds one token, writing the stopper none.
LEMMA InPipeAppend ==
    ASSUME pipe \in Seq({"+", "E"}), NEW t, pipe' = Append(pipe, t)
    PROVE  Cardinality(InPipe') = Cardinality(InPipe) + (IF t = "+" THEN 1 ELSE 0)
  <1>1. Len(pipe) \in Nat /\ Len(pipe') = Len(pipe) + 1 /\ pipe'[Len(pipe) + 1] = t
    OBVIOUS
  <1>2. \A k \in 1..Len(pipe) : pipe'[k] = pipe[k]
    OBVIOUS
  <1>3. \A k : k \in 1..Len(pipe') <=> k \in 1..Len(pipe) \/ k = Len(pipe) + 1
    BY <1>1
  <1>4. Len(pipe) + 1 \notin 1..Len(pipe)
    BY <1>1
  <1>5. CASE t = "+"
    <2>1. InPipe' = InPipe \cup {Len(pipe) + 1}
      BY <1>1, <1>2, <1>3, <1>4, <1>5, Zenon DEF InPipe
    <2>2. Len(pipe) + 1 \notin InPipe
      BY <1>4 DEF InPipe
    <2> QED
      BY <1>5, <2>1, <2>2, InPipeFinite, FS_AddElement
  <1>6. CASE t # "+"
    <2>1. InPipe' = InPipe
      BY <1>1, <1>2, <1>3, <1>4, <1>6, Zenon DEF InPipe
    <2> QED
      BY <1>6, <2>1, InPipeFinite
  <1> QED
    BY <1>5, <1>6

\* Reading a plus from the pipe takes one token out, reading the stopper none.
LEMMA InPipeTail ==
    ASSUME pipe \in Seq({"+", "E"}), pipe # <<>>, pipe' = Tail(pipe)
    PROVE  /\ Cardinality(InPipe) = Cardinality(InPipe') + (IF Head(pipe) = "+" THEN 1 ELSE 0)
           /\ Cardinality(InPipe') \in Nat
  <1> DEFINE B == InPipe \ {1}
             f == [k \in InPipe' |-> k + 1]
  <1>1. /\ Len(pipe) \in Nat \ {0} /\ Len(pipe') = Len(pipe) - 1 /\ Head(pipe) = pipe[1]
        /\ \A k \in 1..Len(pipe') : pipe'[k] = pipe[k + 1]
    OBVIOUS
  <1>2. InPipe' \subseteq 1..Len(pipe') /\ Len(pipe') \in Nat
    BY <1>1 DEF InPipe
  <1>3. IsFiniteSet(InPipe') /\ Cardinality(InPipe') \in Nat
    <2>1. IsFiniteSet(1..Len(pipe'))
      BY <1>2, FS_Interval
    <2> QED
      BY <1>2, <2>1, SubsetSize
  <1>4. f \in [InPipe' -> B]
    BY <1>1 DEF InPipe
  <1>5. ASSUME NEW x \in InPipe', NEW y \in InPipe', f[x] = f[y] PROVE x = y
    BY <1>1, <1>5 DEF InPipe
  <1>6. ASSUME NEW t \in B PROVE \E x \in InPipe' : f[x] = t
    <2>1. t \in 1..Len(pipe) /\ t # 1 /\ pipe[t] = "+"
      BY DEF InPipe
    <2>2. t - 1 \in 1..Len(pipe') /\ pipe'[t - 1] = "+"
      BY <1>1, <2>1
    <2>3. t - 1 \in InPipe' /\ f[t - 1] = t
      BY <2>1, <2>2 DEF InPipe
    <2> QED
      BY <2>3
  <1> HIDE DEF f, B
  <1>7. Cardinality(B) = Cardinality(InPipe')
    BY <1>3, <1>4, <1>5, <1>6, SameSize
  <1>8. CASE Head(pipe) = "+"
    <2>1. 1 \in InPipe
      BY <1>1, <1>8 DEF InPipe
    <2>2. Cardinality(B) = Cardinality(InPipe) - 1 /\ Cardinality(InPipe) \in Nat
      BY <2>1, InPipeFinite, FS_RemoveElement DEF B
    <2> QED
      BY <1>3, <1>7, <1>8, <2>2
  <1>9. CASE Head(pipe) # "+"
    <2>1. B = InPipe
      BY <1>1, <1>9 DEF InPipe, B
    <2> QED
      BY <1>3, <1>7, <1>9, <2>1
  <1> QED
    BY <1>3, <1>8, <1>9

\* The tokens of makes in states g, those that m has and those of the others.
HeldIn(g) == {t \in Makes \X (1..MaxJobs) : t[2] <= TakenBy(g[t[1]])}
OfMake(g, m) == {t \in HeldIn(g) : t[1] = m}
OfOthers(g, m) == {t \in HeldIn(g) : t[1] # m}

\* The tokens held by the makes can be counted.
LEMMA HeldFinite ==
    ASSUME NEW g
    PROVE  /\ IsFiniteSet(Makes \X (1..MaxJobs))
           /\ IsFiniteSet(HeldIn(g)) /\ Cardinality(HeldIn(g)) \in Nat
  <1>1. IsFiniteSet(Makes)
    BY JobTokensAssumption, FS_Singleton, FS_Union DEF Makes
  <1>2. IsFiniteSet(1..MaxJobs)
    BY JobTokensAssumption, FS_Interval
  <1>3. IsFiniteSet(Makes \X (1..MaxJobs))
    BY <1>1, <1>2, FS_Product
  <1>4. HeldIn(g) \subseteq Makes \X (1..MaxJobs)
    BY DEF HeldIn
  <1> QED
    BY <1>3, <1>4, SubsetSize

\* The tokens held are those of one make and those of the others.
LEMMA HeldSplit ==
    ASSUME NEW g \in [Makes -> Record], NEW m \in Makes
    PROVE  /\ Cardinality(HeldIn(g)) = Cardinality(OfOthers(g, m)) + TakenBy(g[m])
           /\ Cardinality(OfOthers(g, m)) \in Nat
  <1> DEFINE n == TakenBy(g[m])
             f == [k \in 1..n |-> <<m, k>>]
  <1>1. n \in Nat /\ n <= MaxJobs /\ MaxJobs \in Nat
    BY TakenType, JobTokensAssumption
  <1>2. IsFiniteSet(1..n) /\ Cardinality(1..n) = n
    BY <1>1, FS_Interval
  <1>3. OfMake(g, m) = {<<m, k>> : k \in 1..n}
    <2>1. ASSUME NEW t \in OfMake(g, m) PROVE t \in {<<m, k>> : k \in 1..n}
      <3>1. t \in Makes \X (1..MaxJobs) /\ t[1] = m /\ t[2] <= n
        BY DEF OfMake, HeldIn
      <3>2. t = <<m, t[2]>> /\ t[2] \in 1..n
        BY <1>1, <3>1
      <3> QED
        BY <3>2
    <2>2. ASSUME NEW k \in 1..n PROVE <<m, k>> \in OfMake(g, m)
      <3>1. k \in 1..MaxJobs /\ k <= n
        BY <1>1
      <3> QED
        BY <3>1 DEF OfMake, HeldIn
    <2> QED
      BY <2>1, <2>2
  <1> HIDE DEF n
  <1>4. f \in [1..n -> OfMake(g, m)]
    BY <1>3
  <1>5. IsFiniteSet(OfMake(g, m)) /\ Cardinality(OfMake(g, m)) = n
    <2>1. \A x, y \in 1..n : f[x] = f[y] => x = y
      OBVIOUS
    <2>2. \A t \in OfMake(g, m) : \E x \in 1..n : f[x] = t
      BY <1>3
    <2> HIDE DEF f
    <2> QED
      BY <1>2, <1>4, <2>1, <2>2, SameSize
  <1>6. HeldIn(g) = OfMake(g, m) \cup OfOthers(g, m) /\ OfMake(g, m) \cap OfOthers(g, m) = {}
    BY DEF OfMake, OfOthers
  <1>7. IsFiniteSet(OfOthers(g, m)) /\ Cardinality(OfOthers(g, m)) \in Nat
    BY HeldFinite, SubsetSize DEF OfOthers
  <1>8. Cardinality(HeldIn(g)) = Cardinality(OfMake(g, m)) + Cardinality(OfOthers(g, m))
    BY <1>5, <1>6, <1>7, DisjointSize
  <1> QED
    BY <1>1, <1>5, <1>7, <1>8 DEF n

\* A step of m alone changes the tokens of m alone.
LEMMA HeldStep ==
    ASSUME mk \in [Makes -> Record], mk' \in [Makes -> Record], NEW m \in Makes,
           \A x \in Makes \ {m} : TakenBy(mk'[x]) = TakenBy(mk[x])
    PROVE  /\ Cardinality(Held') + TakenBy(mk[m]) = Cardinality(Held) + TakenBy(mk'[m])
           /\ Cardinality(Held') \in Nat /\ Cardinality(Held) \in Nat
           /\ TakenBy(mk[m]) \in Nat /\ TakenBy(mk'[m]) \in Nat
  <1>0. Held = HeldIn(mk) /\ Held' = HeldIn(mk')
    BY DEF Held, HeldIn
  <1>1. OfOthers(mk', m) = OfOthers(mk, m)
    BY DEF OfOthers, HeldIn
  <1>2. /\ Cardinality(HeldIn(mk)) = Cardinality(OfOthers(mk, m)) + TakenBy(mk[m])
        /\ Cardinality(OfOthers(mk, m)) \in Nat
    BY HeldSplit
  <1>3. Cardinality(HeldIn(mk')) = Cardinality(OfOthers(mk', m)) + TakenBy(mk'[m])
    BY HeldSplit
  <1>4. TakenBy(mk[m]) \in Nat /\ TakenBy(mk'[m]) \in Nat
    BY TakenType
  <1>5. Cardinality(HeldIn(mk)) \in Nat /\ Cardinality(HeldIn(mk')) \in Nat
    BY HeldFinite
  <1> QED
    BY <1>0, <1>1, <1>2, <1>3, <1>4, <1>5

\* If no make gains a token there are no more than before.
LEMMA HeldLess ==
    ASSUME mk \in [Makes -> Record], mk' \in [Makes -> Record],
           \A x \in Makes : TakenBy(mk'[x]) <= TakenBy(mk[x])
    PROVE  /\ Cardinality(Held') <= Cardinality(Held)
           /\ Cardinality(Held') \in Nat /\ Cardinality(Held) \in Nat
  <1>1. ASSUME NEW t \in HeldIn(mk') PROVE t \in HeldIn(mk)
    <2>1. t[1] \in Makes /\ t[2] \in 1..MaxJobs /\ t[2] <= TakenBy(mk'[t[1]])
      BY DEF HeldIn
    <2>2. /\ TakenBy(mk'[t[1]]) <= TakenBy(mk[t[1]])
          /\ TakenBy(mk[t[1]]) \in Nat /\ TakenBy(mk'[t[1]]) \in Nat /\ MaxJobs \in Nat
      BY <2>1, TakenType, JobTokensAssumption
    <2>3. t[2] <= TakenBy(mk[t[1]])
      BY <2>1, <2>2, SMT
    <2> QED
      BY <2>3 DEF HeldIn
  <1>2. Held = HeldIn(mk) /\ Held' = HeldIn(mk')
    BY DEF Held, HeldIn
  <1> QED
    BY <1>1, <1>2, HeldFinite, SubsetSize
-----------------------------------------------------------------------------
(* One step of one make. *)

\* Only Job_ServerStart() makes new tokens, and only a make without a job puts
\* back the one that it did not want.
Placed(q) == q.pc # "server" /\ (q.pc = "putback" => q.running = 0)

\* A make that leaves neither starts the server nor puts back a token.
LEMMA LeavesPlaced ==
    ASSUME NEW r, NEW q, Leaves(r, q)
    PROVE  Placed(q)
  BY SMT DEF Leaves, Placed

\* Nor does one that returns a token, unless it is without a job.
LEMMA TokenReturnedPlaced ==
    ASSUME NEW r \in Record, NEW ret \in {"loop", "finish", "start"}
    PROVE  Placed(TokenReturned(r, ret))
  <1> DEFINE q == TokenReturned(r, ret)
             l == IF Token(r) = "+" THEN "addwrite" ELSE "addflush"
             v == [r EXCEPT !.running = @ - 1, !.hand = Token(r), !.ret = ret, !.pc = l]
             u == [r EXCEPT !.running = 0]
  <1>1. CASE r.running # 1 \/ Token(r) # "+"
    <2>1. q = v
      BY <1>1, Zenon DEF TokenReturned
    <2>2. l \in {"addwrite", "addflush"}
      OBVIOUS
    <2> HIDE DEF q, l
    <2>3. v.pc = l
      BY Zenon DEF Record
    <2> HIDE DEF v
    <2>4. Placed(q)
      BY <2>1, <2>2, <2>3, SMT DEF Placed
    <2> QED
      BY <2>4 DEF q
  <1>2. CASE ~(r.running # 1 \/ Token(r) # "+")
    <2>1. q = Returned(u, ret)
      BY <1>2, Zenon DEF TokenReturned
    <2>2. u \in Record
      <3>1. 0 \in 0..MaxJobs
        BY JobTokensAssumption, SMT
      <3> QED
        BY <3>1, Zenon DEF Record
    <2> HIDE DEF q, u
    <2>3. Placed(q)
      BY <2>1, <2>2, ReturnedLeaves, LeavesPlaced
    <2> QED
      BY <2>3 DEF q
  <1> QED
    BY <1>1, <1>2

\* Nor does one whose job has finished.
LEMMA FinishedPlaced ==
    ASSUME NEW r \in Record, NEW ok \in BOOLEAN, NEW x \in Finished(r, ok)
    PROVE  Placed(x)
  <1> DEFINE e == [r EXCEPT !.errors = @ \/ ~ok]
             ab == IF e.errors /\ ~opt.keepgoing THEN "error" ELSE e.aborting
             a == [e EXCEPT !.aborting = ab]
  <1>1. e \in Record
    BY Zenon DEF Record
  <1> HIDE DEF e
  <1>2. ab \in {None, "error", "wait"}
    BY <1>1, Zenon DEF Record
  <1> HIDE DEF ab
  <1>3. a \in Record
    BY <1>1, <1>2, Zenon DEF Record
  <1>4. PICK u \in IF ok /\ r.aborting # "error" THEN Updated(a) ELSE {a} :
               x = TokenReturned(u, "finish")
    BY Zenon DEF Finished, e, ab
  <1> HIDE DEF a
  <1>5. u \in Record
    BY <1>3, <1>4, UpdatedFacts, Zenon
  <1> QED
    BY <1>4, <1>5, TokenReturnedPlaced

\* A step in which m and the pipe keep the stopper out.
Calm(m) ==
    /\ mk[m].aborting = None /\ mk'[m].aborting = None
    /\ mk[m].hand # "E" /\ ~HasStopper

(* No step of a make but those of Job_ServerStart() adds a token, and none *)
(* loses one unless it aborts or has the stopper to do with.               *)
LEMMA OwnTokens ==
    ASSUME Typed, MakeInv, NEW m \in Makes, Own(m), ~ServerStart(m),
           mk[m].pc = "putback" => mk[m].running = 0
    PROVE  /\ Cardinality(InPipe') + TakenBy(mk'[m]) <= Cardinality(InPipe) + TakenBy(mk[m])
           /\ Calm(m) =>
                Cardinality(InPipe') + TakenBy(mk'[m]) = Cardinality(InPipe) + TakenBy(mk[m])
           /\ Cardinality(InPipe') \in Nat
           /\ Placed(mk'[m])
  <1> DEFINE r == mk[m]
             n == Cardinality(InPipe)
             np == Cardinality(InPipe')
             t == TakenBy(mk[m])
             tp == TakenBy(mk'[m])
             Counted == np \in Nat /\ np + tp <= n + t /\ (Calm(m) => np + tp = n + t)
  <1> SUFFICES Counted /\ Placed(mk'[m])
    OBVIOUS
  <1>r. r \in Record /\ HandKnown(r) /\ HaveKnown(r)
    BY DEF Typed, MakeInv, Local
  <1>p. pipe \in Seq({"+", "E"}) /\ n \in Nat
    BY InPipeFinite DEF Typed
  <1>n. /\ t \in Nat /\ tp \in Nat /\ r.running \in 0..MaxJobs /\ MaxJobs \in Nat
        /\ r.todo \in Nat
    <2>1. mk'[m] \in Record
      BY OwnOrderly DEF Orderly
    <2> QED
      BY <1>r, <2>1, TakenType, JobTokensAssumption, Zenon DEF Record
  <1>b. ASSUME NEW q, mk' = [mk EXCEPT ![m] = q] PROVE mk'[m] = q
    BY <1>b DEF Typed
  <1> HIDE DEF n, np, t, tp
  <1>same. ASSUME UNCHANGED pipe, tp = t PROVE Counted
    <2>1. np = n
      BY <1>same DEF n, np, InPipe
    <2> QED
      BY <1>same, <1>n, <1>p, <2>1, SMT
  <1>less. ASSUME UNCHANGED pipe, tp <= t, mk'[m].aborting # "error" => tp = t PROVE Counted
    <2>1. np = n
      BY <1>less DEF n, np, InPipe
    <2>2. Calm(m) => tp = t
      BY <1>less, SMT DEF Calm, None
    <2> QED
      BY <1>less, <1>n, <1>p, <2>1, <2>2
  <1>look. ASSUME r.pc = "examine"
           PROVE  /\ Dequeued(m) \in Record /\ Dequeued(m).pc = "start"
                  /\ Dequeued(m).running = r.running /\ Dequeued(m).hand = r.hand
                  /\ Dequeued(m).aborting = r.aborting
                  /\ r.hand = None
    <2>1. r.todo > 0 /\ r.hand = None
      BY <1>look, <1>r, SMT DEF HaveKnown, HandKnown
    <2>2. r.todo - 1 \in Nat
      BY <1>n, <2>1, SMT
    <2> QED
      BY <1>r, <2>1, <2>2, ZenonT(60) DEF Record, Dequeued
  <1>busy. ASSUME r.pc \in {"examine", "start"}, r.have PROVE r.running > 0
    <2> DEFINE c == Cardinality(Subs(m))
    <2>1. r.running = r.jobs + r.good + r.bad + 1 + c
      <3>1. Live(m)
        BY <1>busy DEF Live, None
      <3> QED
        BY <1>busy, <3>1, Zenon DEF MakeInv, Balanced
    <2>2. c \in Nat /\ r.jobs \in Nat /\ r.good \in Nat /\ r.bad \in Nat
      BY <1>r, SubsFinite, Zenon DEF Record
    <2> HIDE DEF c
    <2> QED
      BY <2>1, <2>2, SMT
  <1> HIDE DEF Counted
  <1>2. CASE AddFlush(m)
    <2>1. r.pc = "addflush" /\ r.hand = "E"
      BY <1>2, <1>r, SMT DEF AddFlush, HandKnown
    <2>2. mk'[m] = r \/ mk'[m] = [r EXCEPT !.pc = "addwrite"]
      BY <1>2, <1>b DEF AddFlush, Becomes
    <2>3. /\ mk'[m] \in Record /\ mk'[m].running = r.running /\ mk'[m].hand = r.hand
          /\ mk'[m].pc \in {"addflush", "addwrite"}
      BY <1>r, <2>1, <2>2, Zenon DEF Record
    <2>4. tp = t
      <3>1. mk'[m].pc \notin {None, "exited"} /\ r.pc \notin {None, "exited"}
        BY <2>1, <2>3, SMT DEF None
      <3> QED
        BY <1>r, <2>3, <3>1, TakenSame DEF t, tp
    <2>5. np \in Nat /\ np <= n
      <3>1. CASE UNCHANGED pipe
        BY <1>p, <3>1 DEF n, np, InPipe
      <3>2. CASE pipe # <<>> /\ pipe' = Tail(pipe)
        BY <1>p, <3>2, InPipeTail DEF n, np
      <3> QED
        BY <1>2, <3>1, <3>2 DEF AddFlush
    <2>6. ~Calm(m)
      BY <2>1 DEF Calm
    <2>7. Counted
      BY <1>n, <1>p, <2>4, <2>5, <2>6 DEF Counted
    <2> QED
      BY <2>3, <2>7, SMT DEF Placed
  <1>3. CASE AddWrite(m)
    <2> DEFINE u == [r EXCEPT !.hand = None, !.ret = None]
    <2>1. u \in Record /\ u.pc = r.pc /\ u.running = r.running /\ u.hand = None
      BY <1>r, Zenon DEF Record
    <2>2. r.ret \in {"loop", "finish", "start"} /\ r.hand \in {"+", "E"}
      <3>1. r.ret # None /\ r.hand # None
        BY <1>3, <1>r, SMT DEF AddWrite, HandKnown
      <3> QED
        BY <1>r, <3>1, Zenon DEF Record
    <2>3. mk'[m] = Returned(u, r.ret)
      BY <1>3, <1>b DEF AddWrite, Becomes
    <2> HIDE DEF u
    <2>4. Leaves(u, mk'[m])
      BY <2>1, <2>2, <2>3, ReturnedLeaves
    <2>5. r.pc = "addwrite" /\ r.pc \notin {None, "exited"}
      BY <1>3, SMT DEF AddWrite, None
    <2>6. tp = TakenBy(u)
      BY <2>1, <2>4, <2>5, LeavesTaken DEF tp
    <2>7. t = TakenBy(u) + (IF r.hand = "+" THEN 1 ELSE 0)
      <3> DEFINE h == IF r.running > 1 THEN r.running - 1 ELSE 0
      <3>1. t = h + (IF r.hand = "+" THEN 1 ELSE 0)
        BY <2>5, Zenon DEF TakenBy, t
      <3>2. TakenBy(u) = h + 0
        BY <2>1, <2>5, Zenon DEF TakenBy, None
      <3>3. h \in Nat
        BY <1>n, SMT
      <3> HIDE DEF h
      <3> QED
        BY <3>1, <3>2, <3>3, SMT
    <2>8. np = n + (IF r.hand = "+" THEN 1 ELSE 0)
      <3>1. pipe' = Append(pipe, r.hand)
        BY <1>3 DEF AddWrite
      <3> QED
        BY <1>p, <3>1, InPipeAppend DEF n, np
    <2>9. Counted
      BY <1>n, <1>p, <2>6, <2>7, <2>8, SMT DEF Counted
    <2> QED
      BY <2>4, <2>9, LeavesPlaced
  <1>4. CASE StartJobs(m)
    <2> DEFINE r0 == [r EXCEPT !.have = FALSE]
               w == [r EXCEPT !.want = FALSE]
               e == [r EXCEPT !.pc = "examine"]
               d == [w EXCEPT !.pc = "read"]
    <2>1. UNCHANGED pipe /\ r.pc = "start" /\ r.pc \notin {None, "exited"} /\ r.hand = None
      BY <1>4, <1>r, SMT DEF StartJobs, HandKnown, None
    <2>2. \/ r.have /\ mk'[m] = TokenReturned(r0, "loop")
          \/ mk'[m] \in {Looped(r), e, Looped(w), d}
      <3>1. mk' = [mk EXCEPT ![m] =
                      CASE r.todo = 0 /\ r.have  -> TokenReturned(r0, "loop")
                        [] r.todo = 0 /\ ~r.have -> Looped(r)
                        [] r.todo # 0 /\ r.have  -> e
                        [] r.todo # 0 /\ ~r.have ->
                             IF r.aborting # None \/ r.running >= MaxJobs THEN Looped(w) ELSE d]
        BY <1>4, Zenon DEF StartJobs, Becomes
      <3> HIDE DEF r0, w, e, d
      <3>2. mk'[m] = CASE r.todo = 0 /\ r.have  -> TokenReturned(r0, "loop")
                       [] r.todo = 0 /\ ~r.have -> Looped(r)
                       [] r.todo # 0 /\ r.have  -> e
                       [] r.todo # 0 /\ ~r.have ->
                            IF r.aborting # None \/ r.running >= MaxJobs THEN Looped(w) ELSE d
        BY <3>1, <1>b
      <3>3. r.have \in BOOLEAN
        BY <1>r, Zenon DEF Record
      <3> QED
        BY <3>2, <3>3, Zenon
    <2>3. /\ r0 \in Record /\ r0.pc = r.pc /\ r0.running = r.running /\ r0.hand = r.hand
          /\ r0.aborting = r.aborting
          /\ w \in Record /\ w.pc = r.pc /\ w.running = r.running /\ w.hand = r.hand
          /\ e \in Record /\ e.pc = "examine" /\ e.running = r.running /\ e.hand = r.hand
      BY <1>r, ZenonT(60) DEF Record
    <2>4. d \in Record /\ d.pc = "read" /\ d.running = w.running /\ d.hand = w.hand
      BY <2>3, ZenonT(60) DEF Record
    <2> HIDE DEF r0, w, e, d
    <2>5. CASE r.have /\ mk'[m] = TokenReturned(r0, "loop")
      <3>1. r.running > 0
        BY <1>busy, <2>1, <2>5
      <3>2. TakenBy(r0) = t
        BY <1>r, <2>3, TakenSame DEF t
      <3>3. /\ tp <= t
            /\ r0.aborting # "error" => tp = t
        BY <2>1, <2>3, <2>5, <3>1, <3>2, TokenReturnedTaken DEF tp
      <3>4. mk'[m].aborting = r.aborting
        BY <2>3, <2>5, TokenReturnedStopper
      <3>5. Counted
        BY <1>less, <2>1, <2>3, <3>3, <3>4
      <3> QED
        BY <2>3, <2>5, <3>5, TokenReturnedPlaced
    <2>6. CASE mk'[m] \in {Looped(r), Looped(w)}
      <3>1. TakenBy(w) = t
        BY <1>r, <2>3, TakenSame DEF t
      <3>2. tp = t
        BY <1>r, <2>1, <2>3, <2>6, <3>1, LoopedTaken DEF t, tp
      <3>3. Placed(mk'[m])
        BY <1>r, <2>3, <2>6, LoopedLeaves, LeavesPlaced
      <3> QED
        BY <1>same, <2>1, <3>2, <3>3
    <2>7. CASE mk'[m] \in {e, d}
      <3>1. /\ mk'[m] \in Record /\ mk'[m].pc \in {"examine", "read"}
            /\ mk'[m].running = r.running /\ mk'[m].hand = r.hand
        BY <2>3, <2>4, <2>7, Zenon
      <3>2. mk'[m].pc \notin {None, "exited"} /\ mk'[m].pc \notin {"server", "putback"}
        BY <3>1, SMT DEF None
      <3>3. tp = t
        BY <1>r, <2>1, <3>1, <3>2, TakenSame DEF t, tp
      <3> QED
        BY <1>same, <2>1, <3>2, <3>3 DEF Placed
    <2> QED
      BY <2>2, <2>5, <2>6, <2>7
  <1>w. Placed(Withdrawn(r))
    <2>1. Withdrawn(r).pc = "examine"
      BY <1>r, Zenon DEF Record, Withdrawn
    <2> QED
      BY <2>1, SMT DEF Placed
  <1>5. CASE WithdrawEmpty(m)
    <2> DEFINE w == [r EXCEPT !.want = TRUE]
    <2>1. UNCHANGED pipe /\ r.pc = "read" /\ r.pc \notin {None, "exited"} /\ r.hand = None
      BY <1>5, <1>r, SMT DEF WithdrawEmpty, HandKnown, None
    <2>2. w \in Record /\ w.pc = r.pc /\ w.running = r.running /\ w.hand = r.hand
      BY <1>r, Zenon DEF Record
    <2>3. mk'[m] = Looped(w) \/ (r.running = 0 /\ mk'[m] = Withdrawn(r))
      BY <1>5, <1>b DEF WithdrawEmpty, Becomes
    <2> HIDE DEF w
    <2>4. CASE mk'[m] = Looped(w)
      <3>1. tp = t
        BY <1>r, <2>1, <2>2, <2>4, TakenSame, LoopedTaken DEF t, tp
      <3>2. Placed(mk'[m])
        BY <2>2, <2>4, LoopedLeaves, LeavesPlaced
      <3> QED
        BY <1>same, <2>1, <3>1, <3>2
    <2>5. CASE r.running = 0 /\ mk'[m] = Withdrawn(r)
      <3>1. tp = 0
        BY <1>r, <2>5, WithdrawnTaken DEF tp
      <3>2. t = 0
        <4>1. r.hand # "+"
          BY <2>1, SMT DEF None
        <4> QED
          BY <1>r, <2>5, <4>1, TakenNone DEF t
      <3> QED
        BY <1>same, <1>w, <2>1, <2>5, <3>1, <3>2
    <2> QED
      BY <2>3, <2>4, <2>5
  <1>6. CASE WithdrawToken(m)
    <2> DEFINE q == [r EXCEPT !.hand = "+", !.pc = "putback"]
    <2>1. r.pc = "read" /\ r.pc \notin {None, "exited"} /\ r.hand = None /\ r.hand # "+"
      BY <1>6, <1>r, SMT DEF WithdrawToken, HandKnown, None
    <2>2. q \in Record /\ q.pc = "putback" /\ q.running = r.running /\ q.hand = "+"
      BY <1>r, Zenon DEF Record
    <2>3. (r.running = 0 /\ mk'[m] = q) \/ (r.running # 0 /\ mk'[m] = Withdrawn(r))
      BY <1>6, <1>b DEF WithdrawToken, Becomes
    <2> HIDE DEF q
    <2>4. np \in Nat /\ n = np + 1
      BY <1>6, <1>p, InPipeTail DEF WithdrawToken, n, np
    <2>5. t = IF r.running > 1 THEN r.running - 1 ELSE 0
      BY <1>n, <2>1, SMT DEF TakenBy, t
    <2>6. CASE r.running = 0 /\ mk'[m] = q
      <3>1. q.pc \notin {None, "exited"}
        BY <2>2, SMT DEF None
      <3>2. tp = 1
        BY <2>2, <2>6, <3>1, SMT DEF TakenBy, tp
      <3>3. Counted
        BY <1>n, <1>p, <2>4, <2>5, <2>6, <3>2 DEF Counted
      <3> QED
        BY <2>2, <2>6, <3>3 DEF Placed
    <2>7. CASE r.running # 0 /\ mk'[m] = Withdrawn(r)
      <3>1. tp = r.running
        BY <1>r, <2>7, WithdrawnTaken DEF tp
      <3>2. tp = t + 1
        BY <1>n, <2>5, <2>7, <3>1, SMT
      <3>3. Counted
        BY <1>n, <1>p, <2>4, <3>2 DEF Counted
      <3> QED
        BY <1>w, <2>7, <3>3
    <2> QED
      BY <2>3, <2>6, <2>7
  <1>7. CASE PutBack(m)
    <2>1. r.pc = "putback" /\ r.pc \notin {None, "exited"} /\ r.hand = "+" /\ r.running = 0
      BY <1>7, <1>r, SMT DEF PutBack, HandKnown, None
    <2>2. mk'[m] = Withdrawn(r)
      BY <1>7, <1>b DEF PutBack, Becomes
    <2>3. tp = 0
      BY <1>r, <2>1, <2>2, WithdrawnTaken DEF tp
    <2>4. t = 1
      BY <2>1, SMT DEF TakenBy, t
    <2>5. np = n + 1
      BY <1>7, <1>p, <2>1, InPipeAppend DEF PutBack, n, np
    <2>6. Counted
      BY <1>n, <1>p, <2>3, <2>4, <2>5 DEF Counted
    <2> QED
      BY <1>w, <2>2, <2>6
  <1>8. CASE WithdrawStopper(m)
    <2> DEFINE q == [r EXCEPT !.hand = Head(pipe), !.pc = "stopflush"]
    <2>1. r.pc = "read" /\ r.pc \notin {None, "exited"} /\ r.hand # "+"
      BY <1>8, <1>r, SMT DEF WithdrawStopper, HandKnown, None
    <2>2. Head(pipe) = "E" /\ pipe # <<>> /\ pipe' = Tail(pipe)
      BY <1>8, <1>p DEF WithdrawStopper
    <2>3. q \in Record /\ q.pc = "stopflush" /\ q.running = r.running /\ q.hand = "E"
      BY <1>r, <2>2, Zenon DEF Record
    <2>4. mk'[m] = q
      BY <1>8, <1>b DEF WithdrawStopper, Becomes
    <2> HIDE DEF q
    <2>5. q.pc \notin {None, "exited"} /\ Placed(q)
      BY <2>3, SMT DEF None, Placed
    <2>6. tp = t
      BY <1>r, <2>1, <2>3, <2>4, <2>5, TakenSame DEF t, tp
    <2>7. np \in Nat /\ n = np + 0
      BY <1>p, <2>2, InPipeTail DEF n, np
    <2>8. Counted
      BY <1>n, <1>p, <2>6, <2>7 DEF Counted
    <2> QED
      BY <2>4, <2>5, <2>8
  <1>9. CASE StopFlush(m)
    <2>1. r.pc = "stopflush" /\ r.hand = "E"
      BY <1>9, <1>r, SMT DEF StopFlush, HandKnown
    <2>2. mk'[m] = r \/ mk'[m] = [r EXCEPT !.pc = "stopput"]
      BY <1>9, <1>b DEF StopFlush, Becomes
    <2>3. /\ mk'[m] \in Record /\ mk'[m].running = r.running /\ mk'[m].hand = r.hand
          /\ mk'[m].pc \in {"stopflush", "stopput"}
      BY <1>r, <2>1, <2>2, Zenon DEF Record
    <2>4. tp = t
      <3>1. mk'[m].pc \notin {None, "exited"} /\ r.pc \notin {None, "exited"}
        BY <2>1, <2>3, SMT DEF None
      <3> QED
        BY <1>r, <2>3, <3>1, TakenSame DEF t, tp
    <2>5. np \in Nat /\ np <= n
      <3>1. CASE UNCHANGED pipe
        BY <1>p, <3>1 DEF n, np, InPipe
      <3>2. CASE pipe # <<>> /\ pipe' = Tail(pipe)
        BY <1>p, <3>2, InPipeTail DEF n, np
      <3> QED
        BY <1>9, <3>1, <3>2 DEF StopFlush
    <2>6. ~Calm(m)
      BY <2>1 DEF Calm
    <2>7. Counted
      BY <1>n, <1>p, <2>4, <2>5, <2>6 DEF Counted
    <2> QED
      BY <2>3, <2>7, SMT DEF Placed
  <1>10. CASE StopPut(m)
    <2> DEFINE w == [r EXCEPT !.hand = None, !.fatal = TRUE, !.aborting = "wait"]
    <2>1. r.pc = "stopput" /\ r.pc \notin {None, "exited"} /\ r.hand = "E"
      BY <1>10, <1>r, SMT DEF StopPut, HandKnown, None
    <2>2. w \in Record /\ w.pc = r.pc /\ w.running = r.running /\ w.hand = None
      BY <1>r, Zenon DEF Record
    <2>3. mk'[m] = Exited(r, "bad") \/ mk'[m] = Looped(w)
      BY <1>10, <1>b DEF StopPut, Becomes
    <2> HIDE DEF w
    <2>4. np = n
      <3>1. pipe' = Append(pipe, "E")
        BY <1>10, <2>1 DEF StopPut
      <3>2. np = n + 0
        BY <1>p, <3>1, InPipeAppend DEF n, np
      <3> QED
        BY <1>p, <3>2
    <2>5. ~Calm(m)
      BY <2>1 DEF Calm
    <2>6. CASE mk'[m] = Exited(r, "bad")
      <3>1. Exited(r, "bad").pc = "exited"
        BY <1>r, Zenon DEF Exited, Record
      <3>2. tp = 0 /\ Placed(mk'[m])
        BY <2>6, <3>1, SMT DEF tp, TakenBy, Placed
      <3>3. Counted
        BY <1>n, <1>p, <2>4, <2>5, <3>2, SMT DEF Counted
      <3> QED
        BY <3>2, <3>3
    <2>7. CASE mk'[m] = Looped(w)
      <3>1. TakenBy(w) = t
        <4>1. w.hand # "+" /\ r.hand # "+"
          BY <2>1, <2>2, SMT DEF None
        <4> QED
          BY <1>r, <2>2, <4>1, TakenSame DEF t
      <3>2. tp = t
        BY <2>1, <2>2, <2>7, <3>1, LoopedTaken DEF tp
      <3>3. Placed(mk'[m])
        BY <2>2, <2>7, LoopedLeaves, LeavesPlaced
      <3>4. Counted
        BY <1>n, <1>p, <2>4, <2>5, <3>2, SMT DEF Counted
      <3> QED
        BY <3>3, <3>4
    <2> QED
      BY <2>3, <2>6, <2>7
  <1>11. CASE UpToDate(m) \/ Defer(m) \/ StartShell(m)
    <2>1. UNCHANGED pipe /\ r.pc = "examine" /\ r.pc \notin {None, "exited"}
      BY <1>11, SMT DEF UpToDate, Defer, StartShell, None
    <2>2. \/ \E u \in Updated(Dequeued(m)) : mk'[m] = u
          \/ mk'[m] = [Dequeued(m) EXCEPT !.later = @ + 1]
          \/ mk'[m] = [Dequeued(m) EXCEPT !.jobs = @ + 1, !.have = FALSE]
      BY <1>11, <1>b, Zenon DEF UpToDate, Defer, StartShell, Becomes
    <2>3. /\ mk'[m].pc = "start" /\ mk'[m].running = r.running /\ mk'[m].hand = r.hand
      <3>1. CASE \E u \in Updated(Dequeued(m)) : mk'[m] = u
        BY <1>look, <2>1, <3>1, UpdatedFacts, ZenonT(60)
      <3>2. CASE \/ mk'[m] = [Dequeued(m) EXCEPT !.later = @ + 1]
                 \/ mk'[m] = [Dequeued(m) EXCEPT !.jobs = @ + 1, !.have = FALSE]
        BY <1>look, <2>1, <3>2, ZenonT(60) DEF Record
      <3> QED
        BY <2>2, <3>1, <3>2
    <2>4. mk'[m] \in Record
      BY OwnOrderly DEF Orderly
    <2>5. mk'[m].pc \notin {None, "exited"} /\ Placed(mk'[m])
      BY <2>3, SMT DEF None, Placed
    <2>6. tp = t
      BY <1>r, <2>1, <2>3, <2>4, <2>5, TakenSame DEF t, tp
    <2> QED
      BY <1>same, <2>1, <2>5, <2>6
  <1>12. CASE StartNothing(m)
    <2>1. UNCHANGED pipe /\ r.pc = "examine" /\ r.pc \notin {None, "exited"} /\ r.have
      BY <1>12, <1>r, SMT DEF StartNothing, HaveKnown, None
    <2>2. PICK u \in IF r.aborting = None THEN Updated(Dequeued(m)) ELSE {Dequeued(m)} :
                 mk' = [mk EXCEPT ![m] = TokenReturned([u EXCEPT !.have = FALSE], "start")]
      BY <1>12, Zenon DEF StartNothing, Becomes
    <2>3. /\ u \in Record /\ u.pc = "start" /\ u.running = r.running /\ u.hand = r.hand
          /\ u.aborting = r.aborting
      BY <1>look, <2>1, <2>2, UpdatedFacts, Zenon
    <2> DEFINE v == [u EXCEPT !.have = FALSE]
    <2>4. /\ v \in Record /\ v.pc = "start" /\ v.running = r.running /\ v.hand = r.hand
          /\ v.aborting = r.aborting
      BY <2>3, Zenon DEF Record
    <2>5. mk'[m] = TokenReturned(v, "start")
      BY <1>b, <2>2
    <2> HIDE DEF v
    <2>6. v.pc \notin {None, "exited"} /\ v.hand = None /\ v.running > 0
      BY <1>look, <1>busy, <2>1, <2>4 DEF None
    <2>7. TakenBy(v) = t
      BY <1>r, <2>1, <2>4, <2>6, TakenSame DEF t
    <2>8. tp <= t /\ (v.aborting # "error" => tp = t)
      BY <2>4, <2>5, <2>6, <2>7, TokenReturnedTaken DEF tp
    <2>9. mk'[m].aborting = v.aborting
      BY <2>4, <2>5, TokenReturnedStopper
    <2>10. Counted
      BY <1>less, <2>1, <2>8, <2>9
    <2> QED
      BY <2>4, <2>5, <2>10, TokenReturnedPlaced
  <1>13. CASE CatchNothing(m)
    <2>1. UNCHANGED pipe /\ r.pc = "catch" /\ r.pc \notin {None, "exited"} /\ r.hand = None
      BY <1>13, <1>r, SMT DEF CatchNothing, HandKnown, None
    <2>2. mk'[m] = Looped(r) \/ mk'[m] = [r EXCEPT !.pc = "start"]
      BY <1>13, <1>b DEF CatchNothing, Becomes
    <2>3. Leaves(r, mk'[m])
      BY <1>r, <2>2, LoopedLeaves, GoesOnLeaves
    <2>4. tp = t
      BY <1>r, <2>1, <2>3, LeavesTaken DEF t, tp
    <2> QED
      BY <1>same, <2>1, <2>3, <2>4, LeavesPlaced
  <1>14. ASSUME NEW ok \in BOOLEAN, CatchShell(m, ok) PROVE Counted /\ Placed(mk'[m])
    <2>1. UNCHANGED pipe /\ r.pc = "catch" /\ r.pc \notin {None, "exited"} /\ r.hand = None
          /\ ~r.have
      BY <1>14, <1>r, SMT DEF CatchShell, HandKnown, HaveKnown, None
    <2> DEFINE v == IF ok THEN [r EXCEPT !.good = @ - 1] ELSE [r EXCEPT !.bad = @ - 1]
    <2>2. PICK x \in Finished(v, ok) : mk' = [mk EXCEPT ![m] = x]
      BY <1>14, Zenon DEF CatchShell, Becomes
    <2>3. (IF ok THEN r.good ELSE r.bad) > 0
      BY <1>14, Zenon DEF CatchShell
    <2>4. r.good \in Nat /\ r.bad \in Nat /\ r.jobs \in Nat
      BY <1>r, Zenon DEF Record
    <2>5. (ok => r.good - 1 \in Nat) /\ (~ok => r.bad - 1 \in Nat)
      BY <2>3, <2>4, SMT
    <2>6. v \in Record /\ v.pc = r.pc /\ v.running = r.running /\ v.hand = r.hand
      BY <1>r, <2>5, Zenon DEF Record
    <2>7. r.running > 0
      <3> DEFINE c == Cardinality(Subs(m))
      <3>1. r.running = r.jobs + r.good + r.bad + 0 + c
        BY <2>1, Zenon DEF MakeInv, Balanced, Live
      <3>2. c \in Nat
        BY SubsFinite
      <3> HIDE DEF c
      <3> QED
        BY <2>3, <2>4, <3>1, <3>2, SMT
    <2> HIDE DEF v
    <2>8. TakenBy(v) = t
      BY <1>r, <2>6, TakenSame DEF t
    <2>9. mk'[m] = x
      BY <1>b, <2>2
    <2>10. tp <= t /\ (x.aborting # "error" => tp = t)
      BY <1>14, <2>1, <2>2, <2>6, <2>7, <2>8, <2>9, FinishedTaken DEF tp
    <2>11. Placed(x)
      BY <1>14, <2>2, <2>6, FinishedPlaced
    <2> QED
      BY <1>less, <2>1, <2>9, <2>10, <2>11
  <1> HIDE DEF r
  <1> QED
    BY <1>2, <1>3, <1>4, <1>5, <1>6, <1>7, <1>8, <1>9, <1>10, <1>11, <1>12, <1>13,
       <1>14, Zenon DEF Own

\* A stopper does not come from nowhere.
LEMMA PipeCalm ==
    ASSUME pipe \in Seq({"+", "E"}), ~HasStopper
    PROVE  /\ pipe' = pipe => ~HasStopper'
           /\ \A t : pipe' = Append(pipe, t) /\ t # "E" => ~HasStopper'
           /\ pipe # <<>> /\ pipe' = Tail(pipe) => ~HasStopper'
           /\ pipe # <<>> => Head(pipe) = "+"
  <1>1. pipe' = pipe => ~HasStopper'
    BY DEF HasStopper
  <1>2. ASSUME NEW t, pipe' = Append(pipe, t), t # "E" PROVE ~HasStopper'
    <2>1. ASSUME NEW k \in 1..Len(pipe') PROVE pipe'[k] # "E"
      <3>1. CASE k = Len(pipe) + 1
        BY <1>2, <3>1
      <3>2. CASE k # Len(pipe) + 1
        <4>1. k \in 1..Len(pipe) /\ pipe'[k] = pipe[k]
          BY <1>2, <3>2
        <4> QED
          BY <4>1 DEF HasStopper
      <3> QED
        BY <3>1, <3>2
    <2> QED
      BY <2>1 DEF HasStopper
  <1>3. ASSUME pipe # <<>>, pipe' = Tail(pipe) PROVE ~HasStopper'
    <2>1. ASSUME NEW k \in 1..Len(pipe') PROVE pipe'[k] # "E"
      <3>1. k + 1 \in 1..Len(pipe) /\ pipe'[k] = pipe[k + 1]
        BY <1>3
      <3> QED
        BY <3>1 DEF HasStopper
    <2> QED
      BY <2>1 DEF HasStopper
  <1>4. ASSUME pipe # <<>> PROVE Head(pipe) = "+"
    <2>1. 1 \in 1..Len(pipe) /\ Head(pipe) = pipe[1] /\ Head(pipe) \in {"+", "E"}
      BY <1>4
    <2> QED
      BY <2>1 DEF HasStopper
  <1> QED
    BY <1>1, <1>2, <1>3, <1>4, Zenon

\* A make that leaves with empty hands does not take the stopper with it.
LEMMA LeavesCalm ==
    ASSUME NEW r, NEW q, Leaves(r, q), r.hand = None
    PROVE  q.hand # "E"
  BY SMT DEF Leaves, None

\* Job_TokenReturn() writes the stopper only when aborting says so.
LEMMA TokenReturnedCalm ==
    ASSUME NEW r \in Record, NEW ret \in {"loop", "finish", "start"}, r.hand = None,
           TokenReturned(r, ret).aborting # "error"
    PROVE  TokenReturned(r, ret).hand # "E"
  <1> DEFINE q == TokenReturned(r, ret)
             l == IF Token(r) = "+" THEN "addwrite" ELSE "addflush"
             v == [r EXCEPT !.running = @ - 1, !.hand = Token(r), !.ret = ret, !.pc = l]
             u == [r EXCEPT !.running = 0]
  <1>0. Token(r) # "E"
    <2>1. r.aborting # "error"
      BY TokenReturnedStopper
    <2> QED
      BY <2>1, Zenon DEF Token
  <1>1. CASE r.running # 1 \/ Token(r) # "+"
    <2>1. q = v
      BY <1>1, Zenon DEF TokenReturned
    <2>2. v.hand = Token(r)
      BY Zenon DEF Record
    <2> HIDE DEF q, v
    <2>3. q.hand # "E"
      BY <1>0, <2>1, <2>2
    <2> QED
      BY <2>3 DEF q
  <1>2. CASE ~(r.running # 1 \/ Token(r) # "+")
    <2>1. q = Returned(u, ret)
      BY <1>2, Zenon DEF TokenReturned
    <2>2. u \in Record /\ u.hand = r.hand
      <3>1. 0 \in 0..MaxJobs
        BY JobTokensAssumption, SMT
      <3> QED
        BY <3>1, ZenonT(60) DEF Record
    <2> HIDE DEF q, u
    <2>3. q.hand # "E"
      BY <2>1, <2>2, ReturnedLeaves, LeavesCalm
    <2> QED
      BY <2>3 DEF q
  <1> QED
    BY <1>1, <1>2

\* JobFinish() leads to the stopper only when aborting says so.
LEMMA FinishedCalm ==
    ASSUME NEW r \in Record, NEW ok \in BOOLEAN, NEW x \in Finished(r, ok), r.hand = None,
           x.aborting # "error"
    PROVE  x.hand # "E"
  <1> DEFINE e == [r EXCEPT !.errors = @ \/ ~ok]
             ab == IF e.errors /\ ~opt.keepgoing THEN "error" ELSE e.aborting
             a == [e EXCEPT !.aborting = ab]
  <1>1. e \in Record /\ e.hand = r.hand
    BY ZenonT(60) DEF Record
  <1> HIDE DEF e
  <1>2. ab \in {None, "error", "wait"}
    BY <1>1, Zenon DEF Record
  <1> HIDE DEF ab
  <1>3. a \in Record /\ a.hand = e.hand
    BY <1>1, <1>2, ZenonT(60) DEF Record
  <1>4. PICK u \in IF ok /\ r.aborting # "error" THEN Updated(a) ELSE {a} :
               x = TokenReturned(u, "finish")
    BY Zenon DEF Finished, e, ab
  <1> HIDE DEF a
  <1>5. u \in Record /\ u.hand = r.hand
    BY <1>1, <1>3, <1>4, UpdatedFacts, Zenon
  <1> QED
    BY <1>4, <1>5, TokenReturnedCalm

\* A calm step leaves no stopper behind.
LEMMA OwnCalm ==
    ASSUME Typed, MakeInv, NEW m \in Makes, Own(m), Calm(m)
    PROVE  ~HasStopper' /\ mk'[m].hand # "E"
  <1> DEFINE r == mk[m]
  <1>r. r \in Record /\ HandKnown(r) /\ HaveKnown(r)
    BY DEF Typed, MakeInv, Local
  <1>p. pipe \in Seq({"+", "E"}) /\ ~HasStopper /\ r.hand # "E" /\ mk'[m].aborting # "error"
    BY SMT DEF Typed, Calm, None
  <1>b. ASSUME NEW q, mk' = [mk EXCEPT ![m] = q] PROVE mk'[m] = q
    BY <1>b DEF Typed
  <1>still. ASSUME UNCHANGED pipe PROVE ~HasStopper'
    BY <1>p, <1>still, PipeCalm
  <1>loop. ASSUME NEW u \in Record, u.hand = None PROVE Looped(u).hand # "E"
    BY <1>loop, LoopedLeaves, LeavesCalm
  <1>w. Withdrawn(r).hand # "E"
    <2>1. Withdrawn(r).hand = None
      BY <1>r, Zenon DEF Record, Withdrawn
    <2> QED
      BY <2>1, SMT DEF None
  <1>1. CASE ServerStart(m)
    <2>1. mk'[m] = r \/ mk'[m] = [r EXCEPT !.pc = "start"]
      BY <1>1, <1>b DEF ServerStart, Becomes
    <2>2. mk'[m].hand = r.hand
      BY <1>r, <2>1, Zenon DEF Record
    <2>3. pipe' = pipe \/ pipe' = Append(pipe, "+")
      BY <1>1 DEF ServerStart
    <2>4. ~HasStopper'
      BY <1>p, <2>3, PipeCalm
    <2> QED
      BY <1>p, <2>2, <2>4
  <1>2. CASE AddFlush(m) \/ StopFlush(m) \/ StopPut(m)
    BY <1>2, <1>p, <1>r, SMT DEF AddFlush, StopFlush, StopPut, HandKnown
  <1>3. CASE AddWrite(m)
    <2> DEFINE u == [r EXCEPT !.hand = None, !.ret = None]
    <2>1. u \in Record /\ u.hand = None
      BY <1>r, Zenon DEF Record
    <2>2. r.ret \in {"loop", "finish", "start"}
      <3>1. r.ret # None
        BY <1>3, <1>r, SMT DEF AddWrite, HandKnown
      <3> QED
        BY <1>r, <3>1, Zenon DEF Record
    <2>3. mk'[m] = Returned(u, r.ret)
      BY <1>3, <1>b DEF AddWrite, Becomes
    <2> HIDE DEF u
    <2>4. mk'[m].hand # "E"
      BY <2>1, <2>2, <2>3, ReturnedLeaves, LeavesCalm
    <2>5. pipe' = Append(pipe, r.hand)
      BY <1>3 DEF AddWrite
    <2>6. ~HasStopper'
      BY <1>p, <2>5, PipeCalm
    <2> QED
      BY <2>4, <2>6
  <1>4. CASE StartJobs(m)
    <2> DEFINE r0 == [r EXCEPT !.have = FALSE]
               w == [r EXCEPT !.want = FALSE]
               e == [r EXCEPT !.pc = "examine"]
               d == [w EXCEPT !.pc = "read"]
    <2>1. UNCHANGED pipe /\ r.hand = None
      BY <1>4, <1>r, SMT DEF StartJobs, HandKnown
    <2>2. mk'[m] \in {TokenReturned(r0, "loop"), Looped(r), e, Looped(w), d}
      <3>1. mk' = [mk EXCEPT ![m] =
                      CASE r.todo = 0 /\ r.have  -> TokenReturned(r0, "loop")
                        [] r.todo = 0 /\ ~r.have -> Looped(r)
                        [] r.todo # 0 /\ r.have  -> e
                        [] r.todo # 0 /\ ~r.have ->
                             IF r.aborting # None \/ r.running >= MaxJobs THEN Looped(w) ELSE d]
        BY <1>4, Zenon DEF StartJobs, Becomes
      <3> HIDE DEF r0, w, e, d
      <3>2. mk'[m] = CASE r.todo = 0 /\ r.have  -> TokenReturned(r0, "loop")
                       [] r.todo = 0 /\ ~r.have -> Looped(r)
                       [] r.todo # 0 /\ r.have  -> e
                       [] r.todo # 0 /\ ~r.have ->
                            IF r.aborting # None \/ r.running >= MaxJobs THEN Looped(w) ELSE d
        BY <3>1, <1>b
      <3>3. r.have \in BOOLEAN
        BY <1>r, Zenon DEF Record
      <3> QED
        BY <3>2, <3>3, Zenon
    <2>3. /\ r0 \in Record /\ r0.hand = r.hand /\ w \in Record /\ w.hand = r.hand
          /\ e.hand = r.hand
      BY <1>r, Zenon DEF Record
    <2>4. d.hand = w.hand
      BY <2>3, Zenon DEF Record
    <2> HIDE DEF r0, w, e, d
    <2>5. CASE mk'[m] = TokenReturned(r0, "loop")
      BY <1>p, <1>still, <2>1, <2>3, <2>5, TokenReturnedCalm
    <2>6. CASE mk'[m] \in {Looped(r), Looped(w)}
      BY <1>r, <1>loop, <1>still, <2>1, <2>3, <2>6
    <2>7. CASE mk'[m] \in {e, d}
      BY <1>p, <1>still, <2>1, <2>3, <2>4, <2>7
    <2> QED
      BY <2>2, <2>5, <2>6, <2>7
  <1>5. CASE WithdrawEmpty(m)
    <2> DEFINE w == [r EXCEPT !.want = TRUE]
    <2>1. UNCHANGED pipe /\ r.hand = None
      BY <1>5, <1>r, SMT DEF WithdrawEmpty, HandKnown
    <2>2. w \in Record /\ w.hand = r.hand
      BY <1>r, Zenon DEF Record
    <2>3. mk'[m] = Looped(w) \/ mk'[m] = Withdrawn(r)
      BY <1>5, <1>b DEF WithdrawEmpty, Becomes
    <2> HIDE DEF w
    <2> QED
      BY <1>loop, <1>still, <1>w, <2>1, <2>2, <2>3
  <1>6. CASE WithdrawToken(m)
    <2> DEFINE q == [r EXCEPT !.hand = "+", !.pc = "putback"]
    <2>1. q.hand = "+"
      BY <1>r, Zenon DEF Record
    <2>2. mk'[m] = q \/ mk'[m] = Withdrawn(r)
      BY <1>6, <1>b DEF WithdrawToken, Becomes
    <2>3. ~HasStopper'
      BY <1>6, <1>p, PipeCalm DEF WithdrawToken
    <2> HIDE DEF q
    <2> QED
      BY <1>w, <2>1, <2>2, <2>3
  <1>7. CASE PutBack(m)
    <2>1. mk'[m] = Withdrawn(r)
      BY <1>7, <1>b DEF PutBack, Becomes
    <2>2. pipe' = Append(pipe, r.hand)
      BY <1>7 DEF PutBack
    <2>3. ~HasStopper'
      BY <1>p, <2>2, PipeCalm
    <2> QED
      BY <1>w, <2>1, <2>3
  <1>8. CASE WithdrawStopper(m)
    BY <1>8, <1>p, PipeCalm DEF WithdrawStopper
  <1>d. ASSUME r.pc = "examine"
        PROVE  Dequeued(m) \in Record /\ Dequeued(m).hand = None
    <2>1. r.todo > 0 /\ r.hand = None /\ r.todo \in Nat
      BY <1>d, <1>r, SMT DEF HaveKnown, HandKnown, Record
    <2>2. r.todo - 1 \in Nat
      BY <2>1, SMT
    <2>3. Dequeued(m) \in Record /\ Dequeued(m).hand = r.hand
      BY <1>r, <2>2, Zenon DEF Record, Dequeued
    <2> QED
      BY <2>1, <2>3
  <1>11. CASE UpToDate(m) \/ Defer(m) \/ StartShell(m)
    <2>1. UNCHANGED pipe /\ r.pc = "examine"
      BY <1>11, Zenon DEF UpToDate, Defer, StartShell
    <2>2. \/ \E u \in Updated(Dequeued(m)) : mk'[m] = u
          \/ mk'[m] = [Dequeued(m) EXCEPT !.later = @ + 1]
          \/ mk'[m] = [Dequeued(m) EXCEPT !.jobs = @ + 1, !.have = FALSE]
      BY <1>11, <1>b, Zenon DEF UpToDate, Defer, StartShell, Becomes
    <2>3. mk'[m].hand = None
      <3>1. CASE \E u \in Updated(Dequeued(m)) : mk'[m] = u
        BY <1>d, <2>1, <3>1, UpdatedFacts, Zenon
      <3>2. CASE \/ mk'[m] = [Dequeued(m) EXCEPT !.later = @ + 1]
                 \/ mk'[m] = [Dequeued(m) EXCEPT !.jobs = @ + 1, !.have = FALSE]
        BY <1>d, <2>1, <3>2, Zenon DEF Record
      <3> QED
        BY <2>2, <3>1, <3>2
    <2> QED
      BY <1>still, <2>1, <2>3 DEF None
  <1>12. CASE StartNothing(m)
    <2>1. UNCHANGED pipe /\ r.pc = "examine"
      BY <1>12, Zenon DEF StartNothing
    <2>2. PICK u \in IF r.aborting = None THEN Updated(Dequeued(m)) ELSE {Dequeued(m)} :
                 mk' = [mk EXCEPT ![m] = TokenReturned([u EXCEPT !.have = FALSE], "start")]
      BY <1>12, Zenon DEF StartNothing, Becomes
    <2>3. u \in Record /\ u.hand = None
      BY <1>d, <2>1, <2>2, UpdatedFacts, Zenon
    <2> DEFINE v == [u EXCEPT !.have = FALSE]
    <2>4. v \in Record /\ v.hand = u.hand
      BY <2>3, ZenonT(60) DEF Record
    <2>5. mk'[m] = TokenReturned(v, "start")
      BY <1>b, <2>2
    <2> HIDE DEF v
    <2>6. mk'[m].hand # "E"
      BY <1>p, <2>3, <2>4, <2>5, TokenReturnedCalm
    <2> QED
      BY <1>still, <2>1, <2>6
  <1>13. CASE CatchNothing(m)
    <2>1. UNCHANGED pipe /\ r.hand = None
      BY <1>13, <1>r, SMT DEF CatchNothing, HandKnown
    <2>2. mk'[m] = Looped(r) \/ mk'[m] = [r EXCEPT !.pc = "start"]
      BY <1>13, <1>b DEF CatchNothing, Becomes
    <2>3. Leaves(r, mk'[m])
      BY <1>r, <2>2, LoopedLeaves, GoesOnLeaves
    <2> QED
      BY <1>still, <2>1, <2>3, LeavesCalm
  <1>14. ASSUME NEW ok \in BOOLEAN, CatchShell(m, ok) PROVE ~HasStopper' /\ mk'[m].hand # "E"
    <2>1. UNCHANGED pipe /\ r.hand = None
      BY <1>14, <1>r, SMT DEF CatchShell, HandKnown
    <2> DEFINE v == IF ok THEN [r EXCEPT !.good = @ - 1] ELSE [r EXCEPT !.bad = @ - 1]
    <2>2. PICK x \in Finished(v, ok) : mk' = [mk EXCEPT ![m] = x]
      BY <1>14, Zenon DEF CatchShell, Becomes
    <2>3. (IF ok THEN r.good ELSE r.bad) > 0
      BY <1>14, Zenon DEF CatchShell
    <2>4. r.good \in Nat /\ r.bad \in Nat
      BY <1>r, Zenon DEF Record
    <2>5. (ok => r.good - 1 \in Nat) /\ (~ok => r.bad - 1 \in Nat)
      BY <2>3, <2>4, SMT
    <2>6. v \in Record /\ v.hand = r.hand
      BY <1>r, <2>5, Zenon DEF Record
    <2> HIDE DEF v
    <2>7. mk'[m] = x
      BY <1>b, <2>2
    <2>8. x.hand # "E"
      BY <1>14, <1>p, <2>1, <2>2, <2>6, <2>7, FinishedCalm
    <2> QED
      BY <1>still, <2>1, <2>7, <2>8
  <1> HIDE DEF r
  <1> QED
    BY <1>1, <1>2, <1>3, <1>4, <1>5, <1>6, <1>7, <1>8, <1>11, <1>12, <1>13,
       <1>14, Zenon DEF Own
-----------------------------------------------------------------------------
(* The inductive invariant. *)

(* While Job_ServerStart() fills the pipe nobody else runs, and no make    *)
(* but the root is ever there.                                             *)
ServerInv ==
    /\ mk[Root].pc = "server" =>
         /\ \A s \in SubMakes : mk[s].pc = None
         /\ mk[Root].running = 0
         /\ Len(pipe) <= MaxJobs - 1 /\ Cardinality(InPipe) = Len(pipe)
    /\ \A s \in SubMakes : mk[s].pc # "server"

\* Only a make without a job puts a token back unused.
PutBackInv == \A m \in Makes : mk[m].pc = "putback" => mk[m].running = 0

\* There is no stopper as long as nobody aborts.
CalmInv == Undisturbed => ~HasStopper /\ \A m \in Makes : mk[m].hand # "E"

CountInv == ServerInv /\ PutBackInv /\ CalmInv /\ TokensConserved

\* The tokens of all makes, when no make gains or loses one, and when none has any.
LEMMA HeldSame ==
    ASSUME \A x \in Makes : TakenBy(mk'[x]) = TakenBy(mk[x])
    PROVE  Held' = Held
  BY DEF Held

\* Makes that have taken nothing hold no token.
LEMMA HeldNone ==
    ASSUME NEW g, \A x \in Makes : TakenBy(g[x]) = 0
    PROVE  Cardinality(HeldIn(g)) = 0
  <1>1. HeldIn(g) = {}
    <2>1. ASSUME NEW t \in HeldIn(g) PROVE FALSE
      <3>1. t[1] \in Makes /\ t[2] \in 1..MaxJobs /\ t[2] <= TakenBy(g[t[1]])
        BY DEF HeldIn
      <3>2. t[2] <= 0 /\ MaxJobs \in Nat
        BY <3>1, JobTokensAssumption
      <3> QED
        BY <3>1, <3>2, SMT
    <2> QED
      BY <2>1
  <1> QED
    BY <1>1, FS_EmptySet

\* The counts of tokens are numbers.
LEMMA TokensType ==
    Typed => /\ Cardinality(InPipe) \in Nat /\ Cardinality(Held) \in Nat /\ Tokens \in Nat
             /\ MaxJobs \in Nat \ {0}
  <1> SUFFICES ASSUME Typed
               PROVE  /\ Cardinality(InPipe) \in Nat /\ Cardinality(Held) \in Nat
                      /\ Tokens \in Nat /\ MaxJobs \in Nat \ {0}
    OBVIOUS
  <1>1. Held = HeldIn(mk)
    BY DEF Held, HeldIn
  <1>2. Cardinality(InPipe) \in Nat /\ Cardinality(Held) \in Nat
    BY <1>1, InPipeFinite, HeldFinite DEF Typed
  <1> QED
    BY <1>2, JobTokensAssumption DEF Tokens

\* Nobody else runs yet: whoever does finds the pipe filled.
LEMMA Filled ==
    ASSUME CountInv, NEW m \in Makes, mk[m].pc \notin {None, "server"}
    PROVE  mk[Root].pc # "server" /\ \A x \in Makes : Placed(mk[x])
  <1>1. mk[Root].pc # "server"
    BY DEF CountInv, ServerInv, Makes
  <1> QED
    BY <1>1 DEF CountInv, ServerInv, PutBackInv, Placed, Makes

\* A step after Job_ServerStart().
LEMMA CountStep ==
    ASSUME Typed, CountInv, mk[Root].pc # "server",
           \A x \in Makes : Placed(mk'[x]),
           Live(Root)' => Live(Root),
           Tokens' \in Nat, Tokens' <= Tokens,
           Undisturbed' => /\ Undisturbed /\ Tokens' = Tokens
                           /\ ~HasStopper' /\ \A x \in Makes : mk'[x].hand # "E"
    PROVE  CountInv'
  <1>0. Root \in Makes /\ SubMakes \subseteq Makes
    BY DEF Makes
  <1>1. ServerInv'
    BY <1>0 DEF ServerInv, Placed
  <1>2. PutBackInv'
    BY DEF PutBackInv, Placed
  <1>3. CalmInv'
    BY DEF CalmInv
  <1>4. TokensConserved'
    <2>1. Tokens' <= MaxJobs - 1
      <3>1. Tokens \in Nat /\ MaxJobs \in Nat /\ Tokens <= MaxJobs - 1
        BY TokensType DEF CountInv, TokensConserved
      <3> QED
        BY <3>1
    <2>2. Undisturbed' /\ Live(Root)' => Tokens' = MaxJobs - 1
      BY DEF CountInv, TokensConserved
    <2> QED
      BY <2>1, <2>2 DEF TokensConserved
  <1> QED
    BY <1>1, <1>2, <1>3, <1>4 DEF CountInv

\* The steps of one make.
LEMMA OwnCount ==
    ASSUME Typed, MakeInv, CountInv, NEW m \in Makes, Own(m)
    PROVE  CountInv'
  <1>0. Root \in Makes /\ SubMakes \subseteq Makes /\ Root \notin SubMakes
    BY JobTokensAssumption DEF Makes
  <1>1. mk' \in [Makes -> Record] /\ opt' = opt /\ kills' = kills
    BY OwnOrderly DEF Orderly
  <1>2. \A x \in Makes \ {m} : mk'[x] = mk[x]
    <2>1. PICK q : Becomes(m, q)
      BY OwnOK
    <2> QED
      BY <2>1 DEF Becomes, Typed
  <1>3. mk \in [Makes -> Record] /\ pipe \in Seq({"+", "E"})
    BY DEF Typed
  <1>4. /\ Cardinality(InPipe) \in Nat /\ Cardinality(Held) \in Nat /\ MaxJobs \in Nat \ {0}
    BY TokensType
  <1>5. CASE ServerStart(m)
    <2>1. m = Root /\ mk[Root].pc = "server"
      BY <1>5 DEF ServerStart, CountInv, ServerInv, Makes
    <2>2. /\ \A s \in SubMakes : mk[s].pc = None
          /\ mk[Root].running = 0
          /\ Len(pipe) <= MaxJobs - 1 /\ Cardinality(InPipe) = Len(pipe)
      BY <2>1 DEF CountInv, ServerInv
    <2>3. mk'[Root] = mk[Root] \/ mk'[Root] = [mk[Root] EXCEPT !.pc = "start"]
      BY <1>3, <1>5, <2>1 DEF ServerStart, Becomes
    <2>4. /\ mk'[Root].running = 0 /\ mk'[Root].hand = mk[Root].hand
          /\ mk[Root].hand = None
          /\ mk'[Root].pc \in {"server", "start"}
      <3>1. mk[Root] \in Record /\ HandKnown(mk[Root])
        BY <1>0, <1>3 DEF MakeInv, Local
      <3>2. mk[Root].hand = None
        BY <2>1, <3>1 DEF HandKnown
      <3> QED
        BY <2>1, <2>2, <2>3, <3>1, <3>2, Zenon DEF Record
    <2>5. \A s \in SubMakes : mk'[s] = mk[s]
      BY <1>0, <1>2, <2>1
    <2>6. Cardinality(Held') = 0 /\ Held' = HeldIn(mk')
      <3>1. ASSUME NEW x \in Makes PROVE TakenBy(mk'[x]) = 0
        <4>1. CASE x = Root
          BY <1>0, <1>1, <2>4, <4>1, TakenNone DEF None
        <4>2. CASE x \in SubMakes
          BY <1>0, <1>1, <2>2, <2>5, <4>2, TakenNone
        <4> QED
          BY <4>1, <4>2 DEF Makes
      <3> QED
        BY <3>1, HeldNone DEF Held, HeldIn
    <2>7. PutBackInv'
      BY <2>4, <2>5 DEF CountInv, PutBackInv, Makes
    <2>8. Undisturbed' => Undisturbed
      <3>1. mk[Root].aborting # None => mk'[Root].aborting # None
        BY <2>1, OwnStopper
      <3> QED
        BY <1>1, <2>5, <3>1, Zenon DEF Undisturbed, Makes
    <2>9. CalmInv'
      <3> SUFFICES ASSUME Undisturbed' PROVE ~HasStopper' /\ \A x \in Makes : mk'[x].hand # "E"
        BY DEF CalmInv
      <3>1. Calm(m) /\ \A x \in Makes : mk[x].hand # "E"
        BY <1>0, <2>1, <2>8 DEF Calm, CountInv, CalmInv, Undisturbed
      <3>2. ~HasStopper' /\ mk'[m].hand # "E"
        BY <3>1, OwnCalm
      <3> QED
        BY <1>2, <3>1, <3>2
    <2>10. CASE Len(pipe) < MaxJobs - 1
      <3>1. pipe' = Append(pipe, "+") /\ mk'[Root].pc = "server"
        BY <1>3, <1>5, <2>1, <2>10 DEF ServerStart, Becomes
      <3>2. Len(pipe') = Len(pipe) + 1 /\ Len(pipe) \in Nat
        BY <1>3, <3>1
      <3>3. Cardinality(InPipe') = Cardinality(InPipe) + 1
        BY <1>3, <3>1, InPipeAppend
      <3>4. Len(pipe') <= MaxJobs - 1 /\ Cardinality(InPipe') = Len(pipe')
        BY <1>4, <2>2, <2>10, <3>2, <3>3
      <3>5. ServerInv'
        BY <2>2, <2>4, <2>5, <3>4 DEF ServerInv, None
      <3>6. TokensConserved'
        BY <2>6, <3>1, <3>2, <3>4 DEF TokensConserved, Tokens
      <3> QED
        BY <2>7, <2>9, <3>5, <3>6 DEF CountInv
    <2>11. CASE ~(Len(pipe) < MaxJobs - 1)
      <3>1. pipe' = pipe /\ mk' = [mk EXCEPT ![Root] = [mk[Root] EXCEPT !.pc = "start"]]
        BY <1>5, <2>1, <2>11 DEF ServerStart, Becomes
      <3>2. mk'[Root].pc = "start"
        <4>1. mk'[Root] = [mk[Root] EXCEPT !.pc = "start"] /\ mk[Root] \in Record
          BY <1>0, <1>3, <3>1
        <4> QED
          BY <4>1, Zenon DEF Record
      <3>3. Len(pipe) = MaxJobs - 1
        BY <1>3, <1>4, <2>2, <2>11
      <3>4. Cardinality(InPipe') = MaxJobs - 1
        BY <2>2, <3>1, <3>3 DEF InPipe
      <3>5. ServerInv'
        BY <2>2, <2>5, <3>2 DEF ServerInv, None
      <3>6. TokensConserved'
        BY <1>4, <2>6, <3>4 DEF TokensConserved, Tokens
      <3> QED
        BY <2>7, <2>9, <3>5, <3>6 DEF CountInv
    <2> QED
      BY <2>10, <2>11
  <1>6. CASE ~ServerStart(m)
    <2>1. mk[m].pc \notin {None, "server", "exited"}
      BY <1>6, Zenon DEF Own, AddFlush, AddWrite, StartJobs, WithdrawEmpty, WithdrawToken, PutBack,
         WithdrawStopper, StopFlush, StopPut, UpToDate, Defer, StartShell, StartNothing,
         CatchNothing, CatchShell, None
    <2>2. mk[Root].pc # "server" /\ \A x \in Makes : Placed(mk[x])
      BY <2>1, Filled
    <2>3. mk[m].pc = "putback" => mk[m].running = 0
      BY <2>2 DEF Placed
    <2>4. /\ Cardinality(InPipe') + TakenBy(mk'[m]) <= Cardinality(InPipe) + TakenBy(mk[m])
          /\ Calm(m) =>
                Cardinality(InPipe') + TakenBy(mk'[m]) = Cardinality(InPipe) + TakenBy(mk[m])
          /\ Cardinality(InPipe') \in Nat
          /\ Placed(mk'[m])
      BY <1>6, <2>3, OwnTokens
    <2>5. \A x \in Makes : Placed(mk'[x])
      BY <1>2, <2>2, <2>4
    <2>6. Live(Root)' => Live(Root)
      BY <1>0, <1>2, <2>1 DEF Live
    <2>7. /\ Cardinality(Held') + TakenBy(mk[m]) = Cardinality(Held) + TakenBy(mk'[m])
          /\ Cardinality(Held') \in Nat /\ Cardinality(Held) \in Nat
          /\ TakenBy(mk[m]) \in Nat /\ TakenBy(mk'[m]) \in Nat
      BY <1>1, <1>2, <1>3, HeldStep
    <2>8. Tokens' \in Nat /\ Tokens' <= Tokens /\ (Calm(m) => Tokens' = Tokens)
      BY <1>4, <2>4, <2>7 DEF Tokens
    <2>9. ASSUME Undisturbed'
          PROVE  /\ Undisturbed /\ Tokens' = Tokens
                 /\ ~HasStopper' /\ \A x \in Makes : mk'[x].hand # "E"
      <3>1. mk[m].aborting # None => mk'[m].aborting # None
        BY OwnStopper
      <3>2. Undisturbed
        BY <1>1, <1>2, <2>9, <3>1, Zenon DEF Undisturbed
      <3>3. ~HasStopper /\ \A x \in Makes : mk[x].hand # "E"
        BY <3>2 DEF CountInv, CalmInv
      <3>4. Calm(m)
        BY <2>9, <3>2, <3>3, Zenon DEF Calm, Undisturbed
      <3>5. ~HasStopper' /\ mk'[m].hand # "E"
        BY <3>4, OwnCalm
      <3> QED
        BY <1>2, <2>8, <3>2, <3>3, <3>4, <3>5
    <2> QED
      BY <2>2, <2>5, <2>6, <2>8, <2>9, CountStep
  <1> QED
    BY <1>5, <1>6

\* A shell that ends leaves the tokens alone.
LEMMA ShellEndsCount ==
    ASSUME Typed, MakeInv, CountInv, NEW m \in Makes, NEW ok \in BOOLEAN, ShellEnds(m, ok)
    PROVE  CountInv'
  <1>0. Root \in Makes /\ SubMakes \subseteq Makes
    BY DEF Makes
  <1>1. /\ mk'[m].hand = mk[m].hand /\ mk'[m].aborting = mk[m].aborting
        /\ \A x \in Makes \ {m} : mk'[x] = mk[x]
        /\ mk' \in [Makes -> Record] /\ mk \in [Makes -> Record]
    BY ShellEndsOrderly DEF Orderly, Typed
  <1>2. mk'[m].pc = mk[m].pc /\ mk'[m].running = mk[m].running
    <2> DEFINE r == mk[m]
               g == [r EXCEPT !.jobs = @ - 1, !.good = @ + 1]
               b == [r EXCEPT !.jobs = @ - 1, !.bad = @ + 1]
               n == [r EXCEPT !.jobs = @ - 1]
               q == IF Live(m) /\ ok THEN g ELSE IF Live(m) THEN b ELSE n
    <2>1. mk' = [mk EXCEPT ![m] = q]
      BY Zenon DEF ShellEnds
    <2>2. q \in {g, b, n}
      OBVIOUS
    <2> HIDE DEF q
    <2>3. mk'[m] = q
      BY <1>1, <2>1
    <2>4. r \in Record
      BY <1>1
    <2>5. /\ g.pc = r.pc /\ g.running = r.running /\ b.pc = r.pc /\ b.running = r.running
          /\ n.pc = r.pc /\ n.running = r.running
      BY <2>4, Zenon DEF Record
    <2> HIDE DEF g, b, n
    <2> QED
      BY <2>2, <2>3, <2>5
  <1>3. ASSUME NEW x \in Makes
        PROVE  /\ mk'[x].pc = mk[x].pc /\ mk'[x].running = mk[x].running
               /\ mk'[x].hand = mk[x].hand /\ mk'[x].aborting = mk[x].aborting
    BY <1>1, <1>2
  <1>4. Held' = Held
    <2>1. \A x \in Makes : TakenBy(mk'[x]) = TakenBy(mk[x])
      BY <1>1, <1>3, TakenSame
    <2> QED
      BY <2>1, HeldSame
  <1>5. pipe' = pipe /\ kills' = kills /\ opt' = opt
    BY Zenon DEF ShellEnds
  <1>6. /\ InPipe' = InPipe /\ Tokens' = Tokens /\ (HasStopper' <=> HasStopper)
        /\ (Undisturbed' <=> Undisturbed) /\ (Live(Root)' <=> Live(Root))
    BY <1>0, <1>3, <1>4, <1>5, Zenon DEF InPipe, Tokens, HasStopper, Undisturbed, Live
  <1>7. ServerInv'
    BY <1>0, <1>3, <1>5, <1>6 DEF CountInv, ServerInv
  <1>8. PutBackInv' /\ CalmInv'
    BY <1>3, <1>6 DEF CountInv, PutBackInv, CalmInv
  <1>9. TokensConserved'
    BY <1>0, <1>3, <1>6 DEF CountInv, TokensConserved
  <1> QED
    BY <1>7, <1>8, <1>9 DEF CountInv

\* A make that exits, however, has no tokens any more.
LEMMA ExitedGone ==
    ASSUME NEW r \in Record, NEW q \in Record, q.pc = "exited"
    PROVE  TakenBy(q) <= TakenBy(r) /\ Placed(q)
  <1>1. TakenBy(q) = 0 /\ TakenBy(r) \in Nat
    BY TakenNone, TakenType
  <1> QED
    BY <1>1 DEF Placed

\* Makes that die lose their tokens.
LEMMA DeathCount ==
    ASSUME Typed, MakeInv, CountInv, mk[Root].pc # "server", \A x \in Makes : Placed(mk[x]),
           Orderly, pipe' = pipe, ~Undisturbed',
           \A x \in Makes : mk'[x] = mk[x] \/ mk'[x].pc = "exited"
    PROVE  CountInv'
  <1>1. mk \in [Makes -> Record] /\ mk' \in [Makes -> Record] /\ Root \in Makes
    BY DEF Typed, Orderly, Makes
  <1>2. \A x \in Makes : Placed(mk'[x]) /\ TakenBy(mk'[x]) <= TakenBy(mk[x])
    <2>1. \A x \in Makes : TakenBy(mk[x]) \in Nat
      BY <1>1, TakenType
    <2> QED
      BY <1>1, <2>1, ExitedGone
  <1>3. /\ Cardinality(Held') <= Cardinality(Held)
        /\ Cardinality(Held') \in Nat /\ Cardinality(Held) \in Nat
    BY <1>1, <1>2, HeldLess
  <1>4. Cardinality(InPipe) \in Nat /\ InPipe' = InPipe
    BY TokensType DEF InPipe
  <1>5. Tokens' \in Nat /\ Tokens' <= Tokens
    BY <1>3, <1>4 DEF Tokens
  <1>6. Live(Root)' => Live(Root)
    BY <1>1 DEF Live
  <1> QED
    BY <1>2, <1>5, <1>6, CountStep

\* A killed sub-make's tokens are gone: none is added.
LEMMA KillCount ==
    ASSUME Typed, MakeInv, CountInv, NEW s \in SubMakes, Kill(s)
    PROVE  CountInv'
  <1>1. Orderly
    BY KillOrderly
  <1>2. s \in Makes /\ mk[s].pc \notin {None, "server"} /\ mk[s] \in Record
    BY DEF Kill, Live, CountInv, ServerInv, Makes, Typed
  <1>3. mk[Root].pc # "server" /\ \A x \in Makes : Placed(mk[x])
    BY <1>2, Filled
  <1>4. mk' = [mk EXCEPT ![s] = Exited(mk[s], "bad")] /\ pipe' = pipe /\ kills' = kills + 1
    BY DEF Kill
  <1>5. ~Undisturbed'
    <2>1. kills' # 0
      BY <1>4, JobTokensAssumption, SMT DEF Typed
    <2> QED
      BY <2>1 DEF Undisturbed
  <1>6. \A x \in Makes : mk'[x] = mk[x] \/ mk'[x].pc = "exited"
    <2>1. Exited(mk[s], "bad").pc = "exited"
      BY <1>2, Zenon DEF Exited, Record
    <2> QED
      BY <1>2, <1>4, <2>1 DEF Typed
  <1> QED
    BY <1>1, <1>3, <1>4, <1>5, <1>6, DeathCount

\* A make that dies of its own error adds no token.
LEMMA DieCount ==
    ASSUME Typed, MakeInv, CountInv, NEW m \in Makes, Die(m)
    PROVE  CountInv'
  <1>1. Orderly
    BY DieOrderly
  <1>2. mk[m].pc \notin {None, "server"} /\ mk \in [Makes -> Record]
    BY DEF Die, None, Typed
  <1>3. mk[Root].pc # "server" /\ \A x \in Makes : Placed(mk[x])
    BY <1>2, Filled
  <1>4. pipe' = pipe /\ opt' = opt /\ opt.missing
    BY Zenon DEF Die
  <1>5. ~Undisturbed'
    BY <1>4, Zenon DEF Undisturbed
  <1>6. ASSUME NEW x \in Makes PROVE mk'[x] = mk[x] \/ mk'[x].pc = "exited"
    <2>1. mk'[x] \in {[Exited(mk[x], "bad") EXCEPT !.jobs = 0], Exited(mk[x], "bad"), mk[x]}
      BY Zenon DEF Die
    <2> DEFINE e == Exited(mk[x], "bad")
    <2>2. e \in Record /\ e.pc = "exited"
      <3>1. mk[x] \in Record
        BY <1>2
      <3> QED
        BY <3>1, Zenon DEF Exited, Record
    <2> HIDE DEF e
    <2>3. [e EXCEPT !.jobs = 0].pc = "exited"
      BY <2>2, Zenon DEF Record
    <2> QED
      BY <2>1, <2>2, <2>3 DEF e
  <1> QED
    BY <1>1, <1>3, <1>4, <1>5, <1>6, DeathCount

\* The token that the parent has taken is the sub-make's first.
LEMMA StartSubMakeCount ==
    ASSUME Typed, MakeInv, CountInv, NEW m \in Makes, NEW s \in SubMakes, StartSubMake(m, s)
    PROVE  CountInv'
  <1> DEFINE d == Dequeued(m)
             q == [d EXCEPT !.have = FALSE]
             z == NewMake(s, "start")
  <1>0. SubMakes \subseteq Makes /\ Root \in Makes
    BY DEF Makes
  <1>1. /\ mk' = [mk EXCEPT ![m] = q, ![s] = z]
        /\ opt' = opt /\ kills' = kills /\ pipe' = pipe
        /\ mk[m].pc = "examine" /\ mk[s].pc = None /\ mk[s].status = None
    BY Zenon DEF StartSubMake
  <1>2. /\ mk \in [Makes -> Record] /\ mk[m] \in Record /\ mk[s] \in Record
        /\ Local(mk[m]) /\ Local(mk[s])
    BY <1>0 DEF Typed, MakeInv
  <1>3. mk' \in [Makes -> Record]
    BY StartSubMakeOK
  <1>4. m # s /\ mk[m].hand = None /\ mk[s].aborting = None
    BY <1>1, <1>2, Zenon DEF Local, HandKnown, StatusKnown, None
  <1>5. /\ q.aborting = mk[m].aborting /\ q.running = mk[m].running
        /\ q.hand = mk[m].hand /\ q.pc = "start"
    <2>1. /\ DOMAIN d = DOMAIN mk[m] /\ d.aborting = mk[m].aborting
          /\ d.running = mk[m].running /\ d.hand = mk[m].hand /\ d.pc = "start"
      BY <1>2, Zenon DEF Dequeued, Record
    <2>2. DOMAIN mk[m] = {"pc", "ret", "hand", "aborting", "fatal", "running", "want", "have",
                          "errors", "todo", "later", "jobs", "good", "bad", "status"}
      BY <1>2, Zenon DEF Record
    <2> HIDE DEF d
    <2> QED
      BY <2>1, <2>2
  <1>6. z.aborting = None /\ z.running = 0 /\ z.hand = None /\ z.pc = "start"
    BY Zenon DEF NewMake
  <1> HIDE DEF q, z
  <1>7. mk'[m] = q /\ mk'[s] = z /\ \A x \in Makes \ {m, s} : mk'[x] = mk[x]
    BY <1>0, <1>1, <1>2, <1>4
  <1>8. mk[Root].pc # "server" /\ \A x \in Makes : Placed(mk[x])
    BY <1>1, Filled, SMT DEF None
  <1>9. \A x \in Makes : Placed(mk'[x])
    BY <1>5, <1>6, <1>7, <1>8 DEF Placed
  <1>10. Held' = Held
    <2>1. TakenBy(mk'[m]) = TakenBy(mk[m])
      <3>1. "start" \notin {None, "exited"} /\ "examine" \notin {None, "exited"}
        BY SMT DEF None
      <3> QED
        BY <1>1, <1>2, <1>3, <1>5, <1>7, <3>1, TakenSame
    <2>2. TakenBy(mk[s]) = 0
      BY <1>1, <1>2, TakenNone
    <2>3. TakenBy(mk'[s]) = 0
      BY <1>0, <1>3, <1>6, <1>7, TakenNone DEF None
    <2> QED
      BY <1>7, <2>1, <2>2, <2>3, HeldSame
  <1>11. Tokens' = Tokens /\ Tokens \in Nat /\ (HasStopper' <=> HasStopper)
    BY <1>1, <1>10, TokensType DEF Tokens, InPipe, HasStopper
  <1>12. Live(Root)' => Live(Root)
    <2>1. Root # s
      BY JobTokensAssumption
    <2> QED
      BY <1>0, <1>1, <1>7, <2>1 DEF Live, None
  <1>13. ASSUME Undisturbed'
         PROVE  /\ Undisturbed /\ Tokens' = Tokens
                /\ ~HasStopper' /\ \A x \in Makes : mk'[x].hand # "E"
    <2>1. Undisturbed
      BY <1>1, <1>4, <1>5, <1>7, <1>13, Zenon DEF Undisturbed
    <2>2. ~HasStopper /\ \A x \in Makes : mk[x].hand # "E"
      BY <2>1 DEF CountInv, CalmInv
    <2> QED
      BY <1>5, <1>6, <1>7, <1>11, <2>1, <2>2 DEF None
  <1> QED
    BY <1>8, <1>9, <1>11, <1>12, <1>13, CountStep

\* The parent gives it back when the sub-make has been reaped.
LEMMA CatchSubMakeCount ==
    ASSUME Typed, MakeInv, CountInv, NEW m \in Makes, NEW s \in SubMakes, CatchSubMake(m, s)
    PROVE  CountInv'
  <1> DEFINE ok == mk[s].status = "good"
             z == [mk[s] EXCEPT !.pc = None]
  <1>0. SubMakes \subseteq Makes /\ Root \in Makes
    BY DEF Makes
  <1>1. /\ opt' = opt /\ kills' = kills /\ pipe' = pipe
        /\ mk[m].pc = "catch" /\ mk[s].pc = "exited" /\ Parent[s] = m
    BY Zenon DEF CatchSubMake
  <1>2. PICK x \in Finished(mk[m], ok) : mk' = [mk EXCEPT ![m] = x, ![s].pc = None]
    BY Zenon DEF CatchSubMake
  <1>3. /\ mk \in [Makes -> Record] /\ mk[m] \in Record /\ mk[s] \in Record
        /\ Local(mk[m]) /\ Local(mk[s])
    BY <1>0 DEF Typed, MakeInv
  <1>4. mk' \in [Makes -> Record]
    BY CatchSubMakeOK
  <1>5. /\ m # s /\ mk[m].hand = None /\ mk[s].hand = None
        /\ mk[m].pc \notin {None, "exited"} /\ ~mk[m].have
    BY <1>1, <1>3, Zenon DEF Local, HandKnown, HaveKnown, None
  <1>6. z.aborting = mk[s].aborting /\ z.hand = mk[s].hand /\ z.pc = None
    BY <1>3, Zenon DEF Record
  <1>7. mk'[m] = x /\ mk'[s] = z /\ \A y \in Makes \ {m, s} : mk'[y] = mk[y]
    BY <1>0, <1>2, <1>3, <1>5
  <1> HIDE DEF z
  <1>8. mk[m].running > 0
    <2> DEFINE c == Cardinality(Subs(m))
    <2>1. mk[m].running = mk[m].jobs + mk[m].good + mk[m].bad + 0 + c
      BY <1>5, Zenon DEF MakeInv, Balanced, Live
    <2>2. c \in Nat /\ c # 0
      <3>1. s \in Subs(m)
        BY <1>1 DEF Subs, None
      <3> QED
        BY <3>1, SubsFinite, FS_EmptySet
    <2>3. mk[m].jobs \in Nat /\ mk[m].good \in Nat /\ mk[m].bad \in Nat
      BY <1>3, Zenon DEF Record
    <2> HIDE DEF c
    <2> QED
      BY <2>1, <2>2, <2>3, SMT
  <1>9. ok \in BOOLEAN
    OBVIOUS
  <1> HIDE DEF ok
  <1>10. /\ TakenBy(x) <= TakenBy(mk[m])
         /\ x.aborting # "error" => TakenBy(x) = TakenBy(mk[m])
         /\ Placed(x)
         /\ mk[m].aborting # None => x.aborting # None
         /\ x.aborting # "error" => x.hand # "E"
    BY <1>2, <1>3, <1>5, <1>8, <1>9, FinishedTaken, FinishedPlaced, FinishedStopper, FinishedCalm
  <1>11. mk[Root].pc # "server" /\ \A y \in Makes : Placed(mk[y])
    BY <1>1, Filled, SMT DEF None
  <1>12. \A y \in Makes : Placed(mk'[y])
    <2>1. Placed(z)
      BY <1>6 DEF Placed, None
    <2> QED
      BY <1>7, <1>10, <1>11, <2>1
  <1>13. /\ Cardinality(Held') + TakenBy(mk[m]) = Cardinality(Held) + TakenBy(mk'[m])
         /\ Cardinality(Held') \in Nat /\ Cardinality(Held) \in Nat
         /\ TakenBy(mk[m]) \in Nat /\ TakenBy(mk'[m]) \in Nat
    <2>1. TakenBy(mk[s]) = 0
      BY <1>1, <1>3, TakenNone
    <2>2. TakenBy(mk'[s]) = 0
      BY <1>0, <1>4, <1>6, <1>7, TakenNone
    <2> QED
      BY <1>3, <1>4, <1>7, <2>1, <2>2, HeldStep
  <1>14. Cardinality(InPipe) \in Nat /\ InPipe' = InPipe
    BY <1>1, TokensType DEF InPipe
  <1>15. Tokens' \in Nat /\ Tokens' <= Tokens /\ (x.aborting # "error" => Tokens' = Tokens)
    BY <1>7, <1>10, <1>13, <1>14 DEF Tokens
  <1>16. Live(Root)' => Live(Root)
    <2>1. Root # s
      BY JobTokensAssumption
    <2> QED
      BY <1>0, <1>5, <1>7, <2>1 DEF Live
  <1>17. ASSUME Undisturbed'
         PROVE  /\ Undisturbed /\ Tokens' = Tokens
                /\ ~HasStopper' /\ \A y \in Makes : mk'[y].hand # "E"
    <2>1. x.aborting = None
      BY <1>7, <1>17, Zenon DEF Undisturbed
    <2>2. Undisturbed
      BY <1>1, <1>6, <1>7, <1>10, <1>17, Zenon DEF Undisturbed
    <2>3. ~HasStopper /\ \A y \in Makes : mk[y].hand # "E"
      BY <2>2 DEF CountInv, CalmInv
    <2>4. ~HasStopper'
      BY <1>1, <2>3 DEF HasStopper
    <2>5. x.aborting # "error"
      BY <2>1 DEF None
    <2> QED
      BY <1>5, <1>6, <1>7, <1>10, <1>15, <2>2, <2>3, <2>4, <2>5 DEF None
  <1> QED
    BY <1>11, <1>12, <1>15, <1>16, <1>17, CountStep

\* Before the pipe is filled there is no token.
LEMMA CountInit ==
    ASSUME Init
    PROVE  CountInv
  <1>0. Root \in Makes /\ \A s \in SubMakes : s \in Makes /\ s # Root
    BY JobTokensAssumption DEF Makes
  <1>1. ASSUME NEW m \in Makes
        PROVE  /\ mk[m].pc = (IF m = Root THEN "server" ELSE None)
               /\ mk[m].hand = None /\ mk[m].running = 0
    BY <1>1, Zenon DEF Init, NewMake
  <1>2. Typed /\ pipe = <<>>
    BY InitOK DEF Init
  <1>3. Cardinality(InPipe) = 0 /\ Len(pipe) = 0 /\ ~HasStopper
    <2>1. InPipe = {}
      BY <1>2 DEF InPipe
    <2> QED
      BY <1>2, <2>1, FS_EmptySet DEF HasStopper
  <1>4. MaxJobs \in Nat \ {0} /\ 0 <= MaxJobs - 1
    BY JobTokensAssumption
  <1>5. ServerInv
    BY <1>0, <1>1, <1>3, <1>4, SMT DEF ServerInv, None
  <1>6. PutBackInv /\ CalmInv
    BY <1>1, <1>3, SMT DEF PutBackInv, CalmInv, None
  <1>7. Cardinality(Held) = 0
    <2>1. \A x \in Makes : TakenBy(mk[x]) = 0
      <3>1. \A x \in Makes : mk[x].hand # "+"
        BY <1>1 DEF None
      <3> QED
        BY <1>1, <1>2, <3>1, TakenNone DEF Typed
    <2>2. Held = HeldIn(mk)
      BY DEF Held, HeldIn
    <2> QED
      BY <2>1, <2>2, HeldNone
  <1>8. TokensConserved
    BY <1>0, <1>1, <1>3, <1>4, <1>7 DEF TokensConserved, Tokens
  <1> QED
    BY <1>5, <1>6, <1>8 DEF CountInv

\* Every step keeps the account of the tokens.
LEMMA CountNext ==
    ASSUME Typed, MakeInv, CountInv, Next
    PROVE  CountInv'
  BY NextCases, OwnCount, DieCount, StartSubMakeCount, CatchSubMakeCount, ShellEndsCount,
     KillCount, Zenon

\* A step that changes nothing keeps the account of the tokens.
LEMMA CountStutter ==
    ASSUME CountInv, UNCHANGED vars
    PROVE  CountInv'
  BY DEF vars, CountInv, ServerInv, PutBackInv, CalmInv, TokensConserved, Tokens, InPipe, Held,
     Undisturbed, HasStopper, Live

\* The invariant of every reachable state.
LEMMA CountAlways == Spec => [](Typed /\ MakeInv /\ CountInv)
  <1> DEFINE I == Typed /\ MakeInv /\ CountInv
  <1>1. Init => I
    BY InitOK, CountInit
  <1>2. I /\ [Next]_vars => I'
    BY StepInv, CountNext, StutterInv, CountStutter
  <1> QED
    BY <1>1, <1>2, PTL DEF Spec
-----------------------------------------------------------------------------
(* The theorems. *)

(* The makes of a build never have more tokens, in the pipe, for the jobs  *)
(* beyond the first of each and in hand between a read() and a write(),    *)
(* than Job_ServerStart() made; and exactly that many as long as none      *)
(* aborts, dies or is killed, whatever jobs fail.                          *)
THEOREM TokensKept == Spec => []TokensConserved
  <1>1. Typed /\ MakeInv /\ CountInv => TokensConserved
    BY DEF CountInv
  <1> QED
    BY <1>1, CountAlways, PTL
-----------------------------------------------------------------------------
(* How many shells run. *)

\* The members of a finite set can be numbered from 1 to its size.
LEMMA Numbering ==
    ASSUME NEW S, IsFiniteSet(S)
    PROVE  \E f \in [S -> 1..Cardinality(S)] : \A x, y \in S : f[x] = f[y] => x = y
  <1>1. PICK n \in Nat : ExistsBijection(1..n, S)
    BY FS_NatBijection
  <1>2. Cardinality(S) = n
    BY <1>1, FS_CountingElements
  <1>3. PICK f : f \in Bijection(1..n, S)
    BY <1>1 DEF ExistsBijection
  <1>4. Inverse(f, 1..n, S) \in Bijection(S, 1..n)
    BY <1>3, Fun_BijInverse
  <1> QED
    BY <1>2, <1>4, Fun_BijectionProperties

(* The makes whose ancestors run are closed under parents, and the root is *)
(* among them.                                                             *)
LEMMA AttachedFacts ==
    /\ Attached \subseteq Makes
    /\ \A m \in Attached : Live(m) /\ (m # Root => m \in SubMakes /\ Parent[m] \in Attached)
    /\ Attached # {} => Root \in Attached
  <1>1. Attached \subseteq Makes
    BY DEF Attached
  <1>2. ASSUME NEW m \in Attached
        PROVE  Live(m) /\ (m # Root => m \in SubMakes /\ Parent[m] \in Attached)
    <2>1. PICK L \in SUBSET Makes :
                 m \in L /\ \A x \in L : Live(x) /\ (x # Root => Parent[x] \in L)
      BY DEF Attached
    <2>2. L \subseteq Attached
      BY <2>1 DEF Attached
    <2> QED
      BY <1>1, <2>1, <2>2 DEF Makes
  <1>3. ASSUME Attached # {}, Root \notin Attached PROVE FALSE
    <2>1. Attached \subseteq SubMakes
      BY <1>1, <1>3 DEF Makes
    <2>2. PICK s \in Attached : Parent[s] \notin Attached
      BY <1>3, <2>1, TreeAssumption
    <2> QED
      BY <1>2, <1>3, <2>2
  <1> QED
    BY <1>1, <1>2, <1>3

(* Every attached make has a token for each of its jobs: the one it was    *)
(* started with, and those it took.  One of the jobs of its parent is the  *)
(* make itself, so each make but the root uses up what it was given.       *)
LEMMA ShellsBounded == Typed /\ MakeInv /\ TokensConserved => AtMostMaxJobs
  <1> SUFFICES ASSUME Typed, MakeInv, TokensConserved
               PROVE  Cardinality(Shells) <= MaxJobs
    BY DEF AtMostMaxJobs
  <1> DEFINE L == Attached
             c(m) == Cardinality(Subs(m))
             R == {t \in L \X (1..MaxJobs) : t[2] <= mk[t[1]].running}
             A == {t \in R : ~(t[2] <= c(t[1]))}
             B == {t \in R : t[2] <= c(t[1])}
             R1 == {t \in R : t[2] = 1}
             R2 == {t \in R : t[2] # 1}
  <1>1. /\ L \subseteq Makes
        /\ \A m \in L : Live(m) /\ (m # Root => m \in SubMakes /\ Parent[m] \in L)
        /\ L # {} => Root \in L
    BY AttachedFacts
  <1>2. MaxJobs \in Nat \ {0} /\ Cardinality(InPipe) \in Nat /\ Cardinality(Held) \in Nat
    BY TokensType
  <1>3. ASSUME NEW m \in L
        PROVE  /\ c(m) \in Nat /\ mk[m].running \in 0..MaxJobs /\ mk[m].jobs \in Nat
               /\ c(m) + mk[m].jobs <= mk[m].running
    <2>1. mk[m] \in Record /\ Balanced(mk[m], c(m)) /\ c(m) \in Nat
      BY <1>1, SubsFinite DEF Typed, MakeInv
    <2>2. /\ mk[m].running \in 0..MaxJobs /\ mk[m].jobs \in Nat /\ mk[m].good \in Nat
          /\ mk[m].bad \in Nat
      BY <2>1, Zenon DEF Record
    <2> DEFINE h == IF mk[m].have THEN 1 ELSE 0
               cm == c(m)
    <2>3. mk[m].running = mk[m].jobs + mk[m].good + mk[m].bad + h + cm
      BY <2>1, Zenon DEF Balanced
    <2>4. h \in Nat /\ cm \in Nat
      BY <2>1
    <2> HIDE DEF h, cm
    <2>5. cm + mk[m].jobs <= mk[m].running
      BY <2>2, <2>3, <2>4, SMT
    <2> QED
      BY <2>1, <2>2, <2>5 DEF cm
  <1> HIDE DEF L
  <1>4. IsFiniteSet(L) /\ IsFiniteSet(R)
    <2>1. IsFiniteSet(Makes)
      BY JobTokensAssumption, FS_Singleton, FS_Union DEF Makes
    <2>2. IsFiniteSet(L)
      BY <1>1, <2>1, SubsetSize
    <2>3. IsFiniteSet(1..MaxJobs)
      BY <1>2, FS_Interval
    <2>4. IsFiniteSet(L \X (1..MaxJobs))
      BY <2>2, <2>3, FS_Product
    <2>5. R \subseteq L \X (1..MaxJobs)
      OBVIOUS
    <2> QED
      BY <2>2, <2>4, <2>5, SubsetSize
  <1>5. /\ IsFiniteSet(A) /\ IsFiniteSet(B) /\ Cardinality(R) = Cardinality(A) + Cardinality(B)
        /\ IsFiniteSet(R1) /\ IsFiniteSet(R2)
        /\ Cardinality(R) = Cardinality(R1) + Cardinality(R2)
        /\ Cardinality(R1) \in Nat /\ Cardinality(R2) \in Nat
        /\ Cardinality(A) \in Nat /\ Cardinality(B) \in Nat
    <2> HIDE DEF R, c
    <2>1. A \subseteq R /\ B \subseteq R /\ R = A \cup B /\ A \cap B = {}
      OBVIOUS
    <2>2. R1 \subseteq R /\ R2 \subseteq R /\ R = R1 \cup R2 /\ R1 \cap R2 = {}
      OBVIOUS
    <2> HIDE DEF A, B, R1, R2
    <2>3. IsFiniteSet(A) /\ IsFiniteSet(B) /\ IsFiniteSet(R1) /\ IsFiniteSet(R2)
      BY <1>4, <2>1, <2>2, SubsetSize
    <2> QED
      BY <2>1, <2>2, <2>3, DisjointSize, FS_CardinalityType
  <1>6. Cardinality(Shells) <= Cardinality(A) /\ IsFiniteSet(Shells)
    <2> DEFINE f == [j \in Shells |-> <<j[1], c(j[1]) + j[2]>>]
    <2>1. ASSUME NEW j \in Shells
          PROVE  /\ j = <<j[1], j[2]>> /\ j[1] \in L /\ j[2] \in Nat /\ c(j[1]) \in Nat
                 /\ f[j] \in A /\ f[j] = <<j[1], c(j[1]) + j[2]>>
      <3>1. j \in L \X (1..MaxJobs) /\ j[2] <= mk[j[1]].jobs
        BY DEF Shells, L
      <3>2. j = <<j[1], j[2]>> /\ j[1] \in L /\ j[2] \in 1..MaxJobs
        BY <3>1
      <3> DEFINE cj == c(j[1])
                 w == j[2]
                 u == mk[j[1]].running
                 b == mk[j[1]].jobs
      <3>3. cj \in Nat /\ u \in 0..MaxJobs /\ b \in Nat /\ cj + b <= u /\ w <= b /\ w \in 1..MaxJobs
        BY <1>3, <3>1, <3>2
      <3>4. f[j] = <<j[1], cj + w>>
        OBVIOUS
      <3> HIDE DEF cj, w, u, b, f
      <3>5. cj + w \in 1..MaxJobs /\ cj + w <= u /\ ~(cj + w <= cj)
        BY <1>2, <3>3
      <3>6. <<j[1], cj + w>> \in A
        BY <3>2, <3>5 DEF u, cj
      <3>7. w \in Nat
        BY <1>2, <3>3
      <3> QED
        BY <3>2, <3>3, <3>4, <3>6, <3>7 DEF cj, w
    <2>2. f \in [Shells -> A]
      BY <2>1
    <2>3. ASSUME NEW x \in Shells, NEW y \in Shells, f[x] = f[y] PROVE x = y
      <3>1. x[1] = y[1] /\ c(x[1]) + x[2] = c(y[1]) + y[2]
        BY <2>1, <2>3
      <3> DEFINE n == c(x[1])
      <3>2. x[2] = y[2]
        <4>1. n + x[2] = n + y[2] /\ n \in Nat /\ x[2] \in Nat /\ y[2] \in Nat
          BY <2>1, <3>1
        <4> HIDE DEF n
        <4> QED
          BY <4>1
      <3> QED
        BY <2>1, <3>1, <3>2
    <2> HIDE DEF f, A
    <2> QED
      BY <1>5, <2>2, <2>3, AtMostSize
  <1>7. Cardinality(L \ {Root}) <= Cardinality(B)
    <2> DEFINE num(p) == CHOOSE g \in [Subs(p) -> 1..c(p)] :
                            \A x, y \in Subs(p) : g[x] = g[y] => x = y
               f == [s \in L \ {Root} |-> <<Parent[s], num(Parent[s])[s]>>]
    <2>1. ASSUME NEW p
          PROVE  /\ num(p) \in [Subs(p) -> 1..c(p)]
                 /\ \A x, y \in Subs(p) : num(p)[x] = num(p)[y] => x = y
      BY SubsFinite, Numbering
    <2> HIDE DEF num
    <2>2. ASSUME NEW s \in L \ {Root}
          PROVE  /\ Parent[s] \in L /\ s \in Subs(Parent[s])
                 /\ f[s] = <<Parent[s], num(Parent[s])[s]>> /\ f[s] \in B
      <3>1. s \in SubMakes /\ Parent[s] \in L /\ s \in Subs(Parent[s])
        BY <1>1 DEF Subs, Live
      <3> DEFINE p == Parent[s]
                 k == num(p)[s]
                 u == mk[p].running
                 b == mk[p].jobs
                 cp == c(p)
      <3>2. k \in 1..cp
        BY <2>1, <3>1
      <3>3. cp \in Nat /\ u \in 0..MaxJobs /\ b \in Nat /\ cp + b <= u
        BY <1>3, <3>1
      <3>4. f[s] = <<p, k>>
        OBVIOUS
      <3> HIDE DEF k, u, b, cp, f
      <3>5. k \in 1..MaxJobs /\ k <= u /\ k <= cp
        BY <1>2, <3>2, <3>3
      <3>6. <<p, k>> \in B
        BY <3>1, <3>5 DEF u, cp
      <3> QED
        BY <3>1, <3>4, <3>6 DEF k
    <2>3. f \in [L \ {Root} -> B]
      BY <2>2
    <2>4. ASSUME NEW x \in L \ {Root}, NEW y \in L \ {Root}, f[x] = f[y] PROVE x = y
      <3>1. Parent[x] = Parent[y] /\ num(Parent[x])[x] = num(Parent[y])[y]
        BY <2>2, <2>4
      <3> QED
        BY <2>1, <2>2, <3>1
    <2> HIDE DEF f, B
    <2> QED
      BY <1>5, <2>3, <2>4, AtMostSize
  <1>8. Cardinality(R1) <= Cardinality(L)
    <2> DEFINE f == [t \in R1 |-> t[1]]
    <2>1. f \in [R1 -> L]
      OBVIOUS
    <2>2. ASSUME NEW x \in R1, NEW y \in R1, f[x] = f[y] PROVE x = y
      <3>1. x = <<x[1], x[2]>> /\ y = <<y[1], y[2]>> /\ x[2] = 1 /\ y[2] = 1
        OBVIOUS
      <3> QED
        BY <2>2, <3>1
    <2> HIDE DEF f, R1
    <2> QED
      BY <1>4, <2>1, <2>2, AtMostSize
  <1>9. Cardinality(R2) <= Cardinality(Held)
    <2> DEFINE f == [t \in R2 |-> <<t[1], t[2] - 1>>]
    <2>1. ASSUME NEW t \in R2
          PROVE  /\ t = <<t[1], t[2]>> /\ t[2] \in Nat /\ f[t] = <<t[1], t[2] - 1>>
                 /\ f[t] \in Held
      <3>1. t = <<t[1], t[2]>> /\ t[1] \in L /\ t[2] \in 1..MaxJobs /\ t[2] # 1
            /\ t[2] <= mk[t[1]].running
        OBVIOUS
      <3> DEFINE m == t[1]
                 k == t[2]
                 u == mk[m].running
                 h == IF mk[m].hand = "+" THEN 1 ELSE 0
                 tk == TakenBy(mk[m])
      <3>2. u \in 0..MaxJobs /\ k \in 1..MaxJobs /\ k # 1 /\ k <= u
        BY <1>3, <3>1
      <3>3. tk = (IF u > 1 THEN u - 1 ELSE 0) + h
        <4>1. mk[m].pc \notin {None, "exited"}
          BY <1>1, <3>1 DEF Live
        <4> QED
          BY <4>1, Zenon DEF TakenBy
      <3>4. h \in Nat
        OBVIOUS
      <3>5. f[t] = <<m, k - 1>> /\ m \in Makes
        BY <1>1, <3>1
      <3> HIDE DEF k, u, h, tk, f
      <3>6. k - 1 \in 1..MaxJobs /\ k - 1 <= tk /\ k \in Nat
        BY <1>2, <3>2, <3>3, <3>4
      <3>7. <<m, k - 1>> \in Held
        BY <3>5, <3>6 DEF Held, tk
      <3> QED
        BY <3>1, <3>5, <3>6, <3>7 DEF k
    <2>2. f \in [R2 -> Held]
      BY <2>1
    <2>3. ASSUME NEW x \in R2, NEW y \in R2, f[x] = f[y] PROVE x = y
      <3>1. x[1] = y[1] /\ x[2] - 1 = y[2] - 1
        BY <2>1, <2>3
      <3>2. x[2] = y[2]
        BY <2>1, <3>1
      <3> QED
        BY <2>1, <3>1, <3>2
    <2>4. IsFiniteSet(Held)
      <3>1. Held = HeldIn(mk)
        BY DEF Held, HeldIn
      <3> QED
        BY <3>1, HeldFinite
    <2> HIDE DEF f, R2
    <2> QED
      BY <2>2, <2>3, <2>4, AtMostSize
  <1>10. Cardinality(Held) <= MaxJobs - 1
    <2>1. Cardinality(InPipe) + Cardinality(Held) <= MaxJobs - 1
      BY DEF TokensConserved, Tokens
    <2> QED
      BY <1>2, <2>1
  <1>11. CASE L = {}
    <2>1. Shells = {}
      BY <1>11 DEF Shells, L
    <2> QED
      BY <1>2, <2>1, FS_EmptySet
  <1>12. CASE L # {}
    <2>1. Cardinality(L \ {Root}) = Cardinality(L) - 1 /\ Cardinality(L) \in Nat
      BY <1>1, <1>4, <1>12, FS_RemoveElement, FS_CardinalityType
    <2>2. Cardinality(Shells) \in Nat
      BY <1>6, FS_CardinalityType
    <2> HIDE DEF A, B, R1, R2, R
    <2> QED
      BY <1>2, <1>5, <1>6, <1>7, <1>8, <1>9, <1>10, <2>1, <2>2
  <1> QED
    BY <1>11, <1>12

(* -j of the root bounds the shells that run at the same time under all    *)
(* makes whose ancestors are alive, for any tree of makes.                 *)
THEOREM JobsBounded == Spec => []AtMostMaxJobs
  <1>1. Typed /\ MakeInv /\ CountInv => AtMostMaxJobs
    BY ShellsBounded DEF CountInv
  <1> QED
    BY <1>1, CountAlways, PTL
=============================================================================
