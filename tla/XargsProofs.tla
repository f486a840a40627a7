----------------------------- MODULE XargsProofs -----------------------------
(***************************************************************************)
(* Theorems about Xargs, for any input, any limits and any -P: how many    *)
(* utilities run, what the exit status says of them, how parse_input()     *)
(* uses its buffer, that no argument is lost, repeated or reordered, and   *)
(* what -I replaces.                                                       *)
(***************************************************************************)
EXTENDS Xargs, Induction, FiniteSetTheorems, SequenceTheorems

-----------------------------------------------------------------------------
(* The inductive invariants of the pool of utilities. *)

Kid == [st : {"running", "failing", "zombie", "reaped"},
        res : {"none", "0", "1", "255", "signal"}]

PoolTyped ==
    /\ opt \in Options
    /\ phase \in {"read", "wait", "waitall", "exit"}
    /\ kids \in Seq(Kid) /\ opt.inherited <= Len(kids)
    /\ curprocs \in Int
    /\ childerr \in BOOLEAN
    /\ rval \in {0, 123}
    /\ noexec \subseteq 1..Len(kids)

\* The children that xargs has reaped although it did not start them.
Gone == {k \in 1..opt.inherited : kids[k].st = "reaped"}

(* curprocs is the number of utilities, less the children that were        *)
(* counted as utilities; a new utility is only started below maxprocs.     *)
PoolInv ==
    /\ curprocs = Cardinality(Unreaped) - Cardinality(Gone)
    /\ curprocs <= maxprocs
    /\ phase = "read" => curprocs < maxprocs

Reaped(k) == kids[k].st = "reaped"

(* As long as xargs goes on, the children it has reaped ended well, and    *)
(* rval tells whether one of them failed; it completes when it has reaped  *)
(* them all.  With one utility at a time, childerr is about the only child *)
(* there is.                                                               *)
StatusInv ==
    /\ phase # "exit" =>
         /\ code = NoCode
         /\ \A k \in 1..Len(kids) : Reaped(k) => kids[k].res \in {"0", "1"}
         /\ rval = 123 <=> \E k \in 1..Len(kids) : Reaped(k) /\ kids[k].res = "1"
    /\ maxprocs = 1 /\ opt.inherited = 0 /\ noexec # {} /\ phase # "exit" =>
         phase # "read" /\ childerr /\ Unreaped # {}
    /\ Completed => \A k \in 1..Len(kids) : Reaped(k)
    /\ StatusOfAll
-----------------------------------------------------------------------------
(* What parse_input() does with the pool. *)

PoolStays == UNCHANGED <<kids, curprocs, childerr, rval, noexec>>

\* run() leaves the pool alone, gives up with status 1, or executes the utility.
LEMMA RunCases ==
    ASSUME NEW a, NEW line, phase = "read", Run(a, line) \/ RunFails
    PROVE  \/ PoolStays /\ phase' \in {"read", "waitall"} /\ code' = code
           \/ PoolStays /\ phase' = "exit" /\ code' = 1
           \/ Execute
  BY Zenon DEF Run, RunFails, Declined, Exit, PoolStays, pool

\* A step of parse_input() does the same, after having been reading.
LEMMA ParseCases ==
    ASSUME Parse
    PROVE  /\ phase = "read" /\ opt' = opt
           /\ \/ PoolStays /\ phase' \in {"read", "waitall"} /\ code' = code
              \/ PoolStays /\ phase' = "exit" /\ code' = 1
              \/ Execute
  <1> DEFINE Goal == \/ PoolStays /\ phase' \in {"read", "waitall"} /\ code' = code
                     \/ PoolStays /\ phase' = "exit" /\ code' = 1
                     \/ Execute
  <1>1. phase = "read" /\ opt' = opt
    BY Zenon DEF Parse, ReadChar, ReadBackslash, BackslashAtEOF, ReadQuote, ReadBlank,
       ReadNewline, ReadEOFIdle, ReadEOF, UnterminatedQuote, More, AtEOF
  <1>2. ASSUME NEW pos, AddAny(pos) PROVE Goal
    <2>1. CASE AddCh(pos)
      BY <1>1, <2>1, Zenon DEF AddCh, PoolStays, pool
    <2>2. CASE AddChRefused
      BY <2>2, Zenon DEF AddChRefused, Exit, PoolStays, pool
    <2>3. CASE AddChCarry(pos)
      BY <1>1, <2>3, RunCases DEF AddChCarry
    <2> QED
      BY <1>2, <2>1, <2>2, <2>3 DEF AddAny
  <1>3. ASSUME NEW c, NEW isEOF, EndArg(c, isEOF) PROVE Goal
    <2>1. \/ Exit(1) /\ UNCHANGED pool
          \/ \E a, line : Run(a, line) \/ RunFails
          \/ UNCHANGED <<phase, code, pool>>
      BY <1>3, Zenon DEF EndArg
    <2> QED
      BY <1>1, <2>1, RunCases, Zenon DEF Exit, PoolStays, pool
  <1>4. CASE BackslashAtEOF \/ ReadQuote \/ ReadEOFIdle \/ UnterminatedQuote
    BY <1>1, <1>4, Zenon DEF BackslashAtEOF, ReadQuote, ReadEOFIdle, UnterminatedQuote, Exit,
       PoolStays, pool
  <1> QED
    BY <1>1, <1>2, <1>3, <1>4, Zenon DEF Parse, ReadChar, ReadBackslash, ReadBlank, ReadNewline,
       ReadEOF
-----------------------------------------------------------------------------
(* The children. *)

\* -P is positive, the number of inherited children a number, and the results are known ones.
LEMMA OptionTypes ==
    ASSUME opt \in Options
    PROVE  opt.P \in Nat \ {0} /\ opt.inherited \in Nat /\ maxprocs = opt.P
           /\ Results(opt) \subseteq {"0", "1", "255", "signal"}
  <1>1. /\ {opt.nargs, opt.nline, opt.P} \subseteq Nat \ {0}
        /\ {opt.L, opt.inherited} \subseteq Nat
        /\ Results(opt) \subseteq {"0", "1", "255", "signal"}
    BY XargsAssumption, Zenon
  <1> QED
    BY <1>1 DEF maxprocs

\* The children not yet waited for can be counted.
LEMMA SetsFinite ==
    ASSUME PoolTyped
    PROVE  /\ IsFiniteSet(Unreaped) /\ Cardinality(Unreaped) \in Nat
           /\ IsFiniteSet(Gone) /\ Cardinality(Gone) \in Nat
           /\ Len(kids) \in Nat /\ opt.inherited \in Nat
  <1>1. Len(kids) \in Nat /\ opt.inherited \in Nat
    BY OptionTypes DEF PoolTyped
  <1>2. IsFiniteSet((opt.inherited + 1)..Len(kids)) /\ IsFiniteSet(1..opt.inherited)
    <2>1. opt.inherited + 1 \in Int /\ Len(kids) \in Int /\ 1 \in Int /\ opt.inherited \in Int
      BY <1>1
    <2> QED
      BY <2>1, FS_Interval, Zenon
  <1>3. Unreaped \subseteq (opt.inherited + 1)..Len(kids) /\ Gone \subseteq 1..opt.inherited
    BY DEF Unreaped, Gone
  <1> QED
    BY <1>1, <1>2, <1>3, FS_Subset, FS_CardinalityType

\* One child changes.
LEMMA KidChanges ==
    ASSUME PoolTyped, NEW k \in 1..Len(kids), NEW q \in Kid, kids' = [kids EXCEPT ![k] = q],
           opt' = opt
    PROVE  /\ kids' \in Seq(Kid) /\ Len(kids') = Len(kids) /\ kids'[k] = q
           /\ \A i \in 1..Len(kids) \ {k} : kids'[i] = kids[i]
  BY DEF PoolTyped

\* A child ends: it is still there.
LEMMA EndsSets ==
    ASSUME PoolTyped, NEW k \in 1..Len(kids), NEW q \in Kid, kids' = [kids EXCEPT ![k] = q],
           opt' = opt, kids[k].st # "reaped", q.st # "reaped"
    PROVE  Unreaped' = Unreaped /\ Gone' = Gone
  <1>1. /\ Len(kids') = Len(kids) /\ kids'[k] = q
        /\ \A i \in 1..Len(kids) \ {k} : kids'[i] = kids[i]
    BY KidChanges
  <1>2. opt.inherited \in Nat /\ Len(kids) \in Nat /\ opt.inherited <= Len(kids)
    BY SetsFinite DEF PoolTyped
  <1>3. ASSUME NEW i \in 1..Len(kids) PROVE kids'[i].st = "reaped" <=> kids[i].st = "reaped"
    BY <1>1
  <1>4. Unreaped' = Unreaped
    BY <1>1, <1>2, <1>3 DEF Unreaped
  <1>5. Gone' = Gone
    BY <1>1, <1>2, <1>3 DEF Gone
  <1> QED
    BY <1>4, <1>5

\* A child is reaped: one utility less, or one more that was not one.
LEMMA ReapedSets ==
    ASSUME PoolTyped, NEW k \in 1..Len(kids), NEW q \in Kid, kids' = [kids EXCEPT ![k] = q],
           opt' = opt, kids[k].st # "reaped", q.st = "reaped"
    PROVE  /\ Cardinality(Unreaped') - Cardinality(Gone')
                 = Cardinality(Unreaped) - Cardinality(Gone) - 1
           /\ Unreaped' \subseteq Unreaped
  <1>1. /\ Len(kids') = Len(kids) /\ kids'[k] = q
        /\ \A i \in 1..Len(kids) \ {k} : kids'[i] = kids[i]
    BY KidChanges
  <1>2. /\ opt.inherited \in Nat /\ Len(kids) \in Nat /\ opt.inherited <= Len(kids)
        /\ IsFiniteSet(Unreaped) /\ Cardinality(Unreaped) \in Nat
        /\ IsFiniteSet(Gone) /\ Cardinality(Gone) \in Nat
    BY SetsFinite DEF PoolTyped
  <1>3. CASE k <= opt.inherited
    <2>1. Unreaped' = Unreaped
      BY <1>1, <1>2, <1>3 DEF Unreaped
    <2>2. Gone' = Gone \cup {k} /\ k \notin Gone
      BY <1>1, <1>2, <1>3 DEF Gone
    <2>3. Cardinality(Gone') = Cardinality(Gone) + 1
      BY <1>2, <2>2, FS_AddElement
    <2> QED
      BY <1>2, <2>1, <2>3
  <1>4. CASE ~(k <= opt.inherited)
    <2>1. Gone' = Gone
      BY <1>1, <1>2, <1>4 DEF Gone
    <2>2. Unreaped' = Unreaped \ {k} /\ k \in Unreaped
      BY <1>1, <1>2, <1>4 DEF Unreaped
    <2>3. Cardinality(Unreaped') = Cardinality(Unreaped) - 1
      BY <1>2, <2>2, FS_RemoveElement
    <2> QED
      BY <1>2, <2>1, <2>2, <2>3
  <1> QED
    BY <1>3, <1>4

\* A utility is started.
LEMMA StartedSets ==
    ASSUME PoolTyped, NEW q \in Kid, kids' = Append(kids, q), opt' = opt, q.st # "reaped"
    PROVE  /\ Cardinality(Unreaped') = Cardinality(Unreaped) + 1
           /\ Gone' = Gone
           /\ Unreaped' # {}
  <1>1. /\ Len(kids') = Len(kids) + 1 /\ kids'[Len(kids) + 1] = q
        /\ \A i \in 1..Len(kids) : kids'[i] = kids[i]
    BY DEF PoolTyped
  <1>2. /\ opt.inherited \in Nat /\ Len(kids) \in Nat /\ opt.inherited <= Len(kids)
        /\ IsFiniteSet(Unreaped) /\ Cardinality(Unreaped) \in Nat
    BY SetsFinite DEF PoolTyped
  <1>3. Unreaped' = Unreaped \cup {Len(kids) + 1} /\ Len(kids) + 1 \notin Unreaped
    BY <1>1, <1>2 DEF Unreaped
  <1>4. Gone' = Gone
    BY <1>1, <1>2 DEF Gone
  <1> QED
    BY <1>2, <1>3, <1>4, FS_AddElement

\* Nobody is left when all have been reaped.
LEMMA AllReaped ==
    ASSUME PoolTyped, \A k \in 1..Len(kids) : kids[k].st = "reaped"
    PROVE  Unreaped = {} /\ Cardinality(Unreaped) = 0
  <1>1. Unreaped = {}
    BY SetsFinite DEF Unreaped
  <1> QED
    BY <1>1, FS_EmptySet
-----------------------------------------------------------------------------
(* The steps of the pool. *)

\* A child just started has not been waited for and has no result.
LEMMA StartedKid ==
    ASSUME NEW ok \in BOOLEAN
    PROVE  Started(ok) \in Kid /\ Started(ok).st # "reaped" /\ Started(ok).res = "none"
  BY DEF Started, Kid

\* What Execute makes of the pool.
LEMMA ExecuteFacts ==
    ASSUME PoolTyped, Execute, opt' = opt
    PROVE  \E ok \in BOOLEAN :
              /\ childerr' = ~ok
              /\ kids' = Append(kids, Started(ok))
              /\ noexec' = IF ok THEN noexec ELSE noexec \cup {Len(kids) + 1}
              /\ curprocs' = curprocs + 1 /\ phase' = "wait"
              /\ UNCHANGED <<rval, code>>
              /\ PoolTyped'
  <1>1. PICK ok \in BOOLEAN :
              /\ childerr' = ~ok
              /\ kids' = Append(kids, Started(ok))
              /\ noexec' = IF ok THEN noexec ELSE noexec \cup {Len(kids) + 1}
    <2>1. ASSUME NEW ok \in IF "exec" \in Faults(opt) THEN BOOLEAN ELSE {TRUE} PROVE ok \in BOOLEAN
      OBVIOUS
    <2> QED
      BY <2>1, Zenon DEF Execute
  <1>2. curprocs' = curprocs + 1 /\ phase' = "wait" /\ UNCHANGED <<rval, code>>
    BY Zenon DEF Execute
  <1>3. kids' \in Seq(Kid) /\ Len(kids') = Len(kids) + 1 /\ Len(kids) \in Nat
    BY <1>1, StartedKid DEF PoolTyped
  <1>4. opt'.inherited <= Len(kids')
    BY <1>3, SetsFinite DEF PoolTyped
  <1>5. noexec' \subseteq 1..Len(kids')
    <2>1. noexec \subseteq 1..Len(kids) /\ 1..Len(kids) \subseteq 1..Len(kids')
          /\ Len(kids) + 1 \in 1..Len(kids')
      BY <1>3 DEF PoolTyped
    <2> QED
      BY <1>1, <2>1, Zenon
  <1>6. opt' \in Options /\ rval' \in {0, 123} /\ childerr' \in BOOLEAN
        /\ phase' \in {"read", "wait", "waitall", "exit"}
    BY <1>1, <1>2, Zenon DEF PoolTyped
  <1>7. curprocs' \in Int
    BY <1>2 DEF PoolTyped
  <1>8. PoolTyped'
    BY <1>3, <1>4, <1>5, <1>6, <1>7, Zenon DEF PoolTyped
  <1> QED
    BY <1>1, <1>2, <1>8, Zenon

\* What WaitReap makes of it.
LEMMA WaitReapFacts ==
    ASSUME PoolTyped, WaitReap
    PROVE  /\ opt' = opt /\ UNCHANGED <<childerr, noexec>>
           /\ curprocs' = curprocs - 1
           /\ phase \in {"wait", "waitall"}
           /\ \/ phase' = phase /\ code' = code /\ ~childerr
              \/ phase' = "exit" /\ code' \in {124, 125, 126}
           /\ PoolTyped'
           /\ \E k \in 1..Len(kids), q \in Kid :
                 /\ kids' = [kids EXCEPT ![k] = q]
                 /\ kids[k].st = "zombie" /\ q.st = "reaped" /\ q.res = kids[k].res
                 /\ phase' # "exit" =>
                      /\ q.res \in {"0", "1"}
                      /\ rval' = IF q.res = "1" THEN 123 ELSE rval
  <1>1. PICK k \in 1..Len(kids) :
          /\ kids[k].st = "zombie"
          /\ kids' = [kids EXCEPT ![k].st = "reaped"]
          /\ rval' = IF ~childerr /\ kids[k].res = "1" THEN 123 ELSE rval
          /\ \/ childerr /\ phase' = "exit" /\ code' = 126
             \/ ~childerr /\ kids[k].res = "255" /\ phase' = "exit" /\ code' = 124
             \/ ~childerr /\ kids[k].res = "signal" /\ phase' = "exit" /\ code' = 125
             \/ ~childerr /\ kids[k].res \in {"0", "1"} /\ UNCHANGED <<phase, code>>
    BY ZenonT(60) DEF WaitReap, Exit
  <1>2. /\ opt' = opt /\ UNCHANGED <<childerr, noexec>> /\ curprocs' = curprocs - 1
        /\ phase \in {"wait", "waitall"}
    BY Zenon DEF WaitReap, Waiting
  <1> DEFINE q == [kids[k] EXCEPT !.st = "reaped"]
  <1>3. kids[k] \in Kid
    BY DEF PoolTyped
  <1>4. q \in Kid /\ q.st = "reaped" /\ q.res = kids[k].res
    BY <1>3, Zenon DEF Kid
  <1>5. kids' = [kids EXCEPT ![k] = q]
    BY <1>1
  <1> HIDE DEF q
  <1>6. kids' \in Seq(Kid) /\ Len(kids') = Len(kids)
    BY <1>2, <1>4, <1>5, KidChanges
  <1>7. /\ curprocs' \in Int /\ opt' \in Options /\ childerr' \in BOOLEAN
        /\ noexec' \subseteq 1..Len(kids') /\ opt'.inherited <= Len(kids')
    BY <1>2, <1>6 DEF PoolTyped
  <1>8. rval' \in {0, 123} /\ phase' \in {"read", "wait", "waitall", "exit"}
    BY <1>1, <1>2, Zenon DEF PoolTyped
  <1>9. PoolTyped'
    BY <1>6, <1>7, <1>8, Zenon DEF PoolTyped
  <1>10. phase' # "exit" => /\ q.res \in {"0", "1"}
                            /\ rval' = IF q.res = "1" THEN 123 ELSE rval
    BY <1>1, <1>4, Zenon
  <1>11. \/ phase' = phase /\ code' = code /\ ~childerr
         \/ phase' = "exit" /\ code' \in {124, 125, 126}
    BY <1>1, Zenon
  <1> QED
    BY <1>1, <1>2, <1>4, <1>5, <1>9, <1>10, <1>11, Zenon

\* What ChildExit makes of it.
LEMMA ChildExitFacts ==
    ASSUME PoolTyped, ChildExit
    PROVE  /\ UNCHANGED <<opt, phase, code, curprocs, childerr, rval, noexec>>
           /\ PoolTyped'
           /\ \E k \in 1..Len(kids), q \in Kid :
                 /\ kids' = [kids EXCEPT ![k] = q]
                 /\ kids[k].st # "reaped" /\ q.st = "zombie"
  <1>1. UNCHANGED <<opt, phase, code, curprocs, childerr, rval, noexec>>
    BY Zenon DEF ChildExit
  <1>2. PICK k \in 1..Len(kids), r \in Results(opt) \cup {"1"} :
           /\ kids[k].st \in {"running", "failing"}
           /\ kids' = [kids EXCEPT ![k] = [st |-> "zombie", res |-> r]]
    BY Zenon DEF ChildExit
  <1> DEFINE q == [st |-> "zombie", res |-> r]
  <1>3. r \in {"0", "1", "255", "signal"}
    BY OptionTypes DEF PoolTyped
  <1>4. q \in Kid /\ q.st = "zombie" /\ kids[k].st # "reaped"
    BY <1>2, <1>3 DEF Kid
  <1>5. kids' = [kids EXCEPT ![k] = q]
    BY <1>2
  <1> HIDE DEF q
  <1>6. kids' \in Seq(Kid) /\ Len(kids') = Len(kids)
    BY <1>1, <1>4, <1>5, KidChanges
  <1>7. PoolTyped'
    BY <1>1, <1>6, Zenon DEF PoolTyped
  <1> QED
    BY <1>1, <1>4, <1>5, <1>7, Zenon

\* What WaitDone makes of it.
LEMMA WaitDoneFacts ==
    ASSUME PoolTyped, WaitDone
    PROVE  /\ UNCHANGED <<opt, kids, curprocs, childerr, rval, noexec>>
           /\ PoolTyped'
           /\ \/ phase = "waitall" /\ phase' = "exit" /\ code' = rval
                 /\ \A k \in 1..Len(kids) : kids[k].st = "reaped"
              \/ /\ phase = "wait" /\ phase' \in {"read", "waitall"} /\ code' = code
                 /\ curprocs < maxprocs \/ \A k \in 1..Len(kids) : kids[k].st = "reaped"
  <1>1. UNCHANGED <<opt, kids, curprocs, childerr, rval, noexec>>
    BY Zenon DEF WaitDone, pool
  <1>2. phase \in {"wait", "waitall"}
    BY Zenon DEF WaitDone, Waiting
  <1>3. CASE phase = "waitall"
    <2>1. ~NoHang
      BY <1>3 DEF NoHang
    <2>2. phase' = "exit" /\ code' = rval /\ \A k \in 1..Len(kids) : kids[k].st = "reaped"
      BY <1>3, <2>1, Zenon DEF WaitDone, Exit
    <2>3. PoolTyped'
      BY <1>1, <2>2, Zenon DEF PoolTyped
    <2> QED
      BY <1>1, <1>3, <2>2, <2>3
  <1>4. CASE phase = "wait"
    <2>1. phase' \in {"read", "waitall"} /\ code' = code
      BY <1>4, Zenon DEF WaitDone
    <2>2. curprocs < maxprocs \/ \A k \in 1..Len(kids) : kids[k].st = "reaped"
      BY Zenon DEF WaitDone, NoHang
    <2>3. PoolTyped'
      BY <1>1, <2>1, Zenon DEF PoolTyped
    <2> QED
      BY <1>1, <1>4, <2>1, <2>2, <2>3
  <1> QED
    BY <1>2, <1>3, <1>4
-----------------------------------------------------------------------------
(* The invariants. *)

\* Children that do not change are counted alike.
LEMMA StillSets ==
    ASSUME UNCHANGED <<opt, kids>>
    PROVE  Unreaped' = Unreaped /\ Gone' = Gone /\ maxprocs' = maxprocs
  BY DEF Unreaped, Gone, maxprocs

\* Every step keeps the pool well typed.
LEMMA PoolTypedStep ==
    ASSUME PoolTyped, Next
    PROVE  PoolTyped'
  <1>1. CASE Parse
    <2>1. CASE Execute
      BY <1>1, <2>1, ParseCases, ExecuteFacts
    <2>2. CASE ~Execute
      <3>1. PoolStays /\ phase' \in {"read", "waitall", "exit"} /\ opt' = opt
        BY <1>1, <2>2, ParseCases
      <3> QED
        BY <3>1, Zenon DEF PoolStays, PoolTyped
    <2> QED
      BY <2>1, <2>2
  <1> QED
    BY <1>1, WaitReapFacts, ChildExitFacts, WaitDoneFacts DEF Next

\* Every step keeps the count curprocs, within -P.
LEMMA PoolInvStep ==
    ASSUME PoolTyped, PoolInv, Next
    PROVE  PoolInv'
  <1>0. /\ Cardinality(Unreaped) \in Nat /\ Cardinality(Gone) \in Nat /\ curprocs \in Int
        /\ maxprocs \in Nat \ {0} /\ maxprocs = opt.P
    BY SetsFinite, OptionTypes DEF PoolTyped
  <1>1. ASSUME opt' = opt PROVE maxprocs' = maxprocs
    BY <1>1 DEF maxprocs
  <1>2. CASE Parse
    <2>1. phase = "read" /\ opt' = opt
      BY <1>2, ParseCases
    <2>2. CASE Execute
      <3>1. PICK ok \in BOOLEAN : kids' = Append(kids, Started(ok))
                                   /\ curprocs' = curprocs + 1 /\ phase' = "wait"
        BY <2>1, <2>2, ExecuteFacts
      <3>2. Cardinality(Unreaped') = Cardinality(Unreaped) + 1 /\ Gone' = Gone
        BY <2>1, <3>1, StartedKid, StartedSets
      <3> QED
        BY <1>0, <1>1, <2>1, <3>1, <3>2 DEF PoolInv
    <2>3. CASE ~Execute
      <3>1. PoolStays
        BY <1>2, <2>3, ParseCases
      <3>2. UNCHANGED <<opt, kids, curprocs>>
        BY <2>1, <3>1 DEF PoolStays
      <3> QED
        BY <2>1, <3>2, StillSets DEF PoolInv
    <2> QED
      BY <2>2, <2>3
  <1>3. CASE WaitReap
    <2>1. /\ opt' = opt /\ curprocs' = curprocs - 1 /\ phase' # "read"
      BY <1>3, WaitReapFacts
    <2>2. PICK k \in 1..Len(kids), q \in Kid :
                 /\ kids' = [kids EXCEPT ![k] = q]
                 /\ kids[k].st = "zombie" /\ q.st = "reaped"
      BY <1>3, WaitReapFacts, Zenon
    <2>3. kids[k].st # "reaped"
      BY <2>2
    <2>4. Cardinality(Unreaped') - Cardinality(Gone')
             = Cardinality(Unreaped) - Cardinality(Gone) - 1
      BY <2>1, <2>2, <2>3, ReapedSets
    <2> QED
      BY <1>0, <1>1, <2>1, <2>4 DEF PoolInv
  <1>4. CASE WaitDone
    <2>1. UNCHANGED <<opt, kids, curprocs>> /\ (phase = "read" => FALSE)
      BY <1>4, WaitDoneFacts
    <2>2. curprocs < maxprocs \/ \A k \in 1..Len(kids) : kids[k].st = "reaped"
      BY <1>4, WaitDoneFacts, Zenon
    <2>3. curprocs < maxprocs
      <3>1. CASE \A k \in 1..Len(kids) : kids[k].st = "reaped"
        <4>1. Cardinality(Unreaped) = 0
          BY <3>1, AllReaped
        <4> QED
          BY <1>0, <4>1 DEF PoolInv
      <3> QED
        BY <2>2, <3>1
    <2> QED
      BY <1>0, <2>1, <2>3, StillSets DEF PoolInv
  <1>5. CASE ChildExit
    <2>1. UNCHANGED <<opt, phase, curprocs>>
      BY <1>5, ChildExitFacts
    <2>2. PICK k \in 1..Len(kids), q \in Kid :
                 kids' = [kids EXCEPT ![k] = q] /\ kids[k].st # "reaped" /\ q.st = "zombie"
      BY <1>5, ChildExitFacts, Zenon
    <2>3. Unreaped' = Unreaped /\ Gone' = Gone
      BY <2>1, <2>2, EndsSets
    <2> QED
      BY <1>1, <2>1, <2>3 DEF PoolInv
  <1> QED
    BY <1>2, <1>3, <1>4, <1>5 DEF Next

\* The pool is empty when xargs starts.
LEMMA PoolInit ==
    ASSUME Init
    PROVE  PoolTyped /\ PoolInv /\ StatusInv
  <1>1. /\ opt \in Options /\ phase = "read" /\ curprocs = 0 /\ childerr = FALSE /\ rval = 0
        /\ code = NoCode /\ noexec = {}
        /\ kids = [k \in 1..opt.inherited |-> Started(TRUE)]
    BY Zenon DEF Init
  <1>2. opt.P \in Nat \ {0} /\ opt.inherited \in Nat /\ maxprocs = opt.P
    BY <1>1, OptionTypes
  <1>3. kids \in Seq(Kid) /\ Len(kids) = opt.inherited
    <2>1. kids \in [1..opt.inherited -> Kid]
      BY <1>1, StartedKid
    <2> QED
      BY <1>2, <2>1
  <1>4. PoolTyped
    <2>1. curprocs \in Int /\ opt.inherited <= Len(kids)
      BY <1>1, <1>2, <1>3
    <2> QED
      BY <1>1, <1>3, <2>1, Zenon DEF PoolTyped
  <1>5. \A k \in 1..Len(kids) : kids[k].st # "reaped"
    BY <1>1, <1>3, StartedKid
  <1>6. Unreaped = {} /\ Gone = {}
    BY <1>2, <1>3, <1>5 DEF Unreaped, Gone
  <1>7. PoolInv
    BY <1>1, <1>2, <1>6, FS_EmptySet DEF PoolInv
  <1>8. ~Completed
    BY <1>1 DEF Completed, NoCode
  <1>9. StatusInv
    <2>1. rval # 123
      BY <1>1
    <2> QED
      BY <1>1, <1>5, <1>8, <2>1, Zenon DEF StatusInv, StatusOfAll, Reaped
  <1> QED
    BY <1>4, <1>7, <1>9

\* Every step keeps what rval and childerr say of the children waited for.
LEMMA StatusInvStep ==
    ASSUME PoolTyped, PoolInv, StatusInv, Next
    PROVE  StatusInv'
  <1>0. /\ Cardinality(Unreaped) \in Nat /\ Cardinality(Gone) \in Nat /\ curprocs \in Int
        /\ maxprocs \in Nat \ {0} /\ maxprocs = opt.P /\ Len(kids) \in Nat
    BY SetsFinite, OptionTypes DEF PoolTyped
  <1>1. ASSUME opt' = opt PROVE maxprocs' = maxprocs
    BY <1>1 DEF maxprocs
  <1>2. CASE Parse
    <2>1. phase = "read" /\ opt' = opt /\ code = NoCode /\ phase # "exit"
      BY <1>2, ParseCases DEF StatusInv
    <2>2. maxprocs = 1 /\ opt.inherited = 0 => noexec = {}
      BY <2>1 DEF StatusInv
    <2>3. CASE Execute
      <3>1. PICK ok \in BOOLEAN :
              /\ childerr' = ~ok
              /\ kids' = Append(kids, Started(ok))
              /\ noexec' = IF ok THEN noexec ELSE noexec \cup {Len(kids) + 1}
              /\ phase' = "wait" /\ UNCHANGED <<rval, code>>
        BY <2>1, <2>3, ExecuteFacts
      <3>2. Unreaped' # {}
        BY <2>1, <3>1, StartedKid, StartedSets
      <3>3. /\ Len(kids') = Len(kids) + 1 /\ kids'[Len(kids) + 1] = Started(ok)
            /\ \A i \in 1..Len(kids) : kids'[i] = kids[i]
        BY <3>1 DEF PoolTyped
      <3>4. \A i \in 1..Len(kids') : kids'[i].st = "reaped" => i \in 1..Len(kids)
        BY <1>0, <3>3, StartedKid
      <3>5. \A i \in 1..Len(kids) : i \in 1..Len(kids')
        BY <1>0, <3>3
      <3>6. ~Completed'
        BY <2>1, <3>1 DEF Completed, NoCode
      <3>7. /\ \A k \in 1..Len(kids') : Reaped(k)' => kids'[k].res \in {"0", "1"}
            /\ rval' = 123 <=> \E k \in 1..Len(kids') : Reaped(k)' /\ kids'[k].res = "1"
        BY <2>1, <3>1, <3>3, <3>4, <3>5, ZenonT(60) DEF StatusInv, Reaped
      <3>8. maxprocs' = 1 /\ opt'.inherited = 0 /\ noexec' # {} => childerr'
        BY <1>1, <2>1, <2>2, <3>1, Zenon
      <3> QED
        BY <2>1, <3>1, <3>2, <3>6, <3>7, <3>8 DEF StatusInv, StatusOfAll
    <2>4. CASE ~Execute
      <3>1. /\ UNCHANGED <<opt, kids, rval, noexec>>
            /\ \/ phase' \in {"read", "waitall"} /\ code' = code
               \/ phase' = "exit" /\ code' = 1
        BY <1>2, <2>1, <2>4, ParseCases DEF PoolStays
      <3>2. ~Completed'
        BY <2>1, <3>1 DEF Completed, NoCode
      <3>3. UNCHANGED maxprocs
        BY <1>1, <3>1
      <3> QED
        BY <2>1, <2>2, <3>1, <3>2, <3>3 DEF StatusInv, StatusOfAll, Reaped
    <2> QED
      BY <2>3, <2>4
  <1>3. CASE WaitReap
    <2>1. /\ opt' = opt /\ UNCHANGED <<childerr, noexec>> /\ phase \in {"wait", "waitall"}
          /\ \/ phase' = phase /\ code' = code /\ ~childerr
             \/ phase' = "exit" /\ code' \in {124, 125, 126}
      BY <1>3, WaitReapFacts, Zenon
    <2>2. PICK k \in 1..Len(kids), q \in Kid :
                 /\ kids' = [kids EXCEPT ![k] = q]
                 /\ kids[k].st = "zombie" /\ q.st = "reaped" /\ q.res = kids[k].res
                 /\ phase' # "exit" =>
                      /\ q.res \in {"0", "1"}
                      /\ rval' = IF q.res = "1" THEN 123 ELSE rval
      BY <1>3, WaitReapFacts, Zenon
    <2>3. phase # "exit" /\ code = NoCode
      BY <2>1 DEF StatusInv
    <2>4. ~Completed'
      BY <2>1, <2>3 DEF Completed, NoCode
    <2>5. CASE phase' = "exit"
      BY <2>4, <2>5 DEF StatusInv, StatusOfAll
    <2>6. CASE phase' # "exit"
      <3>1. /\ Len(kids') = Len(kids) /\ kids'[k] = q
            /\ \A i \in 1..Len(kids) \ {k} : kids'[i] = kids[i]
        BY <2>1, <2>2, KidChanges
      <3>2. \A i \in 1..Len(kids') : Reaped(i)' => kids'[i].res \in {"0", "1"}
        BY <2>2, <2>3, <2>6, <3>1, ZenonT(60) DEF StatusInv, Reaped
      <3>3. rval' = 123 <=> \E i \in 1..Len(kids') : Reaped(i)' /\ kids'[i].res = "1"
        <4>0. \A i \in 1..Len(kids) : Reaped(i) => i # k
          BY <2>2 DEF Reaped
        <4>1. rval = 123 <=> \E i \in 1..Len(kids) : Reaped(i) /\ kids[i].res = "1"
          BY <2>3 DEF StatusInv
        <4>2. CASE q.res = "1"
          BY <2>2, <2>6, <3>1, <4>2, ZenonT(60) DEF Reaped
        <4>3. CASE q.res # "1"
          <5>1. rval' = rval
            BY <2>2, <2>6, <4>3, Zenon
          <5>2. ASSUME NEW i \in 1..Len(kids)
                PROVE  Reaped(i)' /\ kids'[i].res = "1" <=> Reaped(i) /\ kids[i].res = "1"
            BY <2>2, <3>1, <4>0, <4>3, Zenon DEF Reaped
          <5> QED
            BY <3>1, <4>1, <5>1, <5>2, ZenonT(60)
        <4> QED
          BY <4>2, <4>3
      <3>4. ~(maxprocs' = 1 /\ opt'.inherited = 0 /\ noexec' # {})
        BY <1>1, <2>1, <2>3, <2>6, Zenon DEF StatusInv
      <3> QED
        BY <2>1, <2>3, <2>4, <2>6, <3>2, <3>3, <3>4 DEF StatusInv, StatusOfAll
    <2> QED
      BY <2>5, <2>6
  <1>4. CASE WaitDone
    <2>1. UNCHANGED <<opt, kids, curprocs, childerr, rval, noexec>>
      BY <1>4, WaitDoneFacts
    <2>2. /\ Unreaped' = Unreaped /\ maxprocs' = maxprocs
      BY <2>1, StillSets
    <2>3. \/ phase = "waitall" /\ phase' = "exit" /\ code' = rval
             /\ \A k \in 1..Len(kids) : kids[k].st = "reaped"
          \/ /\ phase = "wait" /\ phase' \in {"read", "waitall"} /\ code' = code
             /\ curprocs < maxprocs \/ \A k \in 1..Len(kids) : kids[k].st = "reaped"
      BY <1>4, WaitDoneFacts, Zenon
    <2>4. phase # "exit" /\ code = NoCode
      BY <2>3 DEF StatusInv
    <2>5. maxprocs = 1 /\ opt.inherited = 0 => noexec = {}
      <3>1. SUFFICES ASSUME maxprocs = 1, opt.inherited = 0, Unreaped # {} PROVE FALSE
        BY <2>4 DEF StatusInv
      <3>2. Cardinality(Unreaped) # 0
        BY <3>1, SetsFinite, FS_EmptySet
      <3>3. Cardinality(Gone) = 0
        <4>1. Gone = {}
          BY <3>1 DEF Gone
        <4> QED
          BY <4>1, FS_EmptySet
      <3>4. ~(curprocs < maxprocs)
        BY <1>0, <3>1, <3>2, <3>3 DEF PoolInv
      <3>5. ~\A k \in 1..Len(kids) : kids[k].st = "reaped"
        BY <3>1, AllReaped
      <3> QED
        BY <2>3, <3>4, <3>5, Zenon
    <2>6. CASE phase' = "exit"
      <3>1. code' = rval /\ \A k \in 1..Len(kids) : kids[k].st = "reaped"
        BY <2>3, <2>6, Zenon
      <3>2. Unreaped = {}
        BY <3>1, AllReaped
      <3>3. /\ \A k \in 1..Len(kids) : kids[k].res \in {"0", "1"}
            /\ rval = 123 <=> \E k \in 1..Len(kids) : kids[k].res = "1"
        BY <2>4, <3>1, Zenon DEF StatusInv, Reaped
      <3>4. StatusOfAll'
        BY <2>1, <2>2, <2>5, <3>1, <3>2, <3>3, Zenon DEF StatusOfAll
      <3>5. \A k \in 1..Len(kids') : Reaped(k)'
        BY <2>1, <3>1 DEF Reaped
      <3> QED
        BY <2>6, <3>4, <3>5 DEF StatusInv
    <2>7. CASE phase' # "exit"
      <3>1. code' = code
        BY <2>3, <2>7
      <3>2. ~Completed'
        BY <2>4, <3>1 DEF Completed, NoCode
      <3> QED
        BY <2>1, <2>2, <2>4, <2>5, <3>1, <3>2, Zenon DEF StatusInv, StatusOfAll, Reaped
    <2> QED
      BY <2>6, <2>7
  <1>5. CASE ChildExit
    <2>1. UNCHANGED <<opt, phase, code, childerr, rval, noexec>>
      BY <1>5, ChildExitFacts
    <2>2. PICK k \in 1..Len(kids), q \in Kid :
                 kids' = [kids EXCEPT ![k] = q] /\ kids[k].st # "reaped" /\ q.st = "zombie"
      BY <1>5, ChildExitFacts, Zenon
    <2>3. Unreaped' = Unreaped /\ maxprocs' = maxprocs
      BY <1>1, <2>1, <2>2, EndsSets
    <2>4. /\ Len(kids') = Len(kids) /\ kids'[k] = q
          /\ \A i \in 1..Len(kids) \ {k} : kids'[i] = kids[i]
      BY <2>1, <2>2, KidChanges
    <2>5. ~Completed
      BY <2>2 DEF StatusInv, Reaped
    <2>6. ~Completed'
      BY <2>1, <2>5 DEF Completed
    <2>7. q.st # "reaped"
      BY <2>2
    <2>8. \A i \in 1..Len(kids) : (Reaped(i)' <=> Reaped(i)) /\ (Reaped(i) => kids'[i] = kids[i])
      BY <2>2, <2>4, <2>7, Zenon DEF Reaped
    <2> QED
      BY <2>1, <2>3, <2>4, <2>6, <2>8, Zenon DEF StatusInv, StatusOfAll
  <1> QED
    BY <1>2, <1>3, <1>4, <1>5 DEF Next

\* A step that changes nothing keeps the invariants of the pool.
LEMMA PoolStutter ==
    ASSUME UNCHANGED vars
    PROVE  /\ PoolTyped => PoolTyped'
           /\ PoolInv => PoolInv'
           /\ StatusInv => StatusInv'
  <1>1. UNCHANGED <<opt, phase, code, kids, curprocs, childerr, rval, noexec>>
    BY DEF vars, pool
  <1>2. Unreaped' = Unreaped /\ Gone' = Gone /\ maxprocs' = maxprocs
    BY <1>1, StillSets
  <1> QED
    BY <1>1, <1>2, ZenonT(60) DEF PoolTyped, PoolInv, StatusInv, StatusOfAll, Completed, Reaped

\* The invariants of the pool hold in every reachable state.
LEMMA PoolAlways == Spec => [](PoolTyped /\ PoolInv /\ StatusInv)
  <1> DEFINE I == PoolTyped /\ PoolInv /\ StatusInv
  <1>1. Init => I
    BY PoolInit
  <1>2. I /\ [Next]_vars => I'
    BY PoolTypedStep, PoolInvStep, StatusInvStep, PoolStutter
  <1> QED
    BY <1>1, <1>2, PTL DEF Spec
-----------------------------------------------------------------------------
(* The theorems about the pool. *)

(* -P: never more utilities at a time than maxprocs, but for the children  *)
(* that xargs was started with and has taken for utilities when it reaped  *)
(* them, in whatever order they all end.                                   *)
THEOREM PoolBounded == Spec => []AtMostMaxProcs
  <1>1. PoolTyped /\ PoolInv /\ StatusInv => AtMostMaxProcs
    <2> SUFFICES ASSUME PoolTyped, PoolInv
                 PROVE  Cardinality(Unreaped) <= maxprocs + Cardinality(Gone)
      BY DEF AtMostMaxProcs, Gone
    <2>1. Cardinality(Unreaped) \in Nat /\ Cardinality(Gone) \in Nat /\ maxprocs \in Nat
      BY SetsFinite, OptionTypes DEF PoolTyped
    <2> QED
      BY <2>1 DEF PoolInv
  <1> QED
    BY <1>1, PoolAlways, PTL

(* xargs ends with 0 or 123 only when every child has been reaped, and     *)
(* with 123 exactly if one of them ended with 1; and not at all if an exec *)
(* failed and utilities run one at a time.                                 *)
THEOREM StatusTrue == Spec => []StatusOfAll
  <1>1. PoolTyped /\ PoolInv /\ StatusInv => StatusOfAll
    BY DEF StatusInv
  <1> QED
    BY <1>1, PoolAlways, PTL

-----------------------------------------------------------------------------
(* The buffer. *)

\* Where the k-th of the arguments a ends, that is, where the next one begins.
EndOf(a, e, k) == IF k < Len(a) THEN a[k + 1] ELSE e

(* The arguments a lie in b one after the other, each with its '\0', from  *)
(* the first byte up to e.                                                 *)
Packed(b, a, e) ==
    /\ IF a = <<>> THEN e = 0 ELSE a[1] = 0
    /\ \A k \in 1..Len(a) :
          /\ a[k] < EndOf(a, e, k) /\ EndOf(a, e, k) <= e
          /\ b[EndOf(a, e, k) - 1] = Nul
          /\ \A i \in a[k]..(EndOf(a, e, k) - 2) : b[i] # Nul

\* An empty inpline has no bytes; else there is room for two more.
LineInv(line) ==
    /\ line.text \in Seq(Int) /\ line.size \in Nat
    /\ line.size > 0 => Len(line.text) + 2 <= line.size

(* The complete arguments and then the begun one fill the buffer up to p,  *)
(* and there is room for the begun one's '\0'.                             *)
BufferInv ==
    /\ opt \in Options
    /\ at \in Nat
    /\ buf \in [0..opt.nline -> Int]
    /\ p \in Nat /\ argp \in Nat /\ args \in Seq(Nat)
    /\ argp <= p /\ p <= ebp
    /\ Len(args) < opt.nargs
    /\ \A k \in argp..(p - 1) : buf[k] # Nul
    /\ Packed(buf, args, argp)
    /\ LineInv(inpline)

\* The types of the options.
LEMMA Limits ==
    ASSUME opt \in Options
    PROVE  opt.nargs \in Nat \ {0} /\ opt.nline \in Nat \ {0} /\ ebp = opt.nline - 1
  <1>1. {opt.nargs, opt.nline, opt.P} \subseteq Nat \ {0}
    BY XargsAssumption, Zenon
  <1> QED
    BY <1>1 DEF ebp

\* The bytes from offset o on, up to but not including offset e.
Between(b, o, e) == [k \in 1..(e - o) |-> b[o + k - 1]]

\* A string ends at the first '\0'.
LEMMA StringEnds ==
    ASSUME NEW n \in Nat, NEW b \in [0..n -> Int], NEW o \in Nat, NEW e \in Nat,
           o <= e, e <= n, b[e] = Nul, \A i \in o..(e - 1) : b[i] # Nul
    PROVE  /\ StringAt(b, o) = Between(b, o, e)
           /\ StringAt(b, o) \in Seq(Int)
           /\ Len(StringAt(b, o)) = e - o
  <1> DEFINE Ends(d) == o <= d /\ b[d] = Nul /\ \A i \in o..(d - 1) : b[i] # Nul
             end == CHOOSE d \in DOMAIN b : Ends(d)
  <1>1. e \in DOMAIN b /\ Ends(e)
    OBVIOUS
  <1>2. end \in 0..n /\ Ends(end)
    <2>1. end \in DOMAIN b /\ Ends(end)
      <3> HIDE DEF Ends
      <3> QED
        BY <1>1, Zenon
    <2> QED
      BY <2>1
  <1>3. end = e
    <2> HIDE DEF end
    <2> QED
      BY <1>1, <1>2
  <1>4. StringAt(b, o) = [k \in 1..(end - o) |-> b[o + k - 1]]
    BY Zenon DEF StringAt
  <1>5. [k \in 1..(e - o) |-> b[o + k - 1]] \in [1..(e - o) -> Int]
    OBVIOUS
  <1> HIDE DEF end
  <1>6. StringAt(b, o) = [k \in 1..(e - o) |-> b[o + k - 1]]
    BY <1>3, <1>4
  <1> QED
    BY <1>5, <1>6, SMTT(60) DEF Between

(* The bytes of the arguments in the buffer are those up to the end of the *)
(* last one: they lie there without gaps.                                  *)
LEMMA BytesPacked ==
    ASSUME opt.nline \in Nat, NEW b \in [0..opt.nline -> Int], NEW a \in Seq(Nat),
           NEW e \in Nat, e <= opt.nline + 1, Packed(b, a, e)
    PROVE  Bytes(Strings(b, a)) = e /\ Len(Strings(b, a)) = Len(a)
  <1> DEFINE n == Len(a)
             s == Strings(b, a)
             E(k) == EndOf(a, e, k)
             g == [k \in 0..n |-> IF k = 0 THEN 0 ELSE E(k)]
             Def(f) == f = [k \in 0..Len(s) |-> IF k = 0 THEN 0 ELSE f[k - 1] + Len(s[k]) + 1]
             sum == CHOOSE f : Def(f)
  <1>1. s = [k \in 1..n |-> StringAt(b, a[k])] /\ n \in Nat
    BY DEF Strings
  <1>2. Len(s) = n
    BY <1>1
  <1>3. \A k \in 1..n : E(k) \in Nat /\ a[k] \in Nat /\ Len(s[k]) = E(k) - 1 - a[k]
    <2> TAKE k \in 1..n
    <2>1. a[k] \in Nat /\ E(k) \in Nat
      BY SMTT(60) DEF EndOf
    <2>2. /\ a[k] < E(k) /\ E(k) <= e /\ b[E(k) - 1] = Nul
          /\ \A i \in a[k]..(E(k) - 2) : b[i] # Nul
      BY DEF Packed
    <2> DEFINE d == E(k) - 1
    <2>3. /\ d \in Nat /\ a[k] <= d /\ d <= opt.nline /\ b[d] = Nul
          /\ \A i \in a[k]..(d - 1) : b[i] # Nul
      BY <2>1, <2>2, SMTT(60)
    <2> HIDE DEF E, d
    <2>4. Len(StringAt(b, a[k])) = d - a[k]
      BY <2>1, <2>3, StringEnds
    <2> QED
      BY <1>1, <2>1, <2>4 DEF d
  <1>4. \A k \in 1..n : a[k] = g[k - 1]
    BY <1>1 DEF Packed, EndOf
  <1>5. Def(g)
    <2>1. \A k \in 1..n : E(k) = g[k - 1] + Len(s[k]) + 1
      <3> TAKE k \in 1..n
      <3>1. E(k) \in Nat /\ a[k] \in Nat /\ Len(s[k]) = E(k) - 1 - a[k] /\ a[k] = g[k - 1]
        BY <1>3, <1>4
      <3> HIDE DEF E, g, s
      <3> QED
        BY <3>1, SMTT(60)
    <2>2. g = [k \in 0..n |-> IF k = 0 THEN 0 ELSE E(k)]
      OBVIOUS
    <2> HIDE DEF E, g, s
    <2> QED
      BY <1>1, <1>2, <2>1, <2>2, SMTT(60)
  <1> HIDE DEF g, s
  <1>6. Def(sum)
    BY <1>5, Zenon
  <1> HIDE DEF sum
  <1>7. sum[n] = g[n]
    <2> DEFINE T == {k \in 0..n : sum[k] = g[k]}
    <2>1. \A k \in 0..n : /\ sum[k] = IF k = 0 THEN 0 ELSE sum[k - 1] + Len(s[k]) + 1
                          /\ g[k] = IF k = 0 THEN 0 ELSE g[k - 1] + Len(s[k]) + 1
      BY <1>2, <1>5, <1>6
    <2>2. n \in Nat
      BY <1>1
    <2> HIDE DEF n
    <2>3. 0 \in T /\ \A k \in 1..n : k - 1 \in T => k \in T
      BY <2>1, <2>2
    <2> HIDE DEF T
    <2>4. \A k \in 0..n : k \in T
      BY <2>2, <2>3, UpTo
    <2> QED
      BY <2>2, <2>4 DEF T
  <1>8. g[n] = e
    BY <1>1 DEF Packed, EndOf, g
  <1>9. Bytes(s) = sum[n]
    BY <1>2, Zenon DEF Bytes, sum
  <1> QED
    BY <1>2, <1>7, <1>8, <1>9 DEF s
-----------------------------------------------------------------------------
(* The steps of parse_input(). *)

\* What the utilities have been given so far keeps to the limits.
BatchInv ==
    /\ \E S : batches \in Seq(S)
    /\ \A k \in 1..Len(batches) :
          Len(batches[k].args) <= opt.nargs /\ Bytes(batches[k].args) <= opt.nline

\* Recording one more execution within the limits keeps all of them within the limits.
LEMMA BatchAppended ==
    ASSUME BatchInv, opt' = opt, NEW r, batches' = Append(batches, r),
           Len(r.args) <= opt.nargs, Bytes(r.args) <= opt.nline
    PROVE  BatchInv'
  <1>1. PICK S : batches \in Seq(S)
    BY DEF BatchInv
  <1> DEFINE U == S \cup {r}
  <1>2. S \subseteq U /\ r \in U
    OBVIOUS
  <1> HIDE DEF U
  <1>3. /\ batches \in Seq(U) /\ batches' \in Seq(U) /\ Len(batches') = Len(batches) + 1
        /\ \A k \in 1..Len(batches') :
              batches'[k] = r \/ (k \in 1..Len(batches) /\ batches'[k] = batches[k])
    <2>1. batches \in Seq(U)
      BY <1>1, <1>2
    <2>2. /\ batches' \in Seq(U) /\ Len(batches') = Len(batches) + 1
          /\ batches'[Len(batches) + 1] = r
          /\ \A k \in 1..Len(batches) : batches'[k] = batches[k]
      BY <1>2, <2>1
    <2> QED
      BY <2>1, <2>2
  <1>4. ASSUME NEW k \in 1..Len(batches')
        PROVE  Len(batches'[k].args) <= opt'.nargs /\ Bytes(batches'[k].args) <= opt'.nline
    BY <1>3, <1>4, Zenon DEF BatchInv
  <1> QED
    BY <1>3, <1>4, Zenon DEF BatchInv

\* A run with the first e bytes of the buffer.
LEMMA RunWithin ==
    ASSUME BatchInv, opt \in Options, opt' = opt, NEW b \in [0..opt.nline -> Int],
           NEW a \in Seq(Nat), NEW e \in Nat, e <= opt.nline, Packed(b, a, e),
           Len(a) <= opt.nargs, NEW line, Run(Strings(b, a), line) \/ RunFails
    PROVE  BatchInv'
  <1>1. opt.nline \in Nat /\ e <= opt.nline + 1
    BY Limits
  <1>2. Bytes(Strings(b, a)) = e /\ Len(Strings(b, a)) = Len(a)
    BY <1>1, BytesPacked
  <1>3. CASE RunFails
    BY <1>3, Zenon DEF RunFails, pool, BatchInv
  <1>4. CASE Run(Strings(b, a), line)
    <2> DEFINE r == [args |-> Strings(b, a), argv |-> Prerun(Strings(b, a), line)]
    <2>1. batches' = Append(batches, r) /\ r.args = Strings(b, a)
      BY <1>4, Zenon DEF Run
    <2> HIDE DEF r
    <2>2. Len(r.args) <= opt.nargs /\ Bytes(r.args) <= opt.nline
      BY <1>2, <2>1
    <2> QED
      BY <2>1, <2>2, BatchAppended
  <1> QED
    BY <1>3, <1>4


\* The arguments stay where they are as long as their bytes do.
LEMMA PackedStays ==
    ASSUME NEW n \in Nat, NEW b \in [0..n -> Int], NEW c \in [0..n -> Int], NEW a \in Seq(Nat),
           NEW e \in Nat, e <= n + 1, \A k \in 0..(e - 1) : c[k] = b[k], Packed(b, a, e)
    PROVE  Packed(c, a, e)
  <1> SUFFICES ASSUME NEW k \in 1..Len(a)
               PROVE  /\ a[k] < EndOf(a, e, k) /\ EndOf(a, e, k) <= e
                      /\ c[EndOf(a, e, k) - 1] = Nul
                      /\ \A i \in a[k]..(EndOf(a, e, k) - 2) : c[i] # Nul
    BY DEF Packed
  <1> DEFINE d == EndOf(a, e, k)
  <1>1. a[k] \in Nat /\ d \in Nat
    BY SMTT(60) DEF EndOf
  <1>2. a[k] < d /\ d <= e /\ b[d - 1] = Nul /\ \A i \in a[k]..(d - 2) : b[i] # Nul
    BY DEF Packed
  <1> HIDE DEF d
  <1>3. a[k] < d /\ d <= e /\ c[d - 1] = Nul /\ \A i \in a[k]..(d - 2) : c[i] # Nul
    BY <1>1, <1>2, SMTT(60)
  <1> QED
    BY <1>3 DEF d


\* ADDCH() with room for the character, or with an error.
LEMMA AddChKeeps ==
    ASSUME BufferInv, BatchInv, opt' = opt, at' \in Nat, inpline' = inpline,
           NEW pos \in Nat \ {0}, AddCh(pos) \/ AddChRefused
    PROVE  BufferInv' /\ BatchInv'
  <1>1. BatchInv'
    BY Zenon DEF AddCh, AddChRefused, BatchInv, pool
  <1>2. opt \in Options /\ opt.nline \in Nat \ {0} /\ ebp = opt.nline - 1 /\ ebp' = ebp
    BY Limits DEF BufferInv, ebp
  <1>3. LineInv(inpline)'
    BY Zenon DEF BufferInv, LineInv
  <1>4. CASE AddChRefused
    <2>1. UNCHANGED <<buf, p, argp, args>>
      BY <1>4 DEF AddChRefused
    <2> QED
      BY <1>1, <1>2, <1>3, <2>1, Zenon DEF BufferInv, Packed, EndOf
  <1>5. CASE AddCh(pos)
    <2>1. /\ p < ebp /\ buf' = [buf EXCEPT ![p] = pos] /\ p' = p + 1
          /\ argp' = argp /\ args' = args
      BY <1>5 DEF AddCh
    <2>2. /\ buf \in [0..opt.nline -> Int] /\ p \in Nat /\ argp \in Nat /\ args \in Seq(Nat)
          /\ argp <= p /\ Len(args) < opt.nargs /\ \A k \in argp..(p - 1) : buf[k] # Nul
          /\ Packed(buf, args, argp)
      BY DEF BufferInv
    <2>3. /\ buf' \in [0..opt.nline -> Int] /\ buf'[p] = pos
          /\ \A k \in 0..opt.nline : k # p => buf'[k] = buf[k]
      BY <1>2, <2>1, <2>2
    <2>4. \A k \in argp'..(p' - 1) : buf'[k] # Nul
      BY <1>2, <2>1, <2>2, <2>3 DEF Nul
    <2>5. Packed(buf, args, argp)'
      <3>1. argp <= opt.nline + 1 /\ \A k \in 0..(argp - 1) : buf'[k] = buf[k]
        BY <1>2, <2>1, <2>2, <2>3
      <3>2. Packed(buf', args, argp)
        BY <1>2, <2>2, <2>3, <3>1, PackedStays
      <3> QED
        BY <2>1, <3>2 DEF Packed, EndOf
    <2> QED
      BY <1>1, <1>2, <1>3, <2>1, <2>2, <2>3, <2>4, <2>5 DEF BufferInv
  <1> QED
    BY <1>4, <1>5

\* ADDCH() without room: the begun argument is moved to the front.
LEMMA AddChCarryKeeps ==
    ASSUME BufferInv, BatchInv, opt' = opt, at' \in Nat, inpline' = inpline,
           NEW pos \in Nat \ {0}, AddChCarry(pos)
    PROVE  BufferInv' /\ BatchInv'
  <1>1. /\ opt \in Options /\ opt.nline \in Nat \ {0} /\ ebp = opt.nline - 1 /\ ebp' = ebp
        /\ opt.nargs \in Nat \ {0} /\ opt'.nline = opt.nline /\ opt'.nargs = opt.nargs
    BY Limits DEF BufferInv, ebp
  <1>2. /\ buf \in [0..opt.nline -> Int] /\ p \in Nat /\ argp \in Nat /\ args \in Seq(Nat)
        /\ argp <= p /\ p <= ebp /\ Len(args) < opt.nargs
        /\ \A k \in argp..(p - 1) : buf[k] # Nul
        /\ Packed(buf, args, argp)
    BY DEF BufferInv
  <1>3. /\ p >= ebp /\ args # <<>> /\ p' = Carried + 1 /\ argp' = 0 /\ args' = <<>>
        /\ buf' = [k \in 0..opt.nline |->
                     IF k < Carried THEN buf[argp + k]
                     ELSE IF k = Carried THEN pos ELSE buf[k]]
        /\ Run(Strings(buf, args), inpline.text) \/ RunFails
    BY DEF AddChCarry
  <1>4. argp > 0
    <2>1. 1 \in 1..Len(args) /\ args[1] \in Nat
      BY <1>2, <1>3
    <2>2. args[1] < EndOf(args, argp, 1) /\ EndOf(args, argp, 1) <= argp
      BY <1>2, <2>1 DEF Packed
    <2>3. EndOf(args, argp, 1) \in Nat
      BY <1>2 DEF EndOf
    <2> QED
      BY <1>2, <2>1, <2>2, <2>3
  <1>5. BatchInv'
    <2>1. argp <= opt.nline /\ Len(args) <= opt.nargs
      BY <1>1, <1>2, SMTT(60)
    <2> QED
      BY <1>1, <1>2, <1>3, <2>1, RunWithin
  <1>6. LineInv(inpline)'
    BY Zenon DEF BufferInv, LineInv
  <1> DEFINE m == Carried
  <1>7. m \in Nat /\ m < ebp /\ p = ebp /\ argp + m = p
    BY <1>1, <1>2, <1>3, <1>4, SMTT(60) DEF Carried
  <1>8. buf' = [k \in 0..opt.nline |->
                  IF k < m THEN buf[argp + k] ELSE IF k = m THEN pos ELSE buf[k]]
    BY <1>3
  <1>9. p' = m + 1
    BY <1>3
  <1> HIDE DEF m
  <1>10. buf' \in [0..opt.nline -> Int]
    <2>1. \A k \in 0..opt.nline : k < m => argp + k \in 0..opt.nline
      BY <1>1, <1>2, <1>7, SMTT(60)
    <2> QED
      BY <1>2, <1>8, <2>1
  <1>12. \A k \in 0..(p' - 1) : buf'[k] # Nul
    <2> SUFFICES ASSUME NEW k \in 0..(p' - 1) PROVE buf'[k] # Nul
      OBVIOUS
    <2>1. k \in 0..opt.nline /\ (k < m \/ k = m)
      BY <1>1, <1>7, <1>9
    <2>2. CASE k < m
      <3>1. argp + k \in argp..(p - 1)
        BY <1>2, <1>7, <2>1, <2>2
      <3> QED
        BY <1>2, <1>8, <2>1, <2>2, <3>1
    <2>3. CASE k = m
      BY <1>7, <1>8, <2>1, <2>3 DEF Nul
    <2> QED
      BY <2>1, <2>2, <2>3
  <1>13. p' \in Nat /\ 0 <= p' /\ p' <= ebp' /\ Len(args') < opt'.nargs /\ args' \in Seq(Nat)
    BY <1>1, <1>3, <1>7, <1>9
  <1>11. Packed(buf, args, argp)'
    BY <1>3 DEF Packed
  <1> QED
    BY <1>1, <1>3, <1>5, <1>6, <1>10, <1>11, <1>12, <1>13 DEF BufferInv


\* The begun argument gets its '\0' and joins the complete ones.
LEMMA PackedAppend ==
    ASSUME NEW n \in Nat, NEW b \in [0..n -> Int], NEW a \in Seq(Nat), NEW e \in Nat,
           NEW q \in Nat, e <= q, q <= n, \A k \in e..(q - 1) : b[k] # Nul, Packed(b, a, e)
    PROVE  /\ [b EXCEPT ![q] = Nul] \in [0..n -> Int]
           /\ Append(a, e) \in Seq(Nat) /\ Len(Append(a, e)) = Len(a) + 1
           /\ Packed([b EXCEPT ![q] = Nul], Append(a, e), q + 1)
  <1> DEFINE c == [b EXCEPT ![q] = Nul]
             d == Append(a, e)
  <1>1. /\ c \in [0..n -> Int] /\ c[q] = Nul
        /\ \A k \in 0..n : k # q => c[k] = b[k]
    BY DEF Nul
  <1>2. /\ d \in Seq(Nat) /\ Len(d) = Len(a) + 1 /\ Len(a) \in Nat
        /\ d[Len(a) + 1] = e /\ \A k \in 1..Len(a) : d[k] = a[k]
    BY AppendProperties
  <1> HIDE DEF c, d
  <1>3. d # <<>> /\ d[1] = 0
    <2>1. d # <<>>
      BY <1>2
    <2>2. CASE a = <<>>
      <3>1. Len(a) = 0 /\ e = 0
        BY <2>2 DEF Packed
      <3> QED
        BY <1>2, <2>1, <3>1
    <2>3. CASE a # <<>>
      <3>1. 1 \in 1..Len(a)
        BY <2>3
      <3> QED
        BY <1>2, <2>1, <2>3, <3>1 DEF Packed
    <2> QED
      BY <2>1, <2>2, <2>3
  <1>4. ASSUME NEW k \in 1..Len(d)
        PROVE  /\ d[k] < EndOf(d, q + 1, k) /\ EndOf(d, q + 1, k) <= q + 1
               /\ c[EndOf(d, q + 1, k) - 1] = Nul
               /\ \A i \in d[k]..(EndOf(d, q + 1, k) - 2) : c[i] # Nul
    <2>1. CASE k = Len(a) + 1
      <3>1. EndOf(d, q + 1, k) = q + 1 /\ d[k] = e
        BY <1>2, <2>1 DEF EndOf
      <3>2. e < q + 1 /\ c[q + 1 - 1] = Nul /\ \A i \in e..(q + 1 - 2) : c[i] # Nul
        <4>1. q + 1 - 1 = q /\ q + 1 - 2 = q - 1 /\ e < q + 1
          OBVIOUS
        <4>2. \A i \in e..(q - 1) : i \in 0..n /\ i # q
          OBVIOUS
        <4> QED
          BY <1>1, <4>1, <4>2
      <3> DEFINE m == EndOf(d, q + 1, k)
      <3> HIDE DEF m
      <3>3. m = q + 1 /\ d[k] = e
        BY <3>1 DEF m
      <3>4. d[k] < m /\ m <= q + 1 /\ c[m - 1] = Nul /\ \A i \in d[k]..(m - 2) : c[i] # Nul
        BY <3>2, <3>3
      <3> QED
        BY <3>4 DEF m
    <2>2. CASE k \in 1..Len(a)
      <3> DEFINE m == EndOf(a, e, k)
      <3>1. EndOf(d, q + 1, k) = m /\ d[k] = a[k] /\ m \in Nat /\ a[k] \in Nat
        <4>1. CASE k < Len(a)
          <5>1. k + 1 \in 1..Len(a) /\ k < Len(d)
            BY <1>2, <2>2, <4>1, SMTT(60)
          <5>2. EndOf(d, q + 1, k) = d[k + 1] /\ m = a[k + 1]
            BY <4>1, <5>1 DEF EndOf
          <5>3. d[k + 1] = a[k + 1] /\ d[k] = a[k]
            BY <1>2, <2>2, <5>1
          <5>4. a[k + 1] \in Nat /\ a[k] \in Nat
            BY <2>2, <5>1, SMTT(60)
          <5> HIDE DEF m
          <5> QED
            BY <5>2, <5>3, <5>4, Zenon
        <4>2. CASE k = Len(a)
          BY <1>2, <2>2, <4>2 DEF EndOf
        <4> QED
          BY <1>2, <2>2, <4>1, <4>2
      <3>2. a[k] < m /\ m <= e /\ b[m - 1] = Nul /\ \A i \in a[k]..(m - 2) : b[i] # Nul
        BY <2>2 DEF Packed
      <3> HIDE DEF m
      <3>3. a[k] < m /\ m <= q + 1 /\ c[m - 1] = Nul /\ \A i \in a[k]..(m - 2) : c[i] # Nul
        <4>1. m - 1 \in 0..n /\ m - 1 # q
          BY <3>1, <3>2, SMTT(60)
        <4>2. \A i \in a[k]..(m - 2) : i \in 0..n /\ i # q
          BY <3>1, <3>2, SMTT(60)
        <4> QED
          BY <1>1, <3>1, <3>2, <4>1, <4>2, SMTT(60)
      <3> QED
        BY <3>1, <3>3
    <2> QED
      BY <1>2, <2>1, <2>2
  <1> QED
    BY <1>1, <1>2, <1>3, <1>4, Zenon DEF Packed, c, d

\* AddToLine() keeps the room for two more bytes.
LEMMA LineKeeps ==
    ASSUME LineInv(inpline), NEW arg \in Seq(Int)
    PROVE  LineInv(AddToLine(arg))
  <1> DEFINE t == inpline.text
             u == t \o (IF t = <<>> THEN <<>> ELSE <<Space>>) \o arg
  <1>1. t \in Seq(Int) /\ Len(t) \in Nat /\ Len(arg) \in Nat
    BY DEF LineInv
  <1>2. u \in Seq(Int) /\ Len(u) <= Len(t) + 1 + Len(arg)
    <2>1. CASE t = <<>>
      BY <1>1, <2>1
    <2>2. CASE t # <<>>
      <3>1. <<Space>> \in Seq(Int) /\ Len(<<Space>>) = 1
        BY DEF Space
      <3>2. t \o <<Space>> \in Seq(Int) /\ Len(t \o <<Space>>) = Len(t) + 1
        BY <1>1, <3>1
      <3>3. u = (t \o <<Space>>) \o arg
        BY <2>2, Zenon
      <3> HIDE DEF t, u
      <3> QED
        BY <1>1, <3>2, <3>3
    <2> QED
      BY <2>1, <2>2
  <1>3. /\ AddToLine(arg).text = u
        /\ AddToLine(arg).size = Len(t) + 1 + 2 + Len(arg)
    BY DEF AddToLine
  <1> HIDE DEF t, u
  <1>4. Len(u) \in Nat
    BY <1>2
  <1> QED
    BY <1>1, <1>2, <1>3, <1>4 DEF LineInv


\* arg2: the end of an argument.
LEMMA EndArgKeeps ==
    ASSUME BufferInv, BatchInv, opt' = opt, at' \in Nat, NEW c, NEW isEOF, EndArg(c, isEOF)
    PROVE  BufferInv' /\ BatchInv'
  <1> DEFINE make == (argp # p \/ wasquoted) /\ ~FoundEof
             q == IF make THEN p + 1 ELSE p
             a == IF make THEN Append(args, argp) ELSE args
             b == IF make THEN [buf EXCEPT ![p] = Nul] ELSE buf
             line == IF make /\ Iflag THEN AddToLine(StringAt(b, argp)) ELSE inpline
             stop == isEOF \/ FoundEof
             limit == LimitReached(Len(a), q, c, stop)
  <1>1. /\ opt \in Options /\ opt.nline \in Nat \ {0} /\ ebp = opt.nline - 1 /\ ebp' = ebp
        /\ opt.nargs \in Nat \ {0} /\ opt'.nline = opt.nline /\ opt'.nargs = opt.nargs
    BY Limits DEF BufferInv, ebp
  <1>2. /\ buf \in [0..opt.nline -> Int] /\ p \in Nat /\ argp \in Nat /\ args \in Seq(Nat)
        /\ argp <= p /\ p <= ebp /\ Len(args) < opt.nargs
        /\ \A k \in argp..(p - 1) : buf[k] # Nul
        /\ Packed(buf, args, argp) /\ LineInv(inpline)
    BY DEF BufferInv
  <1>3. /\ buf' = b
        /\ limit => /\ p' = 0 /\ argp' = 0 /\ args' = <<>>
                    /\ inpline' = LineAfterRun(line)
                    /\ \/ UNCHANGED pool
                       \/ Run(Strings(b, a), line.text) \/ RunFails
        /\ ~limit => /\ p' = q /\ argp' = q /\ args' = a /\ inpline' = line
                     /\ UNCHANGED pool
    BY Zenon DEF EndArg
  <1>4. /\ b \in [0..opt.nline -> Int] /\ a \in Seq(Nat) /\ Len(a) <= opt.nargs
        /\ q \in Nat /\ q <= opt.nline
        /\ Packed(b, a, IF make THEN q ELSE argp)
        /\ ~make /\ ~FoundEof => q = argp
    <2>1. CASE make
      <3> DEFINE bb == [buf EXCEPT ![p] = Nul]
                 aa == Append(args, argp)
      <3>1. b = bb /\ a = aa /\ q = p + 1
        BY <2>1, Zenon
      <3>2. opt.nline \in Nat /\ p <= opt.nline
        BY <1>1, <1>2
      <3>3. /\ bb \in [0..opt.nline -> Int] /\ aa \in Seq(Nat) /\ Len(aa) = Len(args) + 1
            /\ Packed(bb, aa, p + 1)
        <4>1. \A n \in Nat, x \in Seq(Nat), e, z \in Nat :
                \A y \in [0..n -> Int] :
                  e <= z /\ z <= n /\ (\A k \in e..(z - 1) : y[k] # Nul) /\ Packed(y, x, e) =>
                    /\ [y EXCEPT ![z] = Nul] \in [0..n -> Int]
                    /\ Append(x, e) \in Seq(Nat) /\ Len(Append(x, e)) = Len(x) + 1
                    /\ Packed([y EXCEPT ![z] = Nul], Append(x, e), z + 1)
          BY PackedAppend, ZenonT(60)
        <4> QED
          BY <1>2, <3>2, <4>1, Zenon
      <3> HIDE DEF aa, bb
      <3>4. Len(aa) <= opt.nargs /\ p + 1 \in Nat /\ p + 1 <= opt.nline
        BY <1>1, <1>2, <3>3, SMTT(60)
      <3> HIDE DEF a, b, q
      <3> QED
        BY <2>1, <3>1, <3>3, <3>4, Zenon
    <2>2. CASE ~make
      <3>1. b = buf /\ a = args /\ q = p
        BY <2>2, Zenon
      <3>2. ~FoundEof => argp = p
        BY <2>2, Zenon
      <3>3. Len(args) <= opt.nargs /\ p <= opt.nline
        BY <1>1, <1>2
      <3> HIDE DEF a, b, q
      <3> QED
        BY <1>2, <2>2, <3>1, <3>2, <3>3, Zenon
    <2> QED
      BY <2>1, <2>2, Zenon
  <1>5. LineInv(line)
    <2>1. CASE make /\ Iflag
      <3> DEFINE bb == [buf EXCEPT ![p] = Nul]
      <3>1. b = bb /\ line = AddToLine(StringAt(b, argp))
        BY <2>1, Zenon
      <3>2. opt.nline \in Nat /\ p <= opt.nline
        BY <1>1, <1>2
      <3>3. /\ bb \in [0..opt.nline -> Int] /\ bb[p] = Nul
            /\ \A k \in argp..(p - 1) : bb[k] # Nul
        BY <1>2, <3>2 DEF Nul
      <3> HIDE DEF bb
      <3>4. StringAt(bb, argp) \in Seq(Int)
        BY <1>2, <3>2, <3>3, StringEnds
      <3> HIDE DEF b, line
      <3> QED
        BY <1>2, <3>1, <3>4, LineKeeps
    <2>2. CASE ~(make /\ Iflag)
      <3>1. line = inpline
        BY <2>2, Zenon
      <3> HIDE DEF line
      <3> QED
        BY <1>2, <3>1
    <2> QED
      BY <2>1, <2>2, Zenon
  <1>6. ~limit => Len(a) # opt.nargs /\ ~(q > ebp) /\ ~FoundEof
    BY Zenon DEF LimitReached
  <1>7. LineInv(NullLine)
    BY DEF LineInv, NullLine
  <1> HIDE DEF make, q, a, b, line, stop, limit
  <1>8. LineInv(inpline)'
    <2>1. LineInv(inpline')
      BY <1>3, <1>5, <1>7, Zenon DEF LineAfterRun
    <2> QED
      BY <2>1, Zenon DEF LineInv
  <1>9. BatchInv'
    <2>1. CASE UNCHANGED pool
      BY <2>1, Zenon DEF pool, BatchInv
    <2>2. CASE Run(Strings(b, a), line.text) \/ RunFails
      <3> DEFINE e == IF make THEN q ELSE argp
      <3>1. e \in Nat /\ e <= opt.nline
        BY <1>1, <1>2, <1>4
      <3>2. Packed(b, a, e)
        BY <1>4
      <3> HIDE DEF e
      <3> QED
        BY <1>1, <1>4, <2>2, <3>1, <3>2, RunWithin
    <2> QED
      BY <1>3, <2>1, <2>2, Zenon
  <1>10. CASE limit
    <2>1. p' = 0 /\ argp' = 0 /\ args' = <<>>
      BY <1>3, <1>10
    <2>2. /\ p' \in Nat /\ argp' \in Nat /\ args' \in Seq(Nat) /\ argp' <= p' /\ p' <= ebp'
          /\ Len(args') < opt'.nargs /\ \A k \in argp'..(p' - 1) : buf'[k] # Nul
      BY <1>1, <2>1
    <2>3. Packed(buf, args, argp)'
      BY <2>1 DEF Packed
    <2>4. buf' \in [0..opt'.nline -> Int]
      BY <1>1, <1>3, <1>4, Zenon
    <2> QED
      BY <1>1, <1>8, <1>9, <2>2, <2>3, <2>4, Zenon DEF BufferInv
  <1>11. CASE ~limit
    <2>1. p' = q /\ argp' = q /\ args' = a /\ buf' = b
      BY <1>3, <1>11
    <2>2. Packed(b, a, q)
      BY <1>4, <1>6, <1>11, Zenon
    <2>3. /\ p' \in Nat /\ argp' \in Nat /\ args' \in Seq(Nat) /\ argp' <= p' /\ p' <= ebp'
          /\ \A k \in argp'..(p' - 1) : buf'[k] # Nul
      BY <1>1, <1>4, <1>6, <1>11, <2>1
    <2>4. Len(args') < opt'.nargs
      <3>1. Len(a) \in Nat
        BY <1>4
      <3> QED
        BY <1>1, <1>4, <1>6, <1>11, <2>1, <3>1
    <2>5. Packed(buf, args, argp)'
      BY <2>1, <2>2, Zenon DEF Packed, EndOf
    <2>6. buf' \in [0..opt'.nline -> Int]
      BY <1>1, <1>4, <2>1, Zenon
    <2> QED
      BY <1>1, <1>8, <1>9, <2>3, <2>4, <2>5, <2>6, Zenon DEF BufferInv
  <1> QED
    BY <1>10, <1>11


\* Every step keeps the buffer and the limits.
LEMMA BufferStep ==
    ASSUME BufferInv, BatchInv, [Next]_vars
    PROVE  BufferInv' /\ BatchInv'
  <1>1. at \in Nat
    BY DEF BufferInv
  <1>2. ASSUME UNCHANGED <<opt, parser, batches>> PROVE BufferInv' /\ BatchInv'
    <2>1. UNCHANGED <<opt, at, buf, p, argp, args, inpline, batches>>
      BY <1>2 DEF parser
    <2> QED
      BY <2>1, Zenon DEF BufferInv, BatchInv, Packed, EndOf, LineInv, ebp
  <1>3. ASSUME NEW pos \in Nat \ {0}, AddAny(pos), opt' = opt, at' \in Nat, inpline' = inpline
        PROVE  BufferInv' /\ BatchInv'
    <2>1. CASE AddCh(pos) \/ AddChRefused
      BY <1>3, <2>1, AddChKeeps
    <2>2. CASE AddChCarry(pos)
      BY <1>3, <2>2, AddChCarryKeeps
    <2> QED
      BY <1>3, <2>1, <2>2 DEF AddAny
  <1>4. CASE ReadChar
    <2>1. AddAny(at + 1) /\ opt' = opt /\ at' = at + 1 /\ inpline' = inpline
      BY <1>4, Zenon DEF ReadChar
    <2>2. at + 1 \in Nat \ {0}
      BY <1>1
    <2> QED
      BY <1>3, <2>1, <2>2
  <1>5. CASE ReadBackslash
    <2>1. AddAny(at + 2) /\ opt' = opt /\ at' = at + 2 /\ inpline' = inpline
      BY <1>5, Zenon DEF ReadBackslash
    <2>2. at + 2 \in Nat \ {0}
      BY <1>1
    <2> QED
      BY <1>3, <2>1, <2>2
  <1>6. CASE ReadQuote
    <2>1. UNCHANGED <<opt, buf, p, argp, args, inpline, batches>> /\ at' = at + 1
      BY <1>6, Zenon DEF ReadQuote, pool
    <2>2. at' \in Nat
      BY <1>1, <2>1
    <2> QED
      BY <2>1, <2>2, Zenon DEF BufferInv, BatchInv, Packed, EndOf, LineInv, ebp
  <1>7. CASE ReadBlank \/ ReadNewline \/ ReadEOF
    <2>1. PICK c, isEOF : EndArg(c, isEOF) /\ opt' = opt /\ (at' = at + 1 \/ at' = at)
      BY <1>7, Zenon DEF ReadBlank, ReadNewline, ReadEOF
    <2>2. at' \in Nat
      BY <1>1, <2>1
    <2> QED
      BY <2>1, <2>2, EndArgKeeps
  <1>8. CASE BackslashAtEOF \/ ReadEOFIdle \/ UnterminatedQuote
    BY <1>2, <1>8, Zenon DEF BackslashAtEOF, ReadEOFIdle, UnterminatedQuote, pool
  <1>9. CASE WaitReap \/ WaitDone \/ ChildExit \/ UNCHANGED vars
    BY <1>2, <1>9, Zenon DEF WaitReap, WaitDone, ChildExit, vars, pool
  <1> QED
    BY <1>4, <1>5, <1>6, <1>7, <1>8, <1>9, Zenon DEF Next, Parse

\* The argument buffer is empty when xargs starts.
LEMMA BufferInit ==
    ASSUME Init
    PROVE  BufferInv /\ BatchInv
  <1>1. /\ opt \in Options /\ at = 0 /\ p = 0 /\ argp = 0 /\ args = <<>> /\ inpline = NullLine
        /\ batches = <<>> /\ buf = [k \in 0..opt.nline |-> Empty]
    BY DEF Init
  <1>2. opt.nargs \in Nat \ {0} /\ opt.nline \in Nat \ {0} /\ ebp = opt.nline - 1
    BY <1>1, Limits
  <1>3. LineInv(inpline)
    BY <1>1 DEF LineInv, NullLine
  <1>4. Packed(buf, args, argp)
    BY <1>1 DEF Packed
  <1>5. BatchInv
    BY <1>1 DEF BatchInv
  <1> QED
    BY <1>1, <1>2, <1>3, <1>4, <1>5 DEF BufferInv, Empty

(* For any input, any -n, -s, -L, -x, -E, -0, -I and -P, the pointers of   *)
(* parse_input() stay inside the buffer and the array of arguments, no     *)
(* utility is given more than -n arguments or -s bytes, also after an      *)
(* argument was carried over, and inpline always has room for the next     *)
(* strcat().                                                               *)
THEOREM LimitsKept == Spec => []WithinLimits
  <1>1. BufferInv /\ BatchInv => WithinLimits
    <2> SUFFICES ASSUME BufferInv, BatchInv PROVE WithinLimits
      OBVIOUS
    <2>1. p <= opt.nline /\ argp <= p /\ Len(args) <= opt.nargs
      BY Limits DEF BufferInv
    <2> QED
      BY <2>1 DEF WithinLimits, BufferInv, BatchInv, LineInv
  <1> QED
    BY <1>1, BufferInit, BufferStep, PTL DEF Spec


-----------------------------------------------------------------------------
(* What the runs have been given. *)

\* The arguments of the first k runs.
Concats(f, b) ==
    /\ f \in [0..Len(b) -> Seq(Seq(Int))]
    /\ f[0] = <<>>
    /\ \A k \in 1..Len(b) : f[k] = f[k - 1] \o b[k].args

\* What ArgsOf() computes.
LEMMA ArgsOfRuns ==
    ASSUME NEW S, NEW b \in Seq(S), \A k \in 1..Len(b) : b[k].args \in Seq(Seq(Int))
    PROVE  \E f : Concats(f, b) /\ ArgsOf(b) = f[Len(b)]
  <1> DEFINE n == Len(b)
             X == Seq(Seq(Int))
             x0 == <<>>
             g == [k \in 1..n |-> [x \in X |-> x \o b[k].args]]
             Def(f) == f = [k \in 0..n |-> IF k = 0 THEN x0 ELSE f[k - 1] \o b[k].args]
             cat == CHOOSE f : Def(f)
  <1>1. n \in Nat /\ x0 \in X
    OBVIOUS
  <1>2. \A k \in 1..n, x \in X : x \o b[k].args \in X
    OBVIOUS
  <1> HIDE DEF n, X, x0
  <1>3. g \in [1..n -> [X -> X]]
    BY <1>2
  <1>4. PICK h \in [0..n -> X] : Follows(h, n, x0, g)
    <2> HIDE DEF g
    <2> QED
      BY <1>1, <1>3, Recursion
  <1>5. h[0] = x0 /\ \A k \in 1..n : h[k] = h[k - 1] \o b[k].args
    <2>1. ASSUME NEW k \in 1..n PROVE h[k] = h[k - 1] \o b[k].args
      <3>1. k - 1 \in 0..n
        BY <1>1
      <3>2. h[k - 1] \in X /\ h[k] = g[k][h[k - 1]]
        BY <1>4, <3>1, Zenon DEF Follows
      <3> QED
        BY <3>2, Zenon
    <2> QED
      BY <1>4, <2>1, Zenon DEF Follows
  <1>6. Def(h)
    <2>1. \A k \in 0..n : h[k] = IF k = 0 THEN x0 ELSE h[k - 1] \o b[k].args
      <3>1. \A k \in 0..n : k = 0 \/ k \in 1..n
        BY <1>1
      <3> QED
        BY <1>5, <3>1, Zenon
    <2> QED
      BY <2>1
  <1>7. Def(cat)
    <2> HIDE DEF Def
    <2> QED
      BY <1>6, Zenon
  <1>8. ArgsOf(b) = cat[n]
    BY Zenon DEF ArgsOf, n, x0
  <1> HIDE DEF cat
  <1>9. ASSUME NEW k \in 0..n PROVE cat[k] = h[k]
    <2> DEFINE T == {i \in 0..n : cat[i] = h[i]}
    <2>1. \A i \in 0..n : /\ cat[i] = IF i = 0 THEN x0 ELSE cat[i - 1] \o b[i].args
                          /\ h[i] = IF i = 0 THEN x0 ELSE h[i - 1] \o b[i].args
      BY <1>6, <1>7
    <2>2. 0 \in T /\ \A i \in 1..n : i - 1 \in T => i \in T
      BY <1>1, <2>1
    <2> HIDE DEF T
    <2>3. \A i \in 0..n : i \in T
      BY <1>1, <2>2, UpTo
    <2> QED
      BY <2>3 DEF T
  <1>10. Concats(h, b)
    BY <1>5 DEF Concats, n, X, x0
  <1>11. ArgsOf(b) = h[Len(b)]
    BY <1>1, <1>8, <1>9 DEF n
  <1> QED
    BY <1>10, <1>11, Zenon

\* Nothing was run yet.
LEMMA ArgsOfNone == ArgsOf(<<>>) = <<>>
  <1> DEFINE b == <<>>
             S == {}
  <1>1. b \in Seq(S) /\ Len(b) = 0 /\ \A k \in 1..Len(b) : b[k].args \in Seq(Seq(Int))
    OBVIOUS
  <1> HIDE DEF b, S
  <1>2. PICK f : Concats(f, b) /\ ArgsOf(b) = f[Len(b)]
    BY <1>1, ArgsOfRuns
  <1>3. ArgsOf(b) = <<>>
    BY <1>1, <1>2, Zenon DEF Concats
  <1> QED
    BY <1>3, Zenon DEF b

\* One more run.
LEMMA ArgsOfOneMore ==
    ASSUME NEW S, NEW b \in Seq(S), NEW r \in S, r.args \in Seq(Seq(Int)),
           \A k \in 1..Len(b) : b[k].args \in Seq(Seq(Int))
    PROVE  ArgsOf(Append(b, r)) = ArgsOf(b) \o r.args /\ ArgsOf(b) \in Seq(Seq(Int))
  <1> DEFINE n == Len(b)
             c == Append(b, r)
  <1>1. /\ c \in Seq(S) /\ Len(c) = n + 1 /\ n \in Nat /\ c[n + 1] = r
        /\ \A k \in 1..n : c[k] = b[k]
    OBVIOUS
  <1> HIDE DEF c
  <1>2. \A k \in 1..Len(c) : c[k].args \in Seq(Seq(Int))
    <2> TAKE k \in 1..Len(c)
    <2>1. k = n + 1 \/ k \in 1..n
      BY <1>1
    <2> QED
      BY <1>1, <2>1, Zenon
  <1>3. PICK f : Concats(f, b) /\ ArgsOf(b) = f[n]
    BY ArgsOfRuns
  <1>4. PICK h : Concats(h, c) /\ ArgsOf(c) = h[n + 1]
    <2>1. PICK h : Concats(h, c) /\ ArgsOf(c) = h[Len(c)]
      BY <1>1, <1>2, ArgsOfRuns
    <2> QED
      BY <1>1, <2>1
  <1> DEFINE T == {k \in 0..n : h[k] = f[k]}
  <1>5. 0 \in T
    BY <1>1, <1>3, <1>4 DEF Concats
  <1>6. ASSUME NEW k \in 1..n, k - 1 \in T PROVE k \in T
    <2>1. k \in 1..Len(c) /\ k \in 0..n
      BY <1>1
    <2>2. h[k] = h[k - 1] \o c[k].args /\ f[k] = f[k - 1] \o b[k].args
      BY <1>3, <1>4, <2>1, Zenon DEF Concats
    <2>3. h[k - 1] = f[k - 1] /\ c[k] = b[k]
      BY <1>1, <1>6, Zenon
    <2> QED
      BY <2>1, <2>2, <2>3, Zenon
  <1>7. \A k \in 0..n : k \in T
    <2> HIDE DEF T
    <2> QED
      BY <1>1, <1>5, <1>6, UpTo
  <1>8. h[n] = f[n]
    BY <1>1, <1>7
  <1>9. n + 1 \in 1..Len(c) /\ n + 1 - 1 = n
    BY <1>1
  <1>10. h[n + 1] = h[n] \o r.args
    <2> DEFINE m == n + 1
    <2>1. m \in 1..Len(c) /\ m - 1 = n /\ c[m] = r
      BY <1>1, <1>9
    <2> HIDE DEF m
    <2>2. h[m] = h[m - 1] \o c[m].args
      BY <1>4, <2>1, Zenon DEF Concats
    <2>3. h[m] = h[n] \o r.args
      BY <2>1, <2>2, Zenon
    <2> QED
      BY <2>3 DEF m
  <1>11. f[n] \in Seq(Seq(Int))
    BY <1>1, <1>3 DEF Concats
  <1> QED
    BY <1>3, <1>4, <1>8, <1>10, <1>11 DEF c

-----------------------------------------------------------------------------
(* The words of the input. *)

Char(z) == {"a", "b", "blank", "nl", "dquote", "squote", "bslash"}
           \cup IF z THEN {"nul"} ELSE {}

\* What the reference knows after some characters.
Word == [cur : Seq(Int), q : {"none", "dquote", "squote"}, esc : BOOLEAN, some : BOOLEAN,
         out : Seq(Seq(Int))]

\* A word that has not been begun.
LEMMA NoWordType == NoWord \in Word
  BY DEF NoWord, Word

\* The fields after a character is kept.
LEMMA KeepFields ==
    ASSUME NEW s \in Word, NEW n \in Int
    PROVE  /\ Keep(s, n) \in Word
           /\ Keep(s, n).cur = Append(s.cur, n) /\ Keep(s, n).q = s.q
           /\ Keep(s, n).some = TRUE /\ Keep(s, n).esc = FALSE /\ Keep(s, n).out = s.out
  <1>1. s.cur \in Seq(Int)
    BY DEF Word
  <1>2. Append(s.cur, n) \in Seq(Int)
    BY <1>1
  <1> QED
    BY <1>2, Zenon DEF Keep, Word

\* The fields after a separator.
LEMMA EndFields ==
    ASSUME NEW s \in Word
    PROVE  /\ End(s) \in Word
           /\ End(s).cur = <<>> /\ End(s).q = s.q
           /\ End(s).some = FALSE /\ End(s).esc = s.esc
           /\ End(s).out = IF s.some THEN Append(s.out, s.cur) ELSE s.out
  <1>1. s.cur \in Seq(Int) /\ s.out \in Seq(Seq(Int)) /\ <<>> \in Seq(Int)
    BY DEF Word
  <1>2. Append(s.out, s.cur) \in Seq(Seq(Int))
    BY <1>1
  <1> QED
    BY <1>1, <1>2, Zenon DEF End, Word

\* The fields after a quote.
LEMMA QuoteFields ==
    ASSUME NEW s \in Word, NEW c \in {"dquote", "squote"}
    PROVE  /\ Quote(s, c) \in Word
           /\ Quote(s, c).cur = s.cur /\ Quote(s, c).q = IF s.q = "none" THEN c ELSE "none"
           /\ Quote(s, c).some = (s.q = "none" \/ s.some)
           /\ Quote(s, c).esc = s.esc /\ Quote(s, c).out = s.out
  <1>1. s.some \in BOOLEAN
    BY Zenon DEF Word
  <1> QED
    BY <1>1, Zenon DEF Quote, Word

\* The fields after a backslash.
LEMMA EscapeFields ==
    ASSUME NEW s \in Word
    PROVE  /\ [s EXCEPT !.esc = TRUE] \in Word
           /\ [s EXCEPT !.esc = TRUE].cur = s.cur /\ [s EXCEPT !.esc = TRUE].q = s.q
           /\ [s EXCEPT !.esc = TRUE].some = s.some /\ [s EXCEPT !.esc = TRUE].esc = TRUE
           /\ [s EXCEPT !.esc = TRUE].out = s.out
  BY Zenon DEF Word

\* The cases of Reads().
LEMMA ReadsCases ==
    ASSUME NEW s \in Word, NEW n \in Int, NEW z \in BOOLEAN, NEW c \in Char(z)
    PROVE  /\ c = "nul" => Reads(s, n, c, z) = End(s)
           /\ z /\ c # "nul" => Reads(s, n, c, z) = Keep(s, n)
           /\ ~z /\ (s.esc \/ c \in {"a", "b"}) => Reads(s, n, c, z) = Keep(s, n)
           /\ ~z /\ ~s.esc /\ c \in {"dquote", "squote"} =>
                Reads(s, n, c, z) = IF s.q \in {"none", c} THEN Quote(s, c) ELSE Keep(s, n)
           /\ ~z /\ ~s.esc /\ c = "bslash" =>
                Reads(s, n, c, z) = IF s.q = "none" THEN [s EXCEPT !.esc = TRUE] ELSE Keep(s, n)
           /\ ~z /\ ~s.esc /\ c \in {"blank", "nl"} =>
                Reads(s, n, c, z) = IF s.q = "none" THEN End(s) ELSE Keep(s, n)
  <1> DEFINE t == [s EXCEPT !.esc = TRUE]
             e == s.esc
             q == s.q
             K == Keep(s, n)
             E == End(s)
             Q == Quote(s, c)
             R == Reads(s, n, c, z)
  <1>1. e \in BOOLEAN
    BY Zenon DEF Word
  <1>2. R = CASE c = "nul" -> E
              [] z /\ c # "nul" -> K
              [] ~z /\ (e \/ c \in {"a", "b"}) -> K
              [] ~z /\ ~e /\ c \in {"dquote", "squote"} -> IF q \in {"none", c} THEN Q ELSE K
              [] ~z /\ ~e /\ c = "bslash" -> IF q = "none" THEN t ELSE K
              [] ~z /\ ~e /\ c \in {"blank", "nl"} -> IF q = "none" THEN E ELSE K
    BY Zenon DEF Reads
  <1>3. ~z => c # "nul"
    BY DEF Char
  <1> HIDE DEF t, e, q, K, E, Q, R
  <1>4. /\ c = "nul" => R = E
        /\ z /\ c # "nul" => R = K
        /\ ~z /\ (e \/ c \in {"a", "b"}) => R = K
        /\ ~z /\ ~e /\ c \in {"dquote", "squote"} => R = IF q \in {"none", c} THEN Q ELSE K
        /\ ~z /\ ~e /\ c = "bslash" => R = IF q = "none" THEN t ELSE K
        /\ ~z /\ ~e /\ c \in {"blank", "nl"} => R = IF q = "none" THEN E ELSE K
    BY <1>1, <1>2, <1>3
  <1> QED
    BY <1>4, Zenon DEF t, e, q, K, E, Q, R

\* s begins with the words of r.
Prefix(r, s) == Len(r) <= Len(s) /\ \A k \in 1..Len(r) : r[k] = s[k]

\* A character is kept, ends a word or leaves the words alone.
LEMMA ReadsType ==
    ASSUME NEW s \in Word, NEW n \in Int, NEW z \in BOOLEAN, NEW c \in Char(z)
    PROVE  /\ Reads(s, n, c, z) \in Word
           /\ Reads(s, n, c, z).out \in {s.out, Append(s.out, s.cur)}
  <1> DEFINE R == Reads(s, n, c, z)
             Good(r) == r \in Word /\ r.out \in {s.out, Append(s.out, s.cur)}
             t == [s EXCEPT !.esc = TRUE]
  <1>1. Good(Keep(s, n))
    BY KeepFields, Zenon
  <1>2. Good(End(s))
    BY EndFields, Zenon
  <1>3. ASSUME c \in {"dquote", "squote"} PROVE Good(Quote(s, c))
    <2>1. Quote(s, c) \in Word /\ Quote(s, c).out = s.out
      BY <1>3, QuoteFields
    <2> QED
      BY <2>1, Zenon
  <1>4. Good(t)
    BY EscapeFields, Zenon
  <1>5. c \in {"nul", "a", "b", "dquote", "squote", "bslash", "blank", "nl"}
        /\ (~z => c # "nul") /\ s.esc \in BOOLEAN
    <2>1. c \in {"nul", "a", "b", "dquote", "squote", "bslash", "blank", "nl"}
          /\ (~z => c # "nul")
      BY DEF Char
    <2>2. s.esc \in BOOLEAN
      BY Zenon DEF Word
    <2> QED
      BY <2>1, <2>2
  <1>6. \/ R = Keep(s, n) \/ R = End(s) \/ R = t
        \/ c \in {"dquote", "squote"} /\ R = Quote(s, c)
    <2> HIDE DEF R, t
    <2>1. CASE c = "nul"
      BY <2>1, ReadsCases, ZenonT(60) DEF R
    <2>2. CASE c # "nul" /\ z
      BY <2>2, ReadsCases, Zenon DEF R
    <2>3. CASE ~z /\ (s.esc \/ c \in {"a", "b"})
      BY <2>3, ReadsCases, Zenon DEF R
    <2>4. CASE ~z /\ ~s.esc /\ c \in {"dquote", "squote"}
      BY <2>4, ReadsCases, Zenon DEF R
    <2>5. CASE ~z /\ ~s.esc /\ c = "bslash"
      BY <2>5, ReadsCases, ZenonT(60) DEF R, t
    <2>6. CASE ~z /\ ~s.esc /\ c \in {"blank", "nl"}
      BY <2>6, ReadsCases, ZenonT(60) DEF R
    <2> QED
      BY <1>5, <2>1, <2>2, <2>3, <2>4, <2>5, <2>6, Zenon
  <1> HIDE DEF R, Good, t
  <1>7. Good(R)
    BY <1>1, <1>2, <1>3, <1>4, <1>6, Zenon
  <1> QED
    BY <1>7, Zenon DEF Good, R

\* A sequence begins with itself, and with what it was before it was extended.
LEMMA PrefixAppend ==
    ASSUME NEW X, NEW r \in Seq(X), NEW s \in Seq(X), NEW x \in X, Prefix(r, s)
    PROVE  Prefix(r, Append(s, x)) /\ Prefix(s, s) /\ Prefix(s, Append(s, x))
  <1>1. /\ Append(s, x) \in Seq(X) /\ Len(Append(s, x)) = Len(s) + 1
        /\ \A k \in 1..Len(s) : Append(s, x)[k] = s[k]
    BY AppendProperties
  <1>2. Len(r) \in Nat /\ Len(s) \in Nat
    OBVIOUS
  <1> QED
    BY <1>1, <1>2 DEF Prefix

\* What begins with what begins with r begins with r.
LEMMA PrefixTrans ==
    ASSUME NEW X, NEW r \in Seq(X), NEW s \in Seq(X), NEW t \in Seq(X), Prefix(r, s), Prefix(s, t)
    PROVE  Prefix(r, t)
  <1>1. Len(r) \in Nat /\ Len(s) \in Nat /\ Len(t) \in Nat
    OBVIOUS
  <1>2. Len(r) <= Len(t)
    BY <1>1 DEF Prefix
  <1>3. ASSUME NEW k \in 1..Len(r) PROVE r[k] = t[k]
    <2>1. k \in 1..Len(s)
      BY <1>1 DEF Prefix
    <2> QED
      BY <2>1, Zenon DEF Prefix
  <1> QED
    BY <1>2, <1>3 DEF Prefix

\* The recursion of WordsUpTo().
LEMMA WordsUnfold ==
    ASSUME NEW z \in BOOLEAN, NEW i \in Seq(Char(z))
    PROVE  /\ WordsUpTo(i, z, 0) = NoWord
           /\ \A n \in 1..Len(i) :
                 WordsUpTo(i, z, n) = Reads(WordsUpTo(i, z, n - 1), n, i[n], z)
           /\ \A n \in 0..Len(i) : WordsUpTo(i, z, n) \in Word
  <1> DEFINE n == Len(i)
             g == [k \in 1..n |-> [x \in Word |-> Reads(x, k, i[k], z)]]
             Def(f) == f = [k \in 0..n |-> IF k = 0 THEN NoWord ELSE Reads(f[k - 1], k, i[k], z)]
             up == CHOOSE f : Def(f)
  <1>1. n \in Nat /\ \A k \in 1..n : i[k] \in Char(z) /\ k \in Int
    OBVIOUS
  <1> HIDE DEF n
  <1>2. \A k \in 1..n, x \in Word : Reads(x, k, i[k], z) \in Word
    BY <1>1, ReadsType
  <1>3. g \in [1..n -> [Word -> Word]]
    BY <1>2
  <1>4. PICK h \in [0..n -> Word] : Follows(h, n, NoWord, g)
    <2> HIDE DEF g
    <2> QED
      BY <1>1, <1>3, NoWordType, Recursion
  <1>5. h[0] = NoWord /\ \A k \in 1..n : h[k] = Reads(h[k - 1], k, i[k], z)
    <2>1. ASSUME NEW k \in 1..n PROVE h[k] = Reads(h[k - 1], k, i[k], z)
      <3>1. k - 1 \in 0..n
        BY <1>1
      <3>2. h[k - 1] \in Word /\ h[k] = g[k][h[k - 1]]
        BY <1>4, <3>1, Zenon DEF Follows
      <3> QED
        BY <3>2, Zenon
    <2> QED
      BY <1>4, <2>1, Zenon DEF Follows
  <1>6. Def(h)
    <2>1. \A k \in 0..n : h[k] = IF k = 0 THEN NoWord ELSE Reads(h[k - 1], k, i[k], z)
      <3>1. \A k \in 0..n : k = 0 \/ k \in 1..n
        BY <1>1
      <3> QED
        BY <1>5, <3>1, Zenon
    <2> QED
      BY <2>1
  <1>7. Def(up)
    <2> HIDE DEF Def
    <2> QED
      BY <1>6, Zenon
  <1>8. \A k : WordsUpTo(i, z, k) = up[k]
    BY Zenon DEF WordsUpTo, n
  <1> HIDE DEF up
  <1>9. up[0] = NoWord /\ \A k \in 1..n : up[k] = Reads(up[k - 1], k, i[k], z)
    BY <1>1, <1>7
  <1>10. \A k \in 0..n : up[k] \in Word
    <2> DEFINE T == {k \in 0..n : up[k] \in Word}
    <2>1. 0 \in T
      BY <1>1, <1>9, NoWordType
    <2>2. \A k \in 1..n : k - 1 \in T => k \in T
      BY <1>1, <1>2, <1>9
    <2> HIDE DEF T
    <2>3. \A k \in 0..n : k \in T
      BY <1>1, <2>1, <2>2, UpTo
    <2> QED
      BY <2>3 DEF T
  <1> QED
    BY <1>8, <1>9, <1>10, Zenon DEF n

\* All words of the input extend those of its first n characters.
LEMMA WordsExtend ==
    ASSUME NEW z \in BOOLEAN, NEW i \in Seq(Char(z)), NEW n \in 0..Len(i)
    PROVE  /\ Prefix(WordsUpTo(i, z, n).out, End(WordsUpTo(i, z, Len(i))).out)
           /\ End(WordsUpTo(i, z, Len(i))).out \in Seq(Seq(Int))
           /\ WordsUpTo(i, z, n).out \in Seq(Seq(Int))
  <1> DEFINE W(k) == WordsUpTo(i, z, k)
             m == Len(i)
             X == Seq(Int)
             T == {k \in 0..m : k < n \/ Prefix(W(n).out, W(k).out)}
  <1>1. m \in Nat /\ \A k \in 1..m : i[k] \in Char(z) /\ k \in Int
    OBVIOUS
  <1>2. \A k \in 0..m : W(k) \in Word /\ W(k).out \in Seq(X) /\ W(k).cur \in X
    <2>1. \A k \in 0..m : W(k) \in Word
      BY WordsUnfold, Zenon
    <2> HIDE DEF W
    <2> QED
      BY <2>1 DEF Word
  <1>3. \A k \in 1..m : W(k).out \in {W(k - 1).out, Append(W(k - 1).out, W(k - 1).cur)}
    <2> TAKE k \in 1..m
    <2>1. W(k) = Reads(W(k - 1), k, i[k], z) /\ W(k - 1) \in Word
      <3>1. k - 1 \in 0..m
        BY <1>1
      <3> QED
        BY <1>2, <3>1, WordsUnfold, Zenon
    <2> HIDE DEF W
    <2> QED
      BY <1>1, <2>1, ReadsType
  <1>4. n \in 0..m
    OBVIOUS
  <1> HIDE DEF W, m, X
  <1>5. Prefix(W(n).out, W(n).out)
    BY <1>2, <1>4 DEF Prefix
  <1>6. 0 \in T
    BY <1>1, <1>4, <1>5
  <1>7. ASSUME NEW k \in 1..m, k - 1 \in T PROVE k \in T
    <2>1. k - 1 \in 0..m /\ k \in 0..m
      BY <1>1
    <2>2. CASE k < n
      BY <2>1, <2>2
    <2>3. CASE k = n
      BY <1>5, <2>1, <2>3
    <2>4. CASE n <= k - 1
      <3>1. Prefix(W(n).out, W(k - 1).out)
        BY <1>1, <1>4, <1>7, <2>1, <2>4
      <3>2. Prefix(W(n).out, Append(W(k - 1).out, W(k - 1).cur))
        BY <1>2, <1>4, <2>1, <3>1, PrefixAppend
      <3> QED
        BY <1>3, <2>1, <3>1, <3>2, Zenon
    <2> QED
      BY <1>1, <1>4, <2>2, <2>3, <2>4
  <1>8. \A k \in 0..m : k \in T
    <2> HIDE DEF T
    <2> QED
      BY <1>1, <1>6, <1>7, UpTo
  <1>9. Prefix(W(n).out, W(m).out)
    BY <1>1, <1>4, <1>5, <1>8
  <1>10. End(W(m)).out \in {W(m).out, Append(W(m).out, W(m).cur)}
    <2>1. W(m) \in Word
      BY <1>1, <1>2
    <2> QED
      BY <2>1, EndFields, Zenon
  <1>11. /\ Prefix(W(n).out, Append(W(m).out, W(m).cur))
         /\ Append(W(m).out, W(m).cur) \in Seq(X)
    BY <1>1, <1>2, <1>4, <1>9, PrefixAppend
  <1>12. /\ Prefix(W(n).out, End(W(m)).out) /\ End(W(m)).out \in Seq(X) /\ W(n).out \in Seq(X)
    <2>1. m \in 0..m
      BY <1>1
    <2> QED
      BY <1>2, <1>4, <1>9, <1>10, <1>11, <2>1, Zenon
  <1> QED
    BY <1>12, Zenon DEF W, m, X

-----------------------------------------------------------------------------
(* The arguments in the buffer. *)

\* The complete arguments are the bytes between the pointers.
LEMMA StringsPacked ==
    ASSUME NEW n \in Nat, NEW b \in [0..n -> Int], NEW a \in Seq(Nat), NEW e \in Nat, e <= n + 1,
           Packed(b, a, e)
    PROVE  /\ Strings(b, a) \in Seq(Seq(Int)) /\ Len(Strings(b, a)) = Len(a)
           /\ \A k \in 1..Len(a) :
                 /\ a[k] \in Nat /\ EndOf(a, e, k) \in Nat /\ EndOf(a, e, k) <= e
                 /\ Strings(b, a)[k] = Between(b, a[k], EndOf(a, e, k) - 1)
  <1> DEFINE E(k) == EndOf(a, e, k)
             s == Strings(b, a)
             m == Len(a)
  <1>1. ASSUME NEW k \in 1..m
        PROVE  /\ a[k] \in Nat /\ E(k) \in Nat /\ E(k) <= e
               /\ StringAt(b, a[k]) = Between(b, a[k], E(k) - 1)
               /\ StringAt(b, a[k]) \in Seq(Int)
    <2>1. a[k] \in Nat /\ E(k) \in Nat
      BY SMTT(60) DEF EndOf
    <2>2. /\ a[k] < E(k) /\ E(k) <= e /\ b[E(k) - 1] = Nul
          /\ \A i \in a[k]..(E(k) - 2) : b[i] # Nul
      BY DEF Packed
    <2> DEFINE d == E(k) - 1
    <2>3. /\ d \in Nat /\ a[k] <= d /\ d <= n /\ b[d] = Nul
          /\ \A i \in a[k]..(d - 1) : b[i] # Nul
      BY <2>1, <2>2, SMTT(60)
    <2> DEFINE o == a[k]
    <2>4. o \in Nat /\ o <= d /\ \A i \in o..(d - 1) : b[i] # Nul
      BY <2>1, <2>3
    <2> HIDE DEF E, d, o
    <2>5. StringAt(b, o) = Between(b, o, d) /\ StringAt(b, o) \in Seq(Int)
      BY <2>3, <2>4, StringEnds, ZenonT(60)
    <2> QED
      BY <2>1, <2>2, <2>5, Zenon DEF d, o
  <1>2. s = [k \in 1..m |-> StringAt(b, a[k])] /\ m \in Nat
    BY DEF Strings
  <1> HIDE DEF E, s, m
  <1>3. s \in [1..m -> Seq(Int)]
    BY <1>1, <1>2
  <1>4. s \in Seq(Seq(Int)) /\ Len(s) = m
    BY <1>2, <1>3
  <1>5. ASSUME NEW k \in 1..m
        PROVE  /\ a[k] \in Nat /\ E(k) \in Nat /\ E(k) <= e
               /\ s[k] = Between(b, a[k], E(k) - 1)
    <2>1. s[k] = StringAt(b, a[k])
      BY <1>2
    <2> QED
      BY <1>1, <2>1, Zenon
  <1> QED
    BY <1>4, <1>5, Zenon DEF E, s, m

\* They stay as long as their bytes do.
LEMMA StringsStay ==
    ASSUME NEW n \in Nat, NEW b \in [0..n -> Int], NEW c \in [0..n -> Int], NEW a \in Seq(Nat),
           NEW e \in Nat, e <= n + 1, \A k \in 0..(e - 1) : c[k] = b[k], Packed(b, a, e)
    PROVE  Strings(c, a) = Strings(b, a)
  <1> DEFINE E(k) == EndOf(a, e, k)
             s == Strings(b, a)
             t == Strings(c, a)
             m == Len(a)
  <1>1. Packed(c, a, e)
    BY PackedStays
  <1>2. /\ s \in Seq(Seq(Int)) /\ Len(s) = m
        /\ \A k \in 1..m : /\ a[k] \in Nat /\ E(k) \in Nat /\ E(k) <= e
                           /\ s[k] = Between(b, a[k], E(k) - 1)
    BY StringsPacked
  <1>3. /\ t \in Seq(Seq(Int)) /\ Len(t) = m
        /\ \A k \in 1..m : t[k] = Between(c, a[k], E(k) - 1)
    BY <1>1, StringsPacked, ZenonT(60)
  <1>4. ASSUME NEW k \in 1..m PROVE t[k] = s[k]
    <2> DEFINE l == E(k) - 1
               f == a[k]
    <2> HIDE DEF s, t
    <2>1. f \in Nat /\ E(k) \in Nat /\ E(k) <= e
      BY <1>2
    <2> HIDE DEF E
    <2>2. f \in Nat /\ l \in Int /\ l <= e - 1
      BY <2>1, SMTT(60)
    <2>3. s[k] = Between(b, f, l) /\ t[k] = Between(c, f, l)
      BY <1>2, <1>3, Zenon
    <2> HIDE DEF l, f
    <2>4. \A j \in 1..(l - f) : c[f + j - 1] = b[f + j - 1]
      BY <2>2
    <2> QED
      BY <2>2, <2>3, <2>4 DEF Between
  <1>5. m \in Nat
    OBVIOUS
  <1> HIDE DEF E, s, t, m
  <1>6. t = s
    BY <1>2, <1>3, <1>4, <1>5, SeqEqual
  <1> QED
    BY <1>6 DEF s, t

\* The arguments a in a buffer b of n + 1 bytes.
Layout(n, b, a, e) ==
    /\ n \in Nat /\ b \in [0..n -> Int] /\ a \in Seq(Nat) /\ e \in Nat /\ e <= n + 1
    /\ Packed(b, a, e)

\* They are as many strings as there are pointers.
LEMMA StringsTyped ==
    ASSUME NEW n, NEW b, NEW a, NEW e, Layout(n, b, a, e)
    PROVE  Strings(b, a) \in Seq(Seq(Int)) /\ Len(Strings(b, a)) = Len(a)
  BY StringsPacked, Zenon DEF Layout

\* The begun argument becomes the last complete one.
LEMMA StringsAppend ==
    ASSUME NEW n \in Nat, NEW b \in [0..n -> Int], NEW a \in Seq(Nat), NEW e \in Nat,
           NEW q \in Nat, e <= q, q <= n, \A k \in e..(q - 1) : b[k] # Nul, Packed(b, a, e)
    PROVE  /\ Strings([b EXCEPT ![q] = Nul], Append(a, e)) = Append(Strings(b, a), Between(b, e, q))
           /\ Between(b, e, q) \in Seq(Int) /\ Len(Between(b, e, q)) = q - e
           /\ StringAt([b EXCEPT ![q] = Nul], e) = Between(b, e, q)
  <1> DEFINE c == [b EXCEPT ![q] = Nul]
             d == Append(a, e)
             s == Strings(b, a)
             t == Strings(c, d)
             u == Between(b, e, q)
             m == Len(a)
  <1>1. /\ c \in [0..n -> Int] /\ c[q] = Nul
        /\ \A k \in 0..n : k # q => c[k] = b[k]
    BY DEF Nul
  <1>2. /\ d \in Seq(Nat) /\ Len(d) = m + 1 /\ m \in Nat
        /\ d[m + 1] = e /\ \A k \in 1..m : d[k] = a[k]
    BY AppendProperties
  <1>3. Packed(c, d, q + 1)
    BY PackedAppend
  <1>4. u \in Seq(Int) /\ Len(u) = q - e
    <2> DEFINE l == q - e
    <2>1. u \in [1..l -> Int] /\ l \in Nat
      BY DEF Between
    <2> HIDE DEF l, u
    <2>2. u \in Seq(Int) /\ Len(u) = l
      BY <2>1
    <2> QED
      BY <2>2 DEF l
  <1> HIDE DEF c, d, u
  <1>5. StringAt(c, e) = u
    <2>1. \A k \in e..(q - 1) : c[k] # Nul
      BY <1>1
    <2>2. StringAt(c, e) = Between(c, e, q)
      BY <1>1, <2>1, StringEnds, ZenonT(60)
    <2>3. \A k \in 1..(q - e) : c[e + k - 1] = b[e + k - 1]
      BY <1>1
    <2> QED
      BY <2>2, <2>3 DEF u, Between
  <1>6. e <= n + 1 /\ q + 1 \in Nat /\ q + 1 <= n + 1
    OBVIOUS
  <1>7. s \in Seq(Seq(Int)) /\ Len(s) = m
    BY <1>6, StringsPacked
  <1>8. t \in Seq(Seq(Int)) /\ Len(t) = m + 1
    <2>1. Layout(n, c, d, q + 1)
      BY <1>1, <1>2, <1>3, <1>6, Zenon DEF Layout
    <2>2. t \in Seq(Seq(Int)) /\ Len(t) = Len(d)
      BY <2>1, StringsTyped
    <2> QED
      BY <1>2, <2>2, Zenon
  <1>9. \A k \in 1..(m + 1) : t[k] = StringAt(c, d[k])
    BY <1>2 DEF Strings
  <1>10. \A k \in 1..m : s[k] = StringAt(b, a[k])
    BY DEF Strings
  <1>11. t[m + 1] = u
    BY <1>2, <1>5, <1>9
  <1>12. ASSUME NEW k \in 1..m PROVE t[k] = s[k]
    <2>1. k \in 1..(m + 1) /\ d[k] = a[k]
      BY <1>2
    <2>2. t[k] = StringAt(c, a[k])
      BY <1>9, <2>1, Zenon
    <2>3. Strings(c, a) = Strings(b, a)
      <3>1. \A j \in 0..(e - 1) : c[j] = b[j]
        BY <1>1
      <3> QED
        BY <1>1, <1>6, <3>1, StringsStay, ZenonT(60)
    <2>4. Strings(c, a)[k] = StringAt(c, a[k])
      BY DEF Strings
    <2> QED
      BY <2>2, <2>3, <2>4, Zenon
  <1> HIDE DEF s, t, m
  <1>13. t = Append(s, u)
    <2>1. /\ Append(s, u) \in Seq(Seq(Int)) /\ Len(Append(s, u)) = m + 1
          /\ Append(s, u)[m + 1] = u /\ \A k \in 1..m : Append(s, u)[k] = s[k]
      BY <1>4, <1>7
    <2>2. \A k \in 1..(m + 1) : k = m + 1 \/ k \in 1..m
      BY <1>2
    <2>3. \A k \in 1..Len(t) : t[k] = Append(s, u)[k]
      BY <1>8, <1>11, <1>12, <2>1, <2>2, Zenon
    <2> QED
      BY <1>8, <2>1, <2>3, SeqEqual
  <1> QED
    BY <1>4, <1>5, <1>13, Zenon DEF c, d, s, t, u

\* What lies between two offsets.
LEMMA BetweenType ==
    ASSUME NEW n \in Nat, NEW b \in [0..n -> Int], NEW o \in Nat, NEW e \in Nat, o <= e, e <= n + 1
    PROVE  /\ Between(b, o, e) \in Seq(Int) /\ Len(Between(b, o, e)) = e - o
           /\ \A k \in 1..(e - o) : Between(b, o, e)[k] = b[o + k - 1]
  <1> DEFINE s == Between(b, o, e)
             l == e - o
  <1>1. s = [k \in 1..l |-> b[o + k - 1]] /\ l \in Nat /\ e = o + l
    BY DEF Between
  <1> HIDE DEF s, l
  <1>2. \A k \in 1..l : b[o + k - 1] \in Int
    <2> TAKE k \in 1..l
    <2>1. o + k - 1 \in 0..n
      BY <1>1
    <2> QED
      BY <2>1
  <1>3. s \in [1..l -> Int] /\ \A k \in 1..l : s[k] = b[o + k - 1]
    BY <1>1, <1>2
  <1>4. s \in Seq(Int) /\ Len(s) = l
    BY <1>1, <1>3
  <1> QED
    BY <1>3, <1>4 DEF s, l

(* The bytes from o to e of b are in c from q on, and then up to d one     *)
(* more, x.                                                                *)
Moved(n, b, o, e, c, q, d, x) ==
    /\ n \in Nat /\ b \in [0..n -> Int] /\ c \in [0..n -> Int] /\ x \in Int
    /\ o \in Nat /\ e \in Nat /\ q \in Nat /\ o <= e /\ e <= n + 1
    /\ d = q + (e - o) + 1 /\ d <= n + 1
    /\ \A k \in 0..(e - o - 1) : c[q + k] = b[o + k]
    /\ c[q + (e - o)] = x

\* One more byte after bytes that may have been moved.
LEMMA BetweenMore ==
    ASSUME NEW n, NEW b, NEW o, NEW e, NEW c, NEW q, NEW d, NEW x, Moved(n, b, o, e, c, q, d, x)
    PROVE  Between(c, q, d) = Append(Between(b, o, e), x)
  <1> DEFINE l == e - o
             s == Between(b, o, e)
             t == Between(c, q, d)
  <1>1. /\ l \in Nat /\ d - q = l + 1 /\ x \in Int /\ q \in Nat /\ o \in Nat
    BY DEF Moved
  <1>2. n \in Nat /\ b \in [0..n -> Int] /\ o \in Nat /\ e \in Nat /\ o <= e /\ e <= n + 1
    BY DEF Moved
  <1>3. n \in Nat /\ c \in [0..n -> Int] /\ q \in Nat /\ d \in Nat /\ q <= d /\ d <= n + 1
    BY DEF Moved
  <1>4. c[q + l] = x /\ \A k \in 0..(l - 1) : c[q + k] = b[o + k]
    BY Zenon DEF Moved
  <1>5. s \in Seq(Int) /\ Len(s) = l /\ \A k \in 1..l : s[k] = b[o + k - 1]
    <2>1. /\ Between(b, o, e) \in Seq(Int) /\ Len(Between(b, o, e)) = e - o
          /\ \A k \in 1..(e - o) : Between(b, o, e)[k] = b[o + k - 1]
      BY <1>2, BetweenType, ZenonT(60)
    <2> QED
      BY <2>1, Zenon
  <1>6. t \in Seq(Int) /\ Len(t) = l + 1 /\ \A k \in 1..(l + 1) : t[k] = c[q + k - 1]
    <2>1. t \in Seq(Int) /\ Len(t) = d - q /\ \A k \in 1..(d - q) : t[k] = c[q + k - 1]
      BY <1>3, BetweenType, ZenonT(60)
    <2> QED
      BY <1>1, <2>1
  <1> HIDE DEF l, s, t
  <1>7. ASSUME NEW k \in 1..l PROVE t[k] = s[k]
    <2>1. /\ k - 1 \in 0..(l - 1) /\ q + (k - 1) = q + k - 1 /\ o + (k - 1) = o + k - 1
          /\ k \in 1..(l + 1)
      BY <1>1
    <2>2. c[q + (k - 1)] = b[o + (k - 1)]
      BY <1>4, <2>1
    <2> QED
      BY <1>5, <1>6, <2>1, <2>2
  <1>8. t[l + 1] = x
    <2>1. l + 1 \in 1..(l + 1) /\ q + (l + 1) - 1 = q + l
      BY <1>1
    <2> QED
      BY <1>4, <1>6, <2>1
  <1>9. t = Append(s, x)
    <2>1. /\ Append(s, x) \in Seq(Int) /\ Len(Append(s, x)) = l + 1
          /\ Append(s, x)[l + 1] = x /\ \A k \in 1..l : Append(s, x)[k] = s[k]
      <3>1. s \in Seq(Int) /\ Len(s) = l /\ x \in Int
        BY <1>1, <1>5, Zenon
      <3> QED
        BY <3>1, AppendProperties, SMTT(60)
    <2>2. \A k \in 1..(l + 1) : k = l + 1 \/ k \in 1..l
      BY <1>1
    <2>3. \A k \in 1..Len(t) : t[k] = Append(s, x)[k]
      BY <1>6, <1>7, <1>8, <2>1, <2>2, Zenon
    <2> QED
      BY <1>6, <2>1, <2>3, SeqEqual
  <1> QED
    BY <1>9 DEF s, t

-----------------------------------------------------------------------------
(* What a step delivers. *)

\* The arguments of every run so far are sequences of positions.
RunsTyped ==
    \E S : batches \in Seq(S) /\ \A k \in 1..Len(batches) : batches[k].args \in Seq(Seq(Int))

\* What the utilities have been given, and what waits in the buffer.
Seen == Delivered \o Strings(buf, args)

\* What was delivered is a sequence of arguments, and so is one more run's.
LEMMA DeliveredMore ==
    ASSUME RunsTyped, NEW r, r.args \in Seq(Seq(Int)), batches' = Append(batches, r)
    PROVE  RunsTyped' /\ Delivered' = Delivered \o r.args
  <1>1. PICK S : batches \in Seq(S) /\ \A k \in 1..Len(batches) : batches[k].args \in Seq(Seq(Int))
    BY Zenon DEF RunsTyped
  <1> DEFINE U == S \cup {r}
             b == batches
             c == batches'
  <1>2. S \subseteq U /\ r \in U
    OBVIOUS
  <1> HIDE DEF U
  <1>3. b \in Seq(U)
    BY <1>1, <1>2
  <1>4. /\ c \in Seq(U) /\ Len(c) = Len(b) + 1 /\ c[Len(b) + 1] = r /\ Len(b) \in Nat
        /\ \A k \in 1..Len(b) : c[k] = b[k]
    BY <1>2, <1>3
  <1>5. \A k \in 1..Len(c) : c[k].args \in Seq(Seq(Int))
    <2> TAKE k \in 1..Len(c)
    <2>1. k = Len(b) + 1 \/ k \in 1..Len(b)
      BY <1>4
    <2> QED
      BY <1>1, <1>4, <2>1, Zenon
  <1>6. RunsTyped'
    BY <1>4, <1>5, Zenon DEF RunsTyped
  <1>7. ArgsOf(c) = ArgsOf(b) \o r.args
    BY <1>1, <1>2, <1>3, ArgsOfOneMore
  <1> QED
    BY <1>6, <1>7, Zenon DEF Delivered

\* What was delivered is a sequence of arguments.
LEMMA DeliveredType ==
    ASSUME RunsTyped
    PROVE  Delivered \in Seq(Seq(Int))
  <1>1. PICK S : batches \in Seq(S) /\ \A k \in 1..Len(batches) : batches[k].args \in Seq(Seq(Int))
    BY Zenon DEF RunsTyped
  <1>2. PICK f : Concats(f, batches) /\ ArgsOf(batches) = f[Len(batches)]
    BY <1>1, ArgsOfRuns
  <1>3. Len(batches) \in 0..Len(batches)
    BY <1>1
  <1> QED
    BY <1>2, <1>3, Zenon DEF Concats, Delivered

\* run(), for the arguments a.
LEMMA RunFacts ==
    ASSUME RunsTyped, phase = "read", NEW a \in Seq(Seq(Int)), NEW line,
           Run(a, line) \/ RunFails
    PROVE  /\ RunsTyped'
           /\ \/ phase' = "exit" /\ code' = 1 /\ Delivered' = Delivered
              \/ /\ phase' \in {"wait", IF last' THEN "waitall" ELSE "read"} /\ code' = code
                 /\ Delivered' = Delivered \o a
  <1>1. CASE RunFails
    <2>1. batches' = batches /\ phase' = "exit" /\ code' = 1
      BY <1>1, Zenon DEF RunFails, Exit, pool
    <2> QED
      BY <2>1, Zenon DEF RunsTyped, Delivered
  <1>2. CASE Run(a, line)
    <2> DEFINE r == [args |-> a, argv |-> Prerun(a, line)]
    <2>1. batches' = Append(batches, r) /\ r.args = a
      BY <1>2, Zenon DEF Run
    <2> HIDE DEF r
    <2>2. RunsTyped' /\ Delivered' = Delivered \o a
      BY <2>1, DeliveredMore
    <2>3. phase' \in {"wait", IF last' THEN "waitall" ELSE "read"} /\ code' = code
      BY <1>2, Zenon DEF Run, Execute, Declined
    <2> QED
      BY <2>2, <2>3, Zenon
  <1> QED
    BY <1>1, <1>2

\* ADDCH(): the begun argument gets the character, and no argument is lost or added.
LEMMA AddAnyFacts ==
    ASSUME BufferInv, RunsTyped, phase = "read", last' = FALSE, opt' = opt,
           NEW pos \in Nat \ {0}, AddAny(pos)
    PROVE  /\ RunsTyped'
           /\ \/ phase' = "exit" /\ code' = 1 /\ Seen' \in {Seen, Delivered}
              \/ /\ phase' \in {"read", "wait"} /\ code' = code /\ Seen' = Seen /\ argp' # p'
                 /\ Between(buf', argp', p') = Append(Between(buf, argp, p), pos)
  <1>1. /\ opt.nline \in Nat \ {0} /\ ebp = opt.nline - 1
        /\ buf \in [0..opt.nline -> Int] /\ p \in Nat /\ argp \in Nat /\ args \in Seq(Nat)
        /\ argp <= p /\ p <= ebp /\ Packed(buf, args, argp)
    BY Limits DEF BufferInv
  <1>2. /\ opt.nline \in Nat /\ argp <= opt.nline + 1
    BY <1>1
  <1>3. Strings(buf, args) \in Seq(Seq(Int))
    BY <1>1, <1>2, StringsPacked
  <1>4. CASE AddChRefused
    <2>1. UNCHANGED <<buf, p, argp, args, batches>> /\ phase' = "exit" /\ code' = 1
      BY <1>4, Zenon DEF AddChRefused, Exit, pool
    <2> QED
      BY <2>1, Zenon DEF RunsTyped, Seen, Delivered
  <1>5. CASE AddCh(pos)
    <2>1. /\ p < ebp /\ buf' = [buf EXCEPT ![p] = pos] /\ p' = p + 1
          /\ UNCHANGED <<argp, args, phase, code, batches>>
      BY <1>5, Zenon DEF AddCh, pool
    <2>2. /\ buf' \in [0..opt.nline -> Int] /\ buf'[p] = pos
          /\ \A k \in 0..opt.nline : k # p => buf'[k] = buf[k]
      BY <1>1, <2>1
    <2>3. Strings(buf', args) = Strings(buf, args)
      <3>1. \A k \in 0..(argp - 1) : buf'[k] = buf[k]
        BY <1>1, <2>1, <2>2
      <3> QED
        BY <1>1, <1>2, <2>2, <3>1, StringsStay, ZenonT(60)
    <2>4. Seen' = Seen /\ RunsTyped'
      BY <2>1, <2>3, Zenon DEF Seen, Delivered, RunsTyped
    <2>5. Between(buf', argp', p') = Append(Between(buf, argp, p), pos)
      <3>1. Moved(opt.nline, buf, argp, p, buf', argp, p', pos)
        BY <1>1, <2>1, <2>2 DEF Moved
      <3>2. Between(buf', argp, p') = Append(Between(buf, argp, p), pos)
        BY <3>1, BetweenMore
      <3> QED
        BY <2>1, <3>2, Zenon
    <2>6. argp' # p'
      BY <1>1, <2>1
    <2> QED
      BY <2>1, <2>4, <2>5, <2>6, Zenon
  <1>6. CASE AddChCarry(pos)
    <2>1. /\ p >= ebp /\ p' = Carried + 1 /\ argp' = 0 /\ args' = <<>>
          /\ buf' = [k \in 0..opt.nline |->
                       IF k < Carried THEN buf[argp + k]
                       ELSE IF k = Carried THEN pos ELSE buf[k]]
          /\ Run(Strings(buf, args), inpline.text) \/ RunFails
      BY <1>6 DEF AddChCarry
    <2>2. /\ RunsTyped'
          /\ \/ phase' = "exit" /\ code' = 1 /\ Delivered' = Delivered
             \/ /\ phase' \in {"wait", "read"} /\ code' = code
                /\ Delivered' = Delivered \o Strings(buf, args)
      <3>1. IF last' THEN "waitall" ELSE "read" = "read"
        OBVIOUS
      <3> QED
        BY <1>3, <2>1, RunFacts, Zenon
    <2>3. Seen' = Delivered'
      <3>1. Strings(buf', args') = <<>>
        BY <2>1 DEF Strings
      <3>2. Delivered' \in Seq(Seq(Int))
        <4>1. Delivered \in Seq(Seq(Int))
          BY DeliveredType
        <4>2. Delivered \o Strings(buf, args) \in Seq(Seq(Int))
          BY <1>3, <4>1
        <4> QED
          BY <2>2, <4>1, <4>2, Zenon
      <3>3. Delivered' \o <<>> = Delivered'
        BY <3>2
      <3> QED
        BY <3>1, <3>3, Zenon DEF Seen
    <2>4. Between(buf', argp', p') = Append(Between(buf, argp, p), pos)
      <3> DEFINE l == Carried
      <3>1. l \in Nat /\ l = p - argp /\ p' = l + 1 /\ l \in 0..opt.nline /\ argp' = 0
        <4>1. p = ebp /\ l = ebp - argp /\ p' = l + 1 /\ argp' = 0
          BY <1>1, <2>1 DEF Carried
        <4> HIDE DEF l
        <4>2. ebp \in Nat /\ argp \in Nat /\ argp <= ebp /\ ebp <= opt.nline
          BY <1>1
        <4> QED
          BY <1>2, <4>1, <4>2
      <3>2. buf' = [k \in 0..opt.nline |->
                      IF k < l THEN buf[argp + k] ELSE IF k = l THEN pos ELSE buf[k]]
        BY <2>1, Zenon
      <3> HIDE DEF l
      <3>3. \A k \in 0..opt.nline : k < l => argp + k \in 0..opt.nline
        BY <1>1, <3>1
      <3>4. buf' \in [0..opt.nline -> Int]
        BY <1>1, <3>2, <3>3
      <3>5. ASSUME NEW k \in 0..(p - argp - 1) PROVE buf'[argp' + k] = buf[argp + k]
        <4>1. argp' + k = k /\ k \in 0..opt.nline /\ k < l
          BY <1>1, <3>1
        <4> QED
          BY <3>2, <4>1
      <3>6. buf'[argp' + (p - argp)] = pos /\ pos \in Int
        <4>1. argp' + (p - argp) = l
          BY <3>1
        <4> QED
          BY <3>1, <3>2, <4>1
      <3>7. /\ argp' \in Nat /\ p <= opt.nline + 1 /\ p' = argp' + (p - argp) + 1
            /\ p' <= opt.nline + 1
        BY <1>1, <3>1
      <3>8. Moved(opt.nline, buf, argp, p, buf', argp', p', pos)
        BY <1>1, <1>2, <3>4, <3>5, <3>6, <3>7 DEF Moved
      <3> QED
        BY <3>8, BetweenMore
    <2>5. argp' # p'
      BY <1>1, <2>1 DEF Carried
    <2> QED
      BY <2>2, <2>3, <2>4, <2>5, Zenon DEF Seen
  <1> QED
    BY <1>4, <1>5, <1>6 DEF AddAny

\* The same after a step.
LEMMA DeliveredTypeNext ==
    ASSUME RunsTyped'
    PROVE  Delivered' \in Seq(Seq(Int))
  <1>1. PICK S : /\ batches' \in Seq(S)
                 /\ \A k \in 1..Len(batches') : batches'[k].args \in Seq(Seq(Int))
    BY Zenon DEF RunsTyped
  <1>2. PICK f : Concats(f, batches') /\ ArgsOf(batches') = f[Len(batches')]
    BY <1>1, ArgsOfRuns
  <1>3. Len(batches') \in 0..Len(batches')
    BY <1>1
  <1> QED
    BY <1>2, <1>3, Zenon DEF Concats, Delivered

\* Does the end of the begun argument make one?  And what has been seen then?
Makes == (argp # p \/ wasquoted) /\ ~FoundEof
SeenThen == IF Makes THEN Append(Seen, Between(buf, argp, p)) ELSE Seen

\* The two ways in which arg2 goes on.
Stopped == last' = TRUE /\ args' = <<>> /\ phase' \in {"wait", "waitall"}
GoesOn == last' = FALSE /\ phase' \in {"read", "wait"}

(* arg2: the begun argument joins what has been seen, unless xargs gives   *)
(* up; xargs ends after this run if the input did, or eofstr was found.    *)
LEMMA EndArgFacts ==
    ASSUME BufferInv, RunsTyped, phase = "read", last = FALSE, opt' = opt,
           NEW c, NEW isEOF \in BOOLEAN, EndArg(c, isEOF)
    PROVE  /\ RunsTyped' /\ wasquoted' = FALSE
           /\ \/ phase' = "exit" /\ code' = 1 /\ Seen' = Delivered
              \/ /\ code' = code /\ Seen' = SeenThen /\ argp' = p'
                 /\ IF isEOF \/ FoundEof THEN Stopped ELSE GoesOn
  <1> DEFINE q == IF Makes THEN p + 1 ELSE p
             a == IF Makes THEN Append(args, argp) ELSE args
             b == IF Makes THEN [buf EXCEPT ![p] = Nul] ELSE buf
             line == IF Makes /\ Iflag THEN AddToLine(StringAt(b, argp)) ELSE inpline
             stop == isEOF \/ FoundEof
             limit == LimitReached(Len(a), q, c, stop)
             fails == xflag /\ Len(a) # opt.nargs /\ q > ebp
             s == Strings(b, a)
  <1>1. /\ opt.nline \in Nat \ {0} /\ ebp = opt.nline - 1
        /\ buf \in [0..opt.nline -> Int] /\ p \in Nat /\ argp \in Nat /\ args \in Seq(Nat)
        /\ argp <= p /\ p <= ebp /\ \A k \in argp..(p - 1) : buf[k] # Nul
        /\ Packed(buf, args, argp)
    BY Limits DEF BufferInv
  <1>2. opt.nline \in Nat /\ argp <= opt.nline + 1 /\ p <= opt.nline
    BY <1>1
  <1>3. /\ wasquoted' = FALSE /\ buf' = b
        /\ limit => /\ p' = 0 /\ argp' = 0 /\ args' = <<>>
                    /\ IF fails THEN Exit(1) /\ UNCHANGED <<pool, last>>
                       ELSE last' = stop /\ (Run(s, line.text) \/ RunFails)
        /\ ~limit => /\ p' = q /\ argp' = q /\ args' = a
                     /\ UNCHANGED <<last, phase, code, pool>>
    BY ZenonT(60) DEF EndArg, Makes
  <1>4. limit \/ ~stop
    BY Zenon DEF LimitReached
  <1>5. Strings(buf, args) \in Seq(Seq(Int)) /\ Delivered \in Seq(Seq(Int))
    BY <1>1, <1>2, StringsPacked, DeliveredType
  <1>6. /\ s = IF Makes THEN Append(Strings(buf, args), Between(buf, argp, p))
               ELSE Strings(buf, args)
        /\ Between(buf, argp, p) \in Seq(Int)
    <2>1. /\ opt.nline \in Nat /\ buf \in [0..opt.nline -> Int] /\ args \in Seq(Nat)
          /\ argp \in Nat /\ p \in Nat /\ argp <= p /\ p <= opt.nline
          /\ \A k \in argp..(p - 1) : buf[k] # Nul
          /\ Packed(buf, args, argp)
      BY <1>1, <1>2, Zenon
    <2>2. /\ Strings([buf EXCEPT ![p] = Nul], Append(args, argp))
               = Append(Strings(buf, args), Between(buf, argp, p))
          /\ Between(buf, argp, p) \in Seq(Int)
      BY <2>1, StringsAppend, ZenonT(60)
    <2> QED
      BY <2>2, Zenon
  <1> HIDE DEF q, a, b, line, stop, limit, fails, s
  <1>7. s \in Seq(Seq(Int)) /\ Delivered \o s = SeenThen
    <2> DEFINE r == Strings(buf, args)
               u == Between(buf, argp, p)
               d == Delivered
    <2>1. r \in Seq(Seq(Int)) /\ d \in Seq(Seq(Int)) /\ u \in Seq(Int)
      BY <1>5, <1>6
    <2> HIDE DEF r, u, d
    <2>2. Append(r, u) \in Seq(Seq(Int)) /\ d \o Append(r, u) = Append(d \o r, u)
      BY <2>1, SMTT(60)
    <2> QED
      BY <1>6, <2>1, <2>2, Zenon DEF r, u, d, SeenThen, Seen
  <1>8. CASE limit /\ fails
    <2>1. Seen' = Delivered /\ RunsTyped' /\ phase' = "exit" /\ code' = 1
      <3>1. args' = <<>> /\ batches' = batches /\ phase' = "exit" /\ code' = 1
        BY <1>3, <1>8, Zenon DEF Exit, pool
      <3>2. Strings(buf', args') = <<>>
        BY <3>1 DEF Strings
      <3>3. Delivered \o <<>> = Delivered
        BY <1>5
      <3> QED
        BY <3>1, <3>2, <3>3, Zenon DEF Seen, Delivered, RunsTyped
    <2> QED
      BY <1>3, <2>1, Zenon
  <1>9. CASE limit /\ ~fails
    <2>1. /\ args' = <<>> /\ argp' = p' /\ last' = stop
          /\ Run(s, line.text) \/ RunFails
      BY <1>3, <1>9, Zenon
    <2>2. /\ RunsTyped'
          /\ \/ phase' = "exit" /\ code' = 1 /\ Delivered' = Delivered
             \/ /\ phase' \in {"wait", IF last' THEN "waitall" ELSE "read"} /\ code' = code
                /\ Delivered' = Delivered \o s
      BY <1>7, <2>1, RunFacts, Zenon
    <2>3. Seen' = Delivered'
      <3>1. Strings(buf', args') = <<>>
        BY <2>1 DEF Strings
      <3>2. Delivered' \in Seq(Seq(Int))
        <4>1. Delivered \o s \in Seq(Seq(Int))
          BY <1>5, <1>7, ConcatProperties, Zenon
        <4> QED
          BY <1>5, <2>2, <4>1, Zenon
      <3>3. Delivered' \o <<>> = Delivered'
        BY <3>2
      <3> QED
        BY <3>1, <3>3, Zenon DEF Seen
    <2>4. stop \in BOOLEAN
      BY Zenon DEF stop, FoundEof
    <2>5. phase' \in {"wait", IF last' THEN "waitall" ELSE "read"} =>
             IF stop THEN Stopped ELSE GoesOn
      BY <2>1, <2>4, Zenon DEF Stopped, GoesOn
    <2>6. (IF stop THEN Stopped ELSE GoesOn) => IF isEOF \/ FoundEof THEN Stopped ELSE GoesOn
      BY Zenon DEF stop
    <2> QED
      BY <1>3, <1>7, <2>1, <2>2, <2>3, <2>5, <2>6, Zenon
  <1>10. CASE ~limit
    <2>1. /\ args' = a /\ argp' = p' /\ buf' = b
          /\ UNCHANGED <<last, phase, code, batches>>
      BY <1>3, <1>10, Zenon DEF pool
    <2>2. Seen' = SeenThen /\ RunsTyped'
      BY <1>7, <2>1, Zenon DEF Seen, Delivered, RunsTyped, s
    <2>3. GoesOn /\ ~(isEOF \/ FoundEof)
      BY <1>4, <1>10, <2>1, Zenon DEF GoesOn, stop
    <2> QED
      BY <1>3, <2>1, <2>2, <2>3, Zenon
  <1> QED
    BY <1>8, <1>9, <1>10

-----------------------------------------------------------------------------
(* What parse_input() has read, and what the reference makes of it. *)

\* The quotes as the reference names them.
QuoteOf(q) == CASE q = "none" -> "none" [] q = "double" -> "dquote" [] q = "single" -> "squote"

\* The reference after the characters read so far.
Read == WordsUpTo(in, opt.z, at)

\* xargs is reading, or will be.
Ongoing == phase = "read" \/ (phase = "wait" /\ last = FALSE)

\* xargs has read all of its input, and has not given up.
Ended == phase = "waitall" \/ (phase = "wait" /\ last = TRUE) \/ Completed

\* The types, and what the flags tell of each other.
TextInv ==
    /\ opt \in Options /\ in \in Seq(Char(opt.z)) /\ at \in 0..Len(in)
    /\ quoted \in {"none", "single", "double"}
    /\ wasquoted \in BOOLEAN /\ last \in BOOLEAN
    /\ quoted # "none" => wasquoted /\ ~opt.z
    /\ phase \in {"read", "wait", "waitall", "exit"}
    /\ phase = "read" => last = FALSE
    /\ phase # "exit" => code = NoCode
    /\ RunsTyped

\* The buffer holds the word that the reference has begun, and before it the complete ones.
Agreed ==
    /\ Read.cur = Between(buf, argp, p) /\ Read.q = QuoteOf(quoted) /\ Read.esc = FALSE
    /\ Read.some = (argp # p \/ wasquoted)
    /\ Read.out = Seen

Whole == Delivered = Words \/ Append(Delivered, <<>>) = Words

ParseInv ==
    /\ TextInv
    /\ Ongoing => Agreed
    /\ ~Ongoing => Prefix(Seen, Words)
    /\ Ended /\ opt.eofstr = <<>> => Whole

\* The reference's next character.
LEMMA NextRead ==
    ASSUME TextInv
    PROVE  /\ opt.z \in BOOLEAN /\ Read \in Word /\ at \in Nat /\ Len(in) \in Nat
           /\ \A n \in 0..Len(in) : /\ WordsUpTo(in, opt.z, n) \in Word
                                    /\ Prefix(WordsUpTo(in, opt.z, n).out, Words)
           /\ \A n \in 0..Len(in) : n < Len(in) =>
                /\ in[n + 1] \in Char(opt.z) /\ n + 1 \in 0..Len(in) /\ n + 1 \in Int
                /\ WordsUpTo(in, opt.z, n + 1)
                     = Reads(WordsUpTo(in, opt.z, n), n + 1, in[n + 1], opt.z)
  <1>1. opt.z \in BOOLEAN /\ in \in Seq(Char(opt.z)) /\ at \in 0..Len(in)
    BY TextAssumption, Zenon DEF TextInv
  <1>2. at \in Nat /\ Len(in) \in Nat
    BY <1>1
  <1>3. \A n \in 0..Len(in) : WordsUpTo(in, opt.z, n) \in Word
    BY <1>1, WordsUnfold, Zenon
  <1>4. \A n \in 0..Len(in) : Prefix(WordsUpTo(in, opt.z, n).out, Words)
    BY <1>1, WordsExtend, Zenon DEF Words
  <1>5. ASSUME NEW n \in 0..Len(in), n < Len(in)
        PROVE  /\ in[n + 1] \in Char(opt.z) /\ n + 1 \in 0..Len(in) /\ n + 1 \in Int
               /\ WordsUpTo(in, opt.z, n + 1)
                    = Reads(WordsUpTo(in, opt.z, n), n + 1, in[n + 1], opt.z)
    <2> DEFINE m == n + 1
    <2>1. m \in 1..Len(in) /\ m - 1 = n /\ m \in 0..Len(in) /\ m \in Int
      BY <1>2, <1>5
    <2> HIDE DEF m
    <2>2. in[m] \in Char(opt.z)
      BY <1>1, <2>1
    <2>3. WordsUpTo(in, opt.z, m) = Reads(WordsUpTo(in, opt.z, m - 1), m, in[m], opt.z)
      BY <1>1, <2>1, WordsUnfold, Zenon
    <2> QED
      BY <2>1, <2>2, <2>3, Zenon DEF m
  <1> QED
    BY <1>1, <1>2, <1>3, <1>4, <1>5, Zenon DEF Read

\* What has been seen is a sequence of arguments.
LEMMA SeenType ==
    ASSUME BufferInv, RunsTyped
    PROVE  /\ Seen \in Seq(Seq(Int)) /\ Delivered \in Seq(Seq(Int))
           /\ Between(buf, argp, p) \in Seq(Int)
           /\ Prefix(Delivered, Seen) /\ (args = <<>> => Seen = Delivered)
  <1>1. /\ opt.nline \in Nat \ {0} /\ ebp = opt.nline - 1
        /\ buf \in [0..opt.nline -> Int] /\ p \in Nat /\ argp \in Nat /\ args \in Seq(Nat)
        /\ argp <= p /\ p <= ebp /\ Packed(buf, args, argp)
    BY Limits DEF BufferInv
  <1>2. opt.nline \in Nat /\ argp <= opt.nline + 1 /\ p <= opt.nline + 1
    BY <1>1
  <1> DEFINE s == Strings(buf, args)
             d == Delivered
  <1>3. s \in Seq(Seq(Int)) /\ d \in Seq(Seq(Int))
    BY <1>1, <1>2, StringsPacked, DeliveredType
  <1>4. Between(buf, argp, p) \in Seq(Int)
    BY <1>1, <1>2, BetweenType, Zenon
  <1>5. args = <<>> => s = <<>>
    BY DEF Strings
  <1> HIDE DEF s, d
  <1>6. d \o s \in Seq(Seq(Int)) /\ d \o <<>> = d
    BY <1>3
  <1>7. Prefix(d, d \o s)
    BY <1>3 DEF Prefix
  <1> QED
    BY <1>3, <1>4, <1>5, <1>6, <1>7, Zenon DEF s, d, Seen

\* What has been seen is what the input begins with.
LEMMA SeenPrefix ==
    ASSUME ParseInv
    PROVE  Prefix(Seen, Words)
  <1>1. CASE Ongoing
    <2>1. Prefix(Read.out, Words) /\ Read.out = Seen
      BY <1>1, NextRead, Zenon DEF ParseInv, Agreed, Read, TextInv
    <2> QED
      BY <2>1, Zenon
  <1> QED
    BY <1>1 DEF ParseInv

\* A character that stands for itself is kept.
LEMMA LiteralKept ==
    ASSUME TextInv, Agreed, at < Len(in), Literal(in[at + 1])
    PROVE  WordsUpTo(in, opt.z, at + 1) = Keep(Read, at + 1)
  <1> DEFINE c == in[at + 1]
             z == opt.z
             n == at + 1
             R == Reads(Read, n, c, z)
  <1>1. /\ z \in BOOLEAN /\ c \in Char(z) /\ Read \in Word /\ n \in Int
        /\ WordsUpTo(in, z, n) = R
    BY NextRead, Zenon DEF TextInv, Read
  <1>2. Read.esc = FALSE /\ Read.q = QuoteOf(quoted) /\ (quoted # "none" => ~z)
    BY Zenon DEF Agreed, TextInv
  <1>3. /\ quoted \in {"none", "single", "double"}
        /\ QuoteOf(quoted) = "none" <=> quoted = "none"
        /\ quoted = "double" => QuoteOf(quoted) = "dquote"
        /\ quoted = "single" => QuoteOf(quoted) = "squote"
    BY DEF TextInv, QuoteOf
  <1>4. \/ z /\ c # "nul"
        \/ ~z /\ c \in {"a", "b"}
        \/ quoted # "none" /\ c \in {"blank", "bslash"}
        \/ quoted = "double" /\ c = "squote"
        \/ quoted = "single" /\ c = "dquote"
    BY Zenon DEF Literal
  <1> HIDE DEF c, z, n, R
  <1>5. CASE z /\ c # "nul"
    BY <1>1, <1>5, ReadsCases, Zenon DEF R, c, z, n
  <1>6. CASE ~z /\ c \in {"a", "b"}
    BY <1>1, <1>6, ReadsCases, ZenonT(60) DEF R, c, z, n
  <1>7. CASE quoted # "none" /\ c \in {"blank", "bslash"}
    <2>1. ~z /\ Read.esc = FALSE /\ Read.q # "none"
      BY <1>2, <1>3, <1>7, Zenon
    <2>2. R = Keep(Read, n)
      BY <1>1, <1>7, <2>1, ReadsCases, ZenonT(60) DEF R
    <2> QED
      BY <1>1, <2>2, Zenon DEF z, n
  <1>8. ASSUME quoted # "none", NEW o \in {"dquote", "squote"}, c = o, QuoteOf(quoted) # o
        PROVE  R = Keep(Read, n)
    <2>1. ~z /\ Read.esc = FALSE /\ Read.q \notin {"none", c}
      BY <1>2, <1>3, <1>8, Zenon
    <2>2. c \in {"dquote", "squote"}
      BY <1>8
    <2> QED
      BY <1>1, <2>1, <2>2, ReadsCases, Zenon DEF R
  <1>9. CASE quoted = "double" /\ c = "squote"
    <2>1. quoted # "none" /\ QuoteOf(quoted) # "squote"
      BY <1>3, <1>9
    <2>2. R = Keep(Read, n)
      BY <1>8, <1>9, <2>1, Zenon
    <2> QED
      BY <1>1, <2>2, Zenon DEF z, n
  <1>10. CASE quoted = "single" /\ c = "dquote"
    <2>1. quoted # "none" /\ QuoteOf(quoted) # "dquote"
      BY <1>3, <1>10
    <2>2. R = Keep(Read, n)
      BY <1>8, <1>10, <2>1, Zenon
    <2> QED
      BY <1>1, <2>2, Zenon DEF z, n
  <1> QED
    BY <1>4, <1>5, <1>6, <1>7, <1>9, <1>10

\* xargs gives up: what has been seen still is what the input begins with.
LEMMA GivesUp ==
    ASSUME BufferInv, ParseInv, TextInv', opt' = opt, in' = in, phase' = "exit",
           code' \in {1, 124, 125, 126}, Seen' \in {Seen, Delivered}
    PROVE  ParseInv'
  <1>1. Prefix(Seen, Words) /\ RunsTyped /\ TextInv
    BY SeenPrefix, Zenon DEF ParseInv, TextInv
  <1>2. Prefix(Delivered, Words)
    <2>1. Seen \in Seq(Seq(Int)) /\ Delivered \in Seq(Seq(Int)) /\ Prefix(Delivered, Seen)
      BY <1>1, SeenType
    <2>2. Words \in Seq(Seq(Int))
      <3>1. opt.z \in BOOLEAN /\ in \in Seq(Char(opt.z)) /\ at \in 0..Len(in)
        BY <1>1, TextAssumption, Zenon DEF TextInv
      <3>2. End(WordsUpTo(in, opt.z, Len(in))).out \in Seq(Seq(Int))
        BY <3>1, WordsExtend, ZenonT(60)
      <3> QED
        BY <3>2, Zenon DEF Words
    <2> QED
      BY <1>1, <2>1, <2>2, PrefixTrans
  <1>3. Words' = Words
    BY Zenon DEF Words
  <1>4. Prefix(Seen', Words')
    BY <1>1, <1>2, <1>3, Zenon
  <1>5. ~Ended' /\ ~Ongoing'
    BY DEF Ended, Ongoing, Completed
  <1>6. Prefix(Seen, Words)'
    BY <1>4, Zenon DEF Prefix
  <1> QED
    BY <1>5, <1>6, Zenon DEF ParseInv

\* xargs goes on in agreement with the reference.
LEMMA GoesOnAgreeing ==
    ASSUME TextInv', code' = NoCode, last' = FALSE, phase' \in {"read", "wait"}, Agreed'
    PROVE  ParseInv'
  <1>1. Ongoing' /\ ~Ended'
    BY DEF Ongoing, Ended, Completed, NoCode
  <1> QED
    BY <1>1, Zenon DEF ParseInv

\* ADDCH() and the reference, which keeps the character too, go on agreeing.
LEMMA AddAnyAgrees ==
    ASSUME BufferInv, ParseInv, phase = "read", last' = last, opt' = opt, in' = in,
           quoted' = quoted, wasquoted' = wasquoted, at' \in 0..Len(in), at' \in Nat \ {0},
           AddAny(at'), NEW s \in Word, s.cur = Read.cur, s.q = Read.q, s.out = Read.out,
           WordsUpTo(in, opt.z, at') = Keep(s, at')
    PROVE  ParseInv'
  <1>1. TextInv /\ Agreed /\ RunsTyped /\ last = FALSE /\ code = NoCode
    BY Zenon DEF ParseInv, Ongoing, TextInv
  <1>2. /\ RunsTyped'
        /\ \/ phase' = "exit" /\ code' = 1 /\ Seen' \in {Seen, Delivered}
           \/ /\ phase' \in {"read", "wait"} /\ code' = code /\ Seen' = Seen /\ argp' # p'
              /\ Between(buf', argp', p') = Append(Between(buf, argp, p), at')
    BY <1>1, AddAnyFacts
  <1>3. TextInv'
    <2>1. phase' \in {"read", "wait", "waitall", "exit"} /\ (phase' # "exit" => code' = NoCode)
      BY <1>1, <1>2, Zenon
    <2> QED
      BY <1>1, <1>2, <2>1, Zenon DEF TextInv
  <1>4. CASE phase' = "exit" /\ code' = 1 /\ Seen' \in {Seen, Delivered}
    BY <1>3, <1>4, GivesUp
  <1>5. CASE /\ phase' \in {"read", "wait"} /\ code' = code /\ Seen' = Seen /\ argp' # p'
             /\ Between(buf', argp', p') = Append(Between(buf, argp, p), at')
    <2>1. Read' = Keep(s, at')
      BY Zenon DEF Read
    <2>2. at' \in Int
      OBVIOUS
    <2>3. /\ Read'.cur = Append(s.cur, at') /\ Read'.q = s.q
          /\ Read'.some = TRUE /\ Read'.esc = FALSE /\ Read'.out = s.out
      BY <2>1, <2>2, KeepFields, Zenon
    <2>4. /\ Read.cur = Between(buf, argp, p) /\ Read.q = QuoteOf(quoted) /\ Read.out = Seen
      BY <1>1, Zenon DEF Agreed
    <2>5. QuoteOf(quoted)' = QuoteOf(quoted)
      BY Zenon DEF QuoteOf
    <2>6. Read'.some = (argp' # p' \/ wasquoted')
      BY <1>5, <2>3, Zenon
    <2>7. Read'.cur = Between(buf', argp', p') /\ Read'.out = Seen' /\ Read'.q = QuoteOf(quoted)
      BY <1>5, <2>3, <2>4, Zenon
    <2>8. Agreed'
      BY <2>3, <2>5, <2>6, <2>7, Zenon DEF Agreed, Between
    <2> QED
      BY <1>1, <1>3, <1>5, <2>8, GoesOnAgreeing
  <1> QED
    BY <1>2, <1>4, <1>5, Zenon

\* ReadChar.
LEMMA ReadCharAgrees ==
    ASSUME BufferInv, ParseInv, ReadChar
    PROVE  ParseInv'
  <1>1. /\ phase = "read" /\ at < Len(in) /\ Literal(in[at + 1]) /\ last' = last /\ at' = at + 1
        /\ AddAny(at + 1) /\ opt' = opt /\ in' = in /\ quoted' = quoted /\ wasquoted' = wasquoted
    BY Zenon DEF ReadChar, More, Next1
  <1>2. TextInv /\ Agreed
    BY <1>1, Zenon DEF ParseInv, Ongoing
  <1>3. WordsUpTo(in, opt.z, at') = Keep(Read, at')
    BY <1>1, <1>2, LiteralKept, Zenon
  <1>4. Read \in Word /\ at \in Nat /\ Len(in) \in Nat
    BY <1>2, NextRead
  <1>5. at' \in 0..Len(in) /\ at' \in Nat \ {0}
    BY <1>1, <1>4
  <1>6. AddAny(at')
    BY <1>1, Zenon
  <1> QED
    BY <1>1, <1>3, <1>4, <1>5, <1>6, AddAnyAgrees

\* ReadBackslash.
LEMMA ReadBackslashAgrees ==
    ASSUME BufferInv, ParseInv, ReadBackslash
    PROVE  ParseInv'
  <1>1. /\ phase = "read" /\ at < Len(in) /\ at + 1 < Len(in) /\ in[at + 1] = "bslash"
        /\ ~Literal(in[at + 1]) /\ last' = last /\ at' = at + 2
        /\ AddAny(at + 2) /\ opt' = opt /\ in' = in /\ quoted' = quoted /\ wasquoted' = wasquoted
    BY Zenon DEF ReadBackslash, More, Next1
  <1>2. TextInv /\ Agreed
    BY <1>1, Zenon DEF ParseInv, Ongoing
  <1>3. /\ Read \in Word /\ at \in Nat /\ Len(in) \in Nat /\ opt.z \in BOOLEAN
        /\ \A n \in 0..Len(in) : n < Len(in) =>
             /\ in[n + 1] \in Char(opt.z) /\ n + 1 \in 0..Len(in) /\ n + 1 \in Int
             /\ WordsUpTo(in, opt.z, n + 1)
                  = Reads(WordsUpTo(in, opt.z, n), n + 1, in[n + 1], opt.z)
    BY <1>2, NextRead, Zenon
  <1>4. ~opt.z /\ quoted = "none" /\ Read.q = "none" /\ Read.esc = FALSE
    <2>1. ~opt.z /\ quoted = "none"
      <3>1. "bslash" # "nul"
        OBVIOUS
      <3> QED
        BY <1>1, <3>1, Zenon DEF Literal
    <2>2. QuoteOf("none") = "none"
      BY DEF QuoteOf
    <2> QED
      BY <1>2, <2>1, <2>2, Zenon DEF Agreed
  <1> DEFINE s == [Read EXCEPT !.esc = TRUE]
             m == at + 1
  <1>5. WordsUpTo(in, opt.z, m) = s
    <2>1. at \in 0..Len(in)
      BY <1>2, Zenon DEF TextInv
    <2>2. WordsUpTo(in, opt.z, at + 1) = Reads(Read, at + 1, "bslash", opt.z)
          /\ "bslash" \in Char(opt.z) /\ at + 1 \in Int
      BY <1>1, <1>3, <2>1, Zenon DEF Read
    <2> QED
      <3>1. Read \in Word /\ opt.z \in BOOLEAN
        BY <1>3
      <3>2. Reads(Read, at + 1, "bslash", opt.z) = s
        BY <1>4, <2>2, <3>1, ReadsCases, ZenonT(60)
      <3> QED
        BY <2>2, <3>2, Zenon
  <1>6. /\ s \in Word /\ s.cur = Read.cur /\ s.q = Read.q /\ s.out = Read.out /\ s.esc = TRUE
    BY <1>3, EscapeFields, Zenon
  <1>7. m \in 0..Len(in) /\ m < Len(in) /\ m + 1 = at' /\ at' \in 0..Len(in) /\ at' \in Nat \ {0}
    BY <1>1, <1>3
  <1> HIDE DEF s, m
  <1>8. WordsUpTo(in, opt.z, at') = Keep(s, at')
    <2>1. /\ WordsUpTo(in, opt.z, at') = Reads(s, at', in[at'], opt.z)
          /\ in[at'] \in Char(opt.z) /\ at' \in Int
      BY <1>3, <1>5, <1>7, Zenon
    <2>2. s \in Word /\ opt.z \in BOOLEAN /\ ~opt.z /\ s.esc
      BY <1>3, <1>4, <1>6, Zenon
    <2>3. Reads(s, at', in[at'], opt.z) = Keep(s, at')
      BY <2>1, <2>2, ReadsCases, Zenon
    <2> QED
      BY <2>1, <2>3, Zenon
  <1>9. AddAny(at')
    BY <1>1, Zenon
  <1> QED
    BY <1>1, <1>6, <1>7, <1>8, <1>9, AddAnyAgrees

\* A quote.
LEMMA ReadQuoteAgrees ==
    ASSUME BufferInv, ParseInv, ReadQuote
    PROVE  ParseInv'
  <1> DEFINE c == in[at + 1]
  <1>1. /\ phase = "read" /\ at < Len(in) /\ c \in {"dquote", "squote"} /\ ~Literal(c)
        /\ at' = at + 1 /\ wasquoted' = TRUE
        /\ quoted' = IF quoted # "none" THEN "none"
                     ELSE IF c = "dquote" THEN "double" ELSE "single"
        /\ UNCHANGED <<opt, in, phase, code, buf, p, argp, args, last, batches>>
    BY Zenon DEF ReadQuote, More, Next1, pool
  <1>2. TextInv /\ Agreed /\ last = FALSE /\ code = NoCode
    BY <1>1, Zenon DEF ParseInv, Ongoing, TextInv
  <1>3. /\ Read \in Word /\ at \in Nat /\ Len(in) \in Nat /\ opt.z \in BOOLEAN
        /\ c \in Char(opt.z) /\ at + 1 \in 0..Len(in) /\ at + 1 \in Int
        /\ Read' = Reads(Read, at + 1, c, opt.z)
    BY <1>1, <1>2, NextRead, Zenon DEF Read, TextInv
  <1>4. ~opt.z
    <2>1. c # "nul"
      BY <1>1
    <2> QED
      BY <1>1, <2>1, Zenon DEF Literal
  <1>5. \/ quoted = "none"
        \/ (quoted = "double" /\ c = "dquote") \/ (quoted = "single" /\ c = "squote")
    BY <1>1, <1>2, Zenon DEF Literal, TextInv
  <1>6. /\ Read.cur = Between(buf, argp, p) /\ Read.q = QuoteOf(quoted) /\ Read.esc = FALSE
        /\ Read.some = (argp # p \/ wasquoted) /\ Read.out = Seen
        /\ quoted # "none" => wasquoted
    BY <1>2, Zenon DEF Agreed, TextInv
  <1> HIDE DEF c
  <1>7. Read' = Quote(Read, c)
    <2>1. Read.q \in {"none", c}
      BY <1>5, <1>6 DEF QuoteOf
    <2>2. Read' = IF Read.q \in {"none", c} THEN Quote(Read, c) ELSE Keep(Read, at + 1)
      BY <1>1, <1>3, <1>4, <1>6, ReadsCases, Zenon
    <2> QED
      BY <2>1, <2>2, Zenon
  <1>8. /\ Read'.cur = Read.cur /\ Read'.q = IF Read.q = "none" THEN c ELSE "none"
        /\ Read'.some = (Read.q = "none" \/ Read.some)
        /\ Read'.esc = Read.esc /\ Read'.out = Read.out
    <2>1. Read \in Word /\ c \in {"dquote", "squote"}
      BY <1>1, <1>3, Zenon
    <2>2. /\ Quote(Read, c).cur = Read.cur
          /\ Quote(Read, c).q = IF Read.q = "none" THEN c ELSE "none"
          /\ Quote(Read, c).some = (Read.q = "none" \/ Read.some)
          /\ Quote(Read, c).esc = Read.esc /\ Quote(Read, c).out = Read.out
      BY <2>1, QuoteFields
    <2> QED
      BY <1>7, <2>2, Zenon
  <1>9. Read.q = "none" <=> quoted = "none"
    BY <1>5, <1>6 DEF QuoteOf
  <1>10. Read'.q = QuoteOf(quoted')
    <2>1. CASE quoted = "none"
      BY <1>1, <1>8, <1>9, <2>1 DEF QuoteOf
    <2>2. CASE quoted # "none"
      BY <1>1, <1>8, <1>9, <2>2 DEF QuoteOf
    <2> QED
      BY <2>1, <2>2
  <1>11. Read'.some = (argp' # p' \/ wasquoted')
    BY <1>1, <1>6, <1>8, <1>9, Zenon
  <1>12. Seen' = Seen /\ RunsTyped'
    BY <1>1, <1>2, Zenon DEF Seen, Delivered, RunsTyped, TextInv
  <1>13. Agreed'
    <2>1. Read'.cur = Between(buf', argp', p') /\ Read'.out = Seen' /\ Read'.esc = FALSE
      BY <1>1, <1>6, <1>8, <1>12, Zenon
    <2>2. QuoteOf(quoted') = QuoteOf(quoted)'
      BY Zenon DEF QuoteOf
    <2> QED
      BY <1>10, <1>11, <2>1, <2>2, Zenon DEF Agreed, Between
  <1>14. TextInv'
    <2>1. quoted' \in {"none", "single", "double"}
      BY <1>1, Zenon
    <2>2. at' \in 0..Len(in')
      BY <1>1, <1>3, Zenon
    <2> QED
      BY <1>1, <1>2, <1>4, <1>12, <2>1, <2>2, Zenon DEF TextInv
  <1> QED
    BY <1>1, <1>2, <1>13, <1>14, GoesOnAgreeing

(* The end of an argument, after which the reference has the words e, and  *)
(* at the end of the input all of them.                                    *)
LEMMA EndArgAgrees ==
    ASSUME BufferInv, ParseInv, phase = "read", opt' = opt, in' = in, quoted' = quoted,
           quoted = "none", NEW c, NEW isEOF \in BOOLEAN, EndArg(c, isEOF), at' \in 0..Len(in),
           isEOF => End(Read).out = Words, ~isEOF => Read' = End(Read)
    PROVE  ParseInv'
  <1>1. TextInv /\ Agreed /\ RunsTyped /\ last = FALSE /\ code = NoCode
    BY Zenon DEF ParseInv, Ongoing, TextInv
  <1>2. /\ RunsTyped' /\ wasquoted' = FALSE
        /\ \/ phase' = "exit" /\ code' = 1 /\ Seen' = Delivered
           \/ /\ code' = code /\ Seen' = SeenThen /\ argp' = p'
              /\ IF isEOF \/ FoundEof THEN Stopped ELSE GoesOn
    BY <1>1, EndArgFacts
  <1>3. last' \in BOOLEAN
    <2>1. last' \in {last, TRUE, FALSE} \/ last' = (isEOF \/ FoundEof)
      BY Zenon DEF EndArg
    <2> QED
      BY <1>1, <2>1, Zenon DEF FoundEof
  <1>4. TextInv'
    <2>1. /\ phase' \in {"read", "wait", "waitall", "exit"} /\ (phase' # "exit" => code' = NoCode)
          /\ phase' = "read" => last' = FALSE
      <3>1. "exit" # "read" /\ "wait" # "read" /\ "waitall" # "read"
        OBVIOUS
      <3> QED
        BY <1>1, <1>2, <3>1, Zenon DEF Stopped, GoesOn
    <2> QED
      BY <1>1, <1>2, <1>3, <2>1, Zenon DEF TextInv
  <1>5. /\ Read \in Word /\ Read.cur = Between(buf, argp, p) /\ Read.q = QuoteOf(quoted)
        /\ Read.esc = FALSE /\ Read.some = (argp # p \/ wasquoted) /\ Read.out = Seen
    BY <1>1, NextRead, Zenon DEF Agreed
  <1>6. /\ End(Read).cur = <<>> /\ End(Read).q = Read.q
        /\ End(Read).some = FALSE /\ End(Read).esc = Read.esc
        /\ End(Read).out = IF Read.some THEN Append(Read.out, Read.cur) ELSE Read.out
    BY <1>5, EndFields, Zenon
  <1>7. /\ ~FoundEof => SeenThen = End(Read).out
        /\ FoundEof => SeenThen = Seen
    BY <1>5, <1>6, Zenon DEF SeenThen, Makes
  <1>8. Words' = Words
    BY Zenon DEF Words
  <1>9. CASE phase' = "exit" /\ code' = 1 /\ Seen' = Delivered
    BY <1>4, <1>9, GivesUp
  <1>10. CASE /\ code' = code /\ Seen' = SeenThen /\ argp' = p' /\ ~(isEOF \/ FoundEof)
              /\ GoesOn
    <2>1. Read' = End(Read) /\ Seen' = End(Read).out
      BY <1>7, <1>10, Zenon
    <2>2. Between(buf', argp', p') = <<>>
      <3>1. p' - p' = 0
        <4>1. p' \in {0, p, p + 1}
          BY Zenon DEF EndArg
        <4>2. p \in Nat
          BY Zenon DEF BufferInv
        <4>3. p' \in Int
          BY <4>1, <4>2
        <4>4. \A x \in Int : x - x = 0
          OBVIOUS
        <4> QED
          BY <4>3, <4>4, Zenon
      <3> QED
        BY <1>10, <3>1 DEF Between
    <2>3. QuoteOf(quoted)' = QuoteOf(quoted)
      BY Zenon DEF QuoteOf
    <2>4. Read'.some = (argp' # p' \/ wasquoted')
      BY <1>2, <1>6, <1>10, <2>1, Zenon
    <2>5. Agreed'
      BY <1>5, <1>6, <2>1, <2>2, <2>3, <2>4, Zenon DEF Agreed, Between
    <2> QED
      BY <1>1, <1>4, <1>10, <2>5, GoesOnAgreeing DEF GoesOn
  <1>11. CASE /\ code' = code /\ Seen' = SeenThen /\ argp' = p' /\ (isEOF \/ FoundEof)
              /\ Stopped
    <2>1. ~Ongoing'
      BY <1>11 DEF Stopped, Ongoing
    <2>2. Prefix(Seen', Words')
      <3>1. Prefix(Seen, Words)
        BY SeenPrefix
      <3>2. CASE FoundEof
        BY <1>7, <1>8, <1>11, <3>1, <3>2, Zenon
      <3>3. CASE ~FoundEof
        <4>1. Seen' = Words
          BY <1>7, <1>11, <3>3, Zenon
        <4>2. Prefix(Words, Words)
          BY DEF Prefix
        <4> QED
          BY <1>8, <4>1, <4>2, Zenon
      <3> QED
        BY <3>2, <3>3
    <2>3. opt.eofstr = <<>> => Whole'
      <3> SUFFICES ASSUME opt.eofstr = <<>> PROVE Whole'
        OBVIOUS
      <3>1. ~FoundEof /\ isEOF
        BY <1>11, Zenon DEF FoundEof
      <3>2. Seen' = Words
        BY <1>7, <1>11, <3>1, Zenon
      <3>3. Seen' = Delivered'
        <4>1. Strings(buf', args') = <<>>
          BY <1>11 DEF Stopped, Strings
        <4>2. Delivered' \in Seq(Seq(Int))
          BY <1>2, DeliveredTypeNext
        <4>3. Delivered' \o <<>> = Delivered'
          BY <4>2
        <4> QED
          BY <4>1, <4>3, Zenon DEF Seen
      <3> QED
        BY <1>8, <3>2, <3>3, Zenon DEF Whole
    <2>4. Prefix(Seen, Words)'
      BY <2>2, Zenon DEF Prefix
    <2> QED
      BY <1>4, <2>1, <2>3, <2>4, Zenon DEF ParseInv
  <1> QED
    BY <1>2, <1>9, <1>10, <1>11, Zenon

\* A separator ends the word.
LEMMA SeparatorEnds ==
    ASSUME TextInv, Agreed, at < Len(in), quoted = "none",
           in[at + 1] = "nul" \/ (~opt.z /\ in[at + 1] \in {"blank", "nl"})
    PROVE  WordsUpTo(in, opt.z, at + 1) = End(Read) /\ at + 1 \in 0..Len(in)
  <1> DEFINE c == in[at + 1]
             z == opt.z
             n == at + 1
  <1>1. /\ z \in BOOLEAN /\ c \in Char(z) /\ Read \in Word /\ n \in Int /\ n \in 0..Len(in)
        /\ WordsUpTo(in, z, n) = Reads(Read, n, c, z)
    BY NextRead, Zenon DEF TextInv, Read
  <1>2. Read.esc = FALSE /\ Read.q = "none"
    <2>1. QuoteOf("none") = "none"
      BY DEF QuoteOf
    <2> QED
      BY <2>1, Zenon DEF Agreed
  <1>3. c = "nul" \/ (~z /\ c \in {"blank", "nl"})
    OBVIOUS
  <1> HIDE DEF c, z, n
  <1>4. CASE c = "nul"
    BY <1>1, <1>4, ReadsCases, ZenonT(60) DEF z, n
  <1>5. CASE ~z /\ c \in {"blank", "nl"}
    BY <1>1, <1>2, <1>5, ReadsCases, ZenonT(60) DEF z, n
  <1> QED
    BY <1>3, <1>4, <1>5

\* A blank or a newline.
LEMMA SeparatorAgrees ==
    ASSUME BufferInv, ParseInv, ReadBlank \/ ReadNewline
    PROVE  ParseInv'
  <1>1. /\ phase = "read" /\ at < Len(in) /\ at' = at + 1 /\ opt' = opt /\ in' = in
        /\ quoted' = quoted
    BY Zenon DEF ReadBlank, ReadNewline, More
  <1>2. TextInv /\ Agreed
    BY <1>1, Zenon DEF ParseInv, Ongoing
  <1>3. /\ quoted = "none"
        /\ in[at + 1] = "nul" \/ (~opt.z /\ in[at + 1] \in {"blank", "nl"})
    <2>1. CASE ReadBlank
      <3>1. in[at + 1] = "blank" /\ ~Literal("blank") /\ "blank" # "nul"
        BY <2>1 DEF ReadBlank, Next1
      <3> QED
        BY <3>1, Zenon DEF Literal
    <2>2. CASE ReadNewline
      BY <2>2, Zenon DEF ReadNewline, Next1
    <2> QED
      BY <2>1, <2>2
  <1>4. Read' = End(Read) /\ at' \in 0..Len(in)
    <2>1. WordsUpTo(in, opt.z, at + 1) = End(Read) /\ at + 1 \in 0..Len(in)
      BY <1>1, <1>2, <1>3, SeparatorEnds
    <2> QED
      BY <1>1, <2>1, Zenon DEF Read
  <1>5. PICK c : EndArg(c, FALSE)
    BY Zenon DEF ReadBlank, ReadNewline
  <1>6. FALSE \in BOOLEAN
    OBVIOUS
  <1> QED
    BY <1>1, <1>3, <1>4, <1>5, <1>6, EndArgAgrees, Zenon

\* The end of the input, with something in the buffer.
LEMMA ReadEOFAgrees ==
    ASSUME BufferInv, ParseInv, ReadEOF
    PROVE  ParseInv'
  <1>1. /\ phase = "read" /\ at = Len(in) /\ at' = at /\ opt' = opt /\ in' = in
        /\ quoted' = quoted /\ quoted = "none" /\ EndArg(count, TRUE)
    BY Zenon DEF ReadEOF, AtEOF
  <1>2. at' \in 0..Len(in)
    BY <1>1, Zenon DEF ParseInv, TextInv
  <1>3. End(Read).out = Words
    BY <1>1, Zenon DEF Read, Words
  <1>4. TRUE \in BOOLEAN
    OBVIOUS
  <1> QED
    BY <1>1, <1>2, <1>3, <1>4, EndArgAgrees, Zenon

\* The end of the input, with nothing in the buffer.
LEMMA ReadEOFIdleAgrees ==
    ASSUME BufferInv, ParseInv, ReadEOFIdle
    PROVE  ParseInv'
  <1>1. /\ phase = "read" /\ at = Len(in) /\ p = 0 /\ phase' = "waitall"
        /\ UNCHANGED <<opt, in, code, at, buf, p, argp, args, quoted, wasquoted, last, batches>>
    BY Zenon DEF ReadEOFIdle, AtEOF, parser, pool
  <1>2. TextInv /\ Agreed /\ RunsTyped /\ code = NoCode
    BY <1>1, Zenon DEF ParseInv, Ongoing, TextInv
  <1>3. argp = 0 /\ args = <<>>
    <2>1. argp = 0
      BY <1>1 DEF BufferInv
    <2>2. args \in Seq(Nat) /\ Packed(buf, args, argp)
      BY Zenon DEF BufferInv
    <2>3. ASSUME args # <<>> PROVE FALSE
      <3>1. 1 \in 1..Len(args) /\ args[1] \in Nat
        BY <2>2, <2>3
      <3>2. args[1] < EndOf(args, argp, 1) /\ EndOf(args, argp, 1) <= argp /\ args[1] = 0
        BY <2>2, <2>3, <3>1, Zenon DEF Packed
      <3>3. EndOf(args, argp, 1) \in Int
        BY <2>1, <2>2 DEF EndOf
      <3> QED
        BY <2>1, <3>2, <3>3
    <2> QED
      BY <2>1, <2>3
  <1>4. Read.cur = <<>> /\ Read.out = Seen
    <2>1. Between(buf, argp, p) = <<>>
      BY <1>1, <1>3 DEF Between
    <2> QED
      BY <1>2, <2>1, Zenon DEF Agreed
  <1>5. Words \in {Seen, Append(Seen, <<>>)}
    <2>1. Read \in Word
      BY <1>2, NextRead
    <2>2. Words = End(Read).out
      BY <1>1, Zenon DEF Read, Words
    <2>3. End(Read).out = IF Read.some THEN Append(Read.out, Read.cur) ELSE Read.out
      BY <2>1, EndFields, Zenon
    <2> QED
      BY <1>4, <2>2, <2>3, Zenon
  <1>6. Seen = Delivered
    BY <1>2, <1>3, SeenType
  <1>7. Seen' = Seen /\ Delivered' = Delivered /\ Words' = Words /\ RunsTyped'
    BY <1>1, <1>2, Zenon DEF Seen, Delivered, Words, RunsTyped
  <1>8. TextInv'
    <2>1. phase' # "read"
      BY <1>1
    <2> QED
      BY <1>1, <1>2, <1>7, <2>1, Zenon DEF TextInv
  <1>9. Whole'
    BY <1>5, <1>6, <1>7, Zenon DEF Whole
  <1>10. Prefix(Seen, Words)'
    <2>1. Prefix(Seen, Words)
      BY SeenPrefix
    <2> QED
      BY <1>7, <2>1, Zenon DEF Prefix
  <1>11. ~Ongoing'
    BY <1>1 DEF Ongoing
  <1> QED
    BY <1>8, <1>9, <1>10, <1>11, Zenon DEF ParseInv

\* The steps that leave the parser alone.
LEMMA ParserStays ==
    ASSUME BufferInv, ParseInv, UNCHANGED <<opt, in, parser, batches>>,
           \/ UNCHANGED <<phase, code>>
           \/ phase' = "exit" /\ code' \in {1, 124, 125, 126}
           \/ phase = "waitall" /\ phase' = "exit"
           \/ phase = "wait" /\ phase' = (IF last THEN "waitall" ELSE "read") /\ code' = code
    PROVE  ParseInv'
  <1>1. UNCHANGED <<opt, in, at, buf, p, argp, args, quoted, wasquoted, last, batches>>
    BY Zenon DEF parser
  <1>2. TextInv /\ RunsTyped
    BY Zenon DEF ParseInv, TextInv
  <1>3. /\ Seen' = Seen /\ Words' = Words /\ RunsTyped' /\ Delivered' = Delivered /\ Read' = Read
        /\ QuoteOf(quoted)' = QuoteOf(quoted)
        /\ Between(buf, argp, p)' = Between(buf, argp, p)
    BY <1>1, <1>2, Zenon DEF Seen, Delivered, Words, RunsTyped, Read, QuoteOf, Between
  <1>4. (Agreed => Agreed') /\ (Whole => Whole') /\ (Prefix(Seen, Words) => Prefix(Seen, Words)')
    BY <1>1, <1>3, Zenon DEF Agreed, Whole, Prefix
  <1>5. ASSUME phase' \in {"read", "wait", "waitall", "exit"}, phase' = "read" => last = FALSE,
               phase' # "exit" => code' = NoCode
        PROVE  TextInv'
    BY <1>1, <1>2, <1>3, <1>5, Zenon DEF TextInv
  <1>6. CASE UNCHANGED <<phase, code>>
    <2>1. TextInv'
      BY <1>2, <1>5, <1>6, Zenon DEF TextInv
    <2>2. (Ongoing' <=> Ongoing) /\ (Ended' <=> Ended)
      BY <1>1, <1>6, Zenon DEF Ongoing, Ended, Completed
    <2> QED
      BY <1>1, <1>4, <2>1, <2>2, Zenon DEF ParseInv
  <1>7. CASE phase' = "exit" /\ code' \in {1, 124, 125, 126}
    <2>1. "exit" # "read"
      OBVIOUS
    <2>2. TextInv'
      BY <1>5, <1>7, <2>1, Zenon
    <2> QED
      BY <1>1, <1>3, <1>7, <2>2, GivesUp
  <1>8. CASE phase = "waitall" /\ phase' = "exit"
    <2>1. ~Ongoing /\ Ended /\ ~Ongoing' /\ phase' # "read"
      BY <1>8 DEF Ongoing, Ended
    <2>2. TextInv'
      BY <1>5, <1>8, <2>1, Zenon
    <2> QED
      BY <1>1, <1>4, <2>1, <2>2, Zenon DEF ParseInv
  <1>9. CASE phase = "wait" /\ phase' = (IF last THEN "waitall" ELSE "read") /\ code' = code
    <2>1. last \in BOOLEAN /\ code = NoCode
      <3>1. "wait" # "exit"
        OBVIOUS
      <3> QED
        BY <1>2, <1>9, <3>1, Zenon DEF TextInv
    <2>2. TextInv'
      <3>1. phase' = "read" => last = FALSE
        BY <1>9, <2>1
      <3> QED
        BY <1>5, <1>9, <2>1, <3>1, Zenon
    <2>3. (Ongoing' <=> Ongoing) /\ (Ended' <=> Ended)
      <3>1. CASE last = TRUE
        BY <1>1, <1>9, <2>1, <3>1 DEF Ongoing, Ended, Completed, NoCode
      <3>2. CASE last = FALSE
        BY <1>1, <1>9, <2>1, <3>2 DEF Ongoing, Ended, Completed, NoCode
      <3> QED
        BY <2>1, <3>1, <3>2
    <2> QED
      BY <1>1, <1>4, <2>2, <2>3, Zenon DEF ParseInv
  <1> QED
    BY <1>6, <1>7, <1>8, <1>9

\* Every step keeps the agreement.
LEMMA ParseStep ==
    ASSUME BufferInv, ParseInv, [Next]_vars
    PROVE  ParseInv'
  <1>1. CASE ReadChar \/ ReadBackslash \/ ReadQuote
    BY <1>1, ReadCharAgrees, ReadBackslashAgrees, ReadQuoteAgrees
  <1>2. CASE ReadBlank \/ ReadNewline \/ ReadEOF \/ ReadEOFIdle
    BY <1>2, SeparatorAgrees, ReadEOFAgrees, ReadEOFIdleAgrees
  <1>3. CASE BackslashAtEOF \/ UnterminatedQuote
    <2>1. UNCHANGED <<opt, in, parser, batches>> /\ phase' = "exit" /\ code' = 1
      BY <1>3, Zenon DEF BackslashAtEOF, UnterminatedQuote, Exit, pool
    <2> QED
      BY <2>1, ParserStays
  <1>4. CASE WaitReap
    <2>1. /\ UNCHANGED <<opt, in, parser, batches>>
          /\ UNCHANGED <<phase, code>> \/ (phase' = "exit" /\ code' \in {126, 124, 125})
      BY <1>4, Zenon DEF WaitReap, Exit
    <2> QED
      BY <2>1, ParserStays
  <1>5. CASE WaitDone
    <2>1. /\ UNCHANGED <<opt, in, parser, batches>>
          /\ \/ phase = "waitall" /\ phase' = "exit"
             \/ /\ phase = "wait" /\ phase' = (IF last THEN "waitall" ELSE "read")
                /\ code' = code
      BY <1>5, Zenon DEF WaitDone, Waiting, Exit, pool
    <2> QED
      BY <2>1, ParserStays
  <1>6. CASE ChildExit \/ UNCHANGED vars
    <2>1. UNCHANGED <<opt, in, parser, batches>> /\ UNCHANGED <<phase, code>>
      BY <1>6, Zenon DEF ChildExit, vars, pool
    <2> QED
      BY <2>1, ParserStays
  <1> QED
    BY <1>1, <1>2, <1>3, <1>4, <1>5, <1>6, Zenon DEF Next, Parse

\* Nothing has been read when xargs starts.
LEMMA ParseInit ==
    ASSUME Init
    PROVE  ParseInv
  <1>1. /\ opt \in Options /\ in \in Inputs(opt) /\ at = 0 /\ p = 0 /\ argp = 0 /\ args = <<>>
        /\ batches = <<>> /\ phase = "read" /\ quoted = "none" /\ wasquoted = FALSE
        /\ last = FALSE /\ code = NoCode
    BY Zenon DEF Init
  <1>2. opt.z \in BOOLEAN /\ in \in Seq(Char(opt.z))
    BY <1>1, TextAssumption, Zenon DEF Char
  <1>3. at \in 0..Len(in)
    BY <1>1, <1>2
  <1>4. RunsTyped
    <2>1. <<>> \in Seq({}) /\ 1..Len(<<>>) = {}
      OBVIOUS
    <2> QED
      BY <1>1, <2>1, Zenon DEF RunsTyped
  <1>5. TextInv
    <2>1. "read" # "exit"
      OBVIOUS
    <2> QED
      BY <1>1, <1>2, <1>3, <1>4, <2>1, Zenon DEF TextInv
  <1>6. Seen = <<>>
    <2>1. Strings(buf, args) = <<>> /\ <<>> \o <<>> = <<>>
      BY <1>1 DEF Strings
    <2>2. Delivered = <<>>
      BY <1>1, ArgsOfNone, Zenon DEF Delivered
    <2> QED
      BY <2>1, <2>2, Zenon DEF Seen
  <1>7. Read = NoWord
    BY <1>1, <1>2, WordsUnfold, Zenon DEF Read
  <1>8. /\ NoWord.cur = <<>> /\ NoWord.q = "none" /\ NoWord.esc = FALSE /\ NoWord.some = FALSE
        /\ NoWord.out = <<>>
    BY Zenon DEF NoWord
  <1>9. Between(buf, argp, p) = <<>> /\ QuoteOf(quoted) = "none"
    BY <1>1 DEF Between, QuoteOf
  <1>10. Agreed
    BY <1>1, <1>6, <1>7, <1>8, <1>9, Zenon DEF Agreed
  <1>11. Ongoing /\ ~Ended
    BY <1>1 DEF Ongoing, Ended, Completed, NoCode
  <1> QED
    BY <1>5, <1>10, <1>11, Zenon DEF ParseInv

\* xargs agrees with the reference at all times.
LEMMA ParseAlways == Spec => [](BufferInv /\ ParseInv)
  <1>1. Init => BufferInv /\ BatchInv /\ ParseInv
    BY BufferInit, ParseInit
  <1>2. BufferInv /\ BatchInv /\ ParseInv /\ [Next]_vars => BufferInv' /\ BatchInv' /\ ParseInv'
    BY BufferStep, ParseStep
  <1> QED
    BY <1>1, <1>2, PTL DEF Spec

(* For any input, any -n, -s, -L, -x, -E, -0, -I and -P: when xargs        *)
(* completes without -E, the utilities have been given all arguments of    *)
(* the input, but for an empty quoted one that ends it.                    *)
THEOREM AllDelivered == Spec => []AllButLastEmpty
  <1>1. BufferInv /\ ParseInv => AllButLastEmpty
    BY Zenon DEF ParseInv, Ended, Whole, AllButLastEmpty
  <1> QED
    BY <1>1, ParseAlways, PTL

-----------------------------------------------------------------------------
(* -E eofstr. *)

\* The characters at the positions w of the input i.
Text(i, w) == [j \in 1..Len(w) |-> i[w[j]]]

\* No argument so far is eofstr.
EofInv ==
    opt.eofstr # <<>> => \A k \in 1..Len(Seen) : Text(in, Seen[k]) # opt.eofstr

\* What a step makes of what has been seen.
LEMMA SeenStep ==
    ASSUME BufferInv, ParseInv, [Next]_vars
    PROVE  opt' = opt /\ in' = in /\ Seen' \in {Seen, Delivered, SeenThen}
  <1>1. opt' = opt /\ in' = in
    BY Zenon DEF Next, Parse, ReadChar, ReadBackslash, BackslashAtEOF, ReadQuote, ReadBlank,
                 ReadNewline, ReadEOFIdle, ReadEOF, UnterminatedQuote, WaitReap, WaitDone,
                 ChildExit, vars
  <1>2. RunsTyped /\ (phase = "read" => last = FALSE)
    BY Zenon DEF ParseInv, TextInv
  <1>3. ASSUME UNCHANGED <<parser, batches>> PROVE Seen' = Seen
    <2>1. UNCHANGED <<buf, args, batches>>
      BY <1>3, Zenon DEF parser
    <2> QED
      BY <2>1, Zenon DEF Seen, Delivered
  <1>4. CASE ReadChar \/ ReadBackslash
    <2>1. PICK pos \in {at + 1, at + 2} : AddAny(pos) /\ phase = "read" /\ last' = last
      BY <1>4, Zenon DEF ReadChar, ReadBackslash, More
    <2>2. pos \in Nat \ {0}
      <3>1. at \in Nat
        BY Zenon DEF BufferInv
      <3> QED
        BY <2>1, <3>1
    <2>3. Seen' \in {Seen, Delivered}
      BY <1>1, <1>2, <2>1, <2>2, AddAnyFacts
    <2> QED
      BY <1>1, <2>3, Zenon
  <1>5. CASE ReadBlank \/ ReadNewline \/ ReadEOF
    <2>1. PICK c, isEOF : EndArg(c, isEOF) /\ phase = "read" /\ isEOF \in {FALSE, TRUE}
      BY <1>5, Zenon DEF ReadBlank, ReadNewline, ReadEOF, More, AtEOF
    <2>2. Seen' \in {Delivered, SeenThen}
      BY <1>1, <1>2, <2>1, EndArgFacts
    <2> QED
      BY <1>1, <2>2, Zenon
  <1>6. CASE ReadQuote
    <2>1. UNCHANGED <<buf, args, batches>>
      BY <1>6, Zenon DEF ReadQuote, pool
    <2> QED
      BY <1>1, <2>1, Zenon DEF Seen, Delivered
  <1>7. CASE BackslashAtEOF \/ ReadEOFIdle \/ UnterminatedQuote
    BY <1>1, <1>3, <1>7, Zenon DEF BackslashAtEOF, ReadEOFIdle, UnterminatedQuote, pool
  <1>8. CASE WaitReap \/ WaitDone \/ ChildExit \/ UNCHANGED vars
    BY <1>1, <1>3, <1>8, Zenon DEF WaitReap, WaitDone, ChildExit, vars, pool
  <1> QED
    BY <1>4, <1>5, <1>6, <1>7, <1>8, Zenon DEF Next, Parse

\* The comparison with eofstr finds every argument that is eofstr.
LEMMA EofFound ==
    ASSUME BufferInv, opt.eofstr # <<>>, Text(in, Between(buf, argp, p)) = opt.eofstr
    PROVE  FoundEof
  <1> DEFINE w == Between(buf, argp, p)
             n == p - argp
             e == opt.eofstr
  <1>1. n \in Nat /\ p \in Nat /\ argp \in Nat
    BY DEF BufferInv
  <1>2. w = [k \in 1..n |-> buf[argp + k - 1]]
    BY Zenon DEF Between
  <1> HIDE DEF w, n
  <1>3. Len(w) = n /\ \A k \in 1..n : w[k] = buf[argp + k - 1]
    BY <1>1, <1>2
  <1>4. e = [j \in 1..n |-> in[w[j]]]
    BY <1>3, Zenon DEF Text, w
  <1> HIDE DEF e
  <1>5. Len(e) = n /\ \A k \in 1..n : e[k] = in[buf[argp + k - 1]]
    BY <1>1, <1>3, <1>4
  <1>6. n <= Len(e)
    BY <1>1, <1>5
  <1> QED
    BY <1>5, <1>6, Zenon DEF FoundEof, e, n

\* Every step keeps eofstr away.
LEMMA EofStep ==
    ASSUME BufferInv, ParseInv, EofInv, [Next]_vars
    PROVE  EofInv'
  <1> SUFFICES ASSUME opt'.eofstr # <<>>
               PROVE  \A k \in 1..Len(Seen') : Text(in', Seen'[k]) # opt'.eofstr
    BY Zenon DEF EofInv, Text
  <1> DEFINE Good(s) == \A k \in 1..Len(s) : Text(in, s[k]) # opt.eofstr
             d == Delivered
             s == Seen
             w == Between(buf, argp, p)
             e == opt.eofstr
  <1>1. opt' = opt /\ in' = in /\ Seen' \in {s, d, SeenThen}
    BY SeenStep
  <1>2. Good(s)
    BY <1>1, Zenon DEF EofInv
  <1>3. s \in Seq(Seq(Int)) /\ d \in Seq(Seq(Int)) /\ w \in Seq(Int) /\ Prefix(d, s)
    <2>1. RunsTyped
      BY Zenon DEF ParseInv, TextInv
    <2> QED
      BY <2>1, SeenType
  <1>4. Good(d)
    <2> HIDE DEF s, d
    <2>1. \A k \in 1..Len(d) : k \in 1..Len(s) /\ d[k] = s[k]
      BY <1>3 DEF Prefix
    <2> QED
      BY <1>2, <2>1, Zenon
  <1>5. Good(SeenThen)
    <2>1. CASE ~Makes
      BY <1>2, <2>1, Zenon DEF SeenThen
    <2>2. CASE Makes
      <3>1. Text(in, w) # e
        BY <1>1, <2>2, EofFound, Zenon DEF Makes
      <3>2. SeenThen = Append(s, w)
        BY <2>2, Zenon DEF SeenThen
      <3> HIDE DEF s, w
      <3>3. /\ Len(s) \in Nat /\ Len(Append(s, w)) = Len(s) + 1
            /\ \A k \in 1..Len(s) : Append(s, w)[k] = s[k]
            /\ Append(s, w)[Len(s) + 1] = w
        BY <1>3
      <3>4. \A k \in 1..(Len(s) + 1) : k \in 1..Len(s) \/ k = Len(s) + 1
        BY <3>3
      <3>5. ASSUME NEW k \in 1..Len(SeenThen) PROVE Text(in, SeenThen[k]) # e
        BY <1>2, <3>1, <3>2, <3>3, <3>4, <3>5, Zenon
      <3> QED
        BY <3>5, Zenon
    <2> QED
      BY <2>1, <2>2
  <1> QED
    BY <1>1, <1>2, <1>4, <1>5, Zenon

(* For any input, any -n, -s, -L, -x, -E, -0, -I and -P: what the          *)
(* utilities have been given, and what waits in the buffer, is what the    *)
(* input's arguments begin with, and no utility is given eofstr.           *)
THEOREM ArgsDelivered == Spec => []ArgsInOrder
  <1>1. Init => EofInv
    <2> SUFFICES ASSUME Init PROVE EofInv
      OBVIOUS
    <2>1. args = <<>> /\ batches = <<>>
      BY Zenon DEF Init
    <2>2. Strings(buf, args) = <<>> /\ <<>> \o <<>> = <<>> /\ 1..Len(<<>>) = {}
      BY <2>1 DEF Strings
    <2>3. Seen = <<>>
      BY <2>1, <2>2, ArgsOfNone, Zenon DEF Seen, Delivered
    <2> QED
      BY <2>2, <2>3, Zenon DEF EofInv
  <1>2. BufferInv /\ ParseInv /\ EofInv /\ [Next]_vars => EofInv'
    BY EofStep
  <1>3. BufferInv /\ ParseInv /\ EofInv => ArgsInOrder
    <2> SUFFICES ASSUME BufferInv, ParseInv, EofInv PROVE ArgsInOrder
      OBVIOUS
    <2>1. Prefix(Seen, Words)
      BY SeenPrefix
    <2>2. Len(Seen) <= Len(Words) /\ \A k \in 1..Len(Seen) : Seen[k] = Words[k]
      BY <2>1, Zenon DEF Prefix
    <2>3. ASSUME opt.eofstr # <<>>, NEW k \in 1..Len(Delivered)
          PROVE  Text(in, Delivered[k]) # opt.eofstr
      <3> DEFINE d == Delivered
                 s == Seen
      <3>1. RunsTyped
        BY Zenon DEF ParseInv, TextInv
      <3>2. s \in Seq(Seq(Int)) /\ d \in Seq(Seq(Int)) /\ Prefix(d, s)
        BY <3>1, SeenType
      <3>3. k \in 1..Len(d)
        BY <2>3
      <3> HIDE DEF d, s
      <3>4. k \in 1..Len(s) /\ d[k] = s[k]
        BY <3>2, <3>3 DEF Prefix
      <3> QED
        BY <2>3, <3>4, Zenon DEF EofInv, d, s
    <2> QED
      BY <2>2, <2>3, Zenon DEF ArgsInOrder, Seen, Text
  <1> QED
    BY <1>1, <1>2, <1>3, ParseAlways, PTL DEF Spec


-----------------------------------------------------------------------------
(* The line of -I. *)

\* The arguments a, joined one after the other.
Joins(f, a) ==
    /\ f \in [0..Len(a) -> Seq(Int)]
    /\ f[0] = <<>>
    /\ \A k \in 1..Len(a) :
          f[k] = IF f[k - 1] = <<>> THEN a[k] ELSE f[k - 1] \o <<Space>> \o a[k]

\* The recursion of Joined().
LEMMA JoinedUnfold ==
    ASSUME NEW a \in Seq(Seq(Int))
    PROVE  \E f : Joins(f, a) /\ Joined(a) = f[Len(a)]
  <1> DEFINE n == Len(a)
             X == Seq(Int)
             x0 == <<>>
             F(x, k) == IF x = <<>> THEN a[k] ELSE x \o <<Space>> \o a[k]
             g == [k \in 1..n |-> [x \in X |-> F(x, k)]]
             Def(f) == f = [k \in 0..n |->
                              IF k = 0 THEN x0
                              ELSE IF f[k - 1] = <<>> THEN a[k]
                                   ELSE f[k - 1] \o <<Space>> \o a[k]]
             up == CHOOSE f : Def(f)
  <1>1. n \in Nat /\ x0 \in X /\ x0 = <<>>
    OBVIOUS
  <1>2. \A k \in 1..n, x \in X : F(x, k) \in X
    <2>1. \A k \in 1..n : a[k] \in Seq(Int)
      OBVIOUS
    <2>2. <<Space>> \in Seq(Int)
      BY DEF Space
    <2>3. \A x \in Seq(Int), y \in Seq(Int) : x \o <<Space>> \o y \in Seq(Int)
      BY <2>2, ConcatProperties
    <2> QED
      BY <2>1, <2>3, Zenon
  <1> HIDE DEF n, X, x0
  <1>3. g \in [1..n -> [X -> X]]
    <2> HIDE DEF F
    <2> QED
      BY <1>2
  <1>4. PICK h \in [0..n -> X] : Follows(h, n, x0, g)
    <2> HIDE DEF g
    <2> QED
      BY <1>1, <1>3, Recursion
  <1>5. h[0] = x0 /\ \A k \in 1..n : h[k] = F(h[k - 1], k)
    <2> HIDE DEF F
    <2>1. ASSUME NEW k \in 1..n PROVE h[k] = F(h[k - 1], k)
      <3>1. k - 1 \in 0..n
        BY <1>1
      <3>2. h[k - 1] \in X /\ h[k] = g[k][h[k - 1]]
        BY <1>4, <3>1, Zenon DEF Follows
      <3> QED
        BY <3>2, Zenon
    <2> QED
      BY <1>4, <2>1, Zenon DEF Follows
  <1>6. Def(h)
    <2>1. \A k \in 0..n : h[k] = IF k = 0 THEN x0 ELSE F(h[k - 1], k)
      <3>1. \A k \in 0..n : k = 0 \/ k \in 1..n
        BY <1>1
      <3> QED
        BY <1>5, <3>1, Zenon
    <2> QED
      BY <2>1
  <1>7. Def(up)
    <2> HIDE DEF Def
    <2> QED
      BY <1>6, Zenon
  <1>8. Joined(a) = up[n]
    BY Zenon DEF Joined, n, x0
  <1> HIDE DEF up
  <1>9. up[0] = x0 /\ \A k \in 1..n : up[k] = F(up[k - 1], k)
    <2>1. up[0] = x0
      BY <1>1, <1>7
    <2>2. ASSUME NEW k \in 1..n PROVE up[k] = F(up[k - 1], k)
      <3>1. k \in 0..n /\ k # 0
        BY <1>1
      <3> QED
        BY <1>7, <3>1, Zenon
    <2> QED
      BY <2>1, <2>2
  <1>10. up \in [0..n -> X]
    <2> DEFINE T == {k \in 0..n : up[k] \in X}
    <2>1. 0 \in T
      BY <1>1, <1>9
    <2>2. \A k \in 1..n : k - 1 \in T => k \in T
      <3> HIDE DEF F
      <3> QED
        BY <1>1, <1>2, <1>9
    <2>3. \A k \in 0..n : k \in T
      <3> HIDE DEF T
      <3> QED
        BY <1>1, <2>1, <2>2, UpTo
    <2>4. \A k \in 0..n : up[k] \in X
      BY <2>3
    <2>5. up = [k \in 0..n |-> up[k]]
      <3> DEFINE E(k) == IF k = 0 THEN x0
                         ELSE IF up[k - 1] = <<>> THEN a[k]
                              ELSE up[k - 1] \o <<Space>> \o a[k]
      <3>1. up = [k \in 0..n |-> E(k)]
        BY <1>7, Zenon
      <3> HIDE DEF E
      <3> QED
        BY <3>1
    <2> QED
      BY <2>4, <2>5
  <1>11. Joins(up, a)
    BY <1>1, <1>9, <1>10, Zenon DEF Joins, n, X
  <1> QED
    BY <1>8, <1>11, Zenon DEF n

\* One more argument is joined, after a blank if something stands before it.
LEMMA JoinedAppend ==
    ASSUME NEW a \in Seq(Seq(Int)), NEW w \in Seq(Int)
    PROVE  /\ Joined(a) \in Seq(Int) /\ Joined(<<>>) = <<>>
           /\ Joined(Append(a, w))
                = IF Joined(a) = <<>> THEN w ELSE Joined(a) \o <<Space>> \o w
  <1> DEFINE c == Append(a, w)
             n == Len(a)
  <1>1. /\ c \in Seq(Seq(Int)) /\ Len(c) = n + 1 /\ n \in Nat /\ c[n + 1] = w
        /\ \A k \in 1..n : c[k] = a[k]
    OBVIOUS
  <1>2. PICK f : Joins(f, a) /\ Joined(a) = f[n]
    BY JoinedUnfold
  <1> HIDE DEF c
  <1>3. PICK g : Joins(g, c) /\ Joined(c) = g[n + 1]
    <2>1. PICK g : Joins(g, c) /\ Joined(c) = g[Len(c)]
      BY <1>1, JoinedUnfold
    <2> QED
      BY <1>1, <2>1, Zenon
  <1>4. g[n] = f[n]
    <2> DEFINE T == {k \in 0..n : g[k] = f[k]}
    <2>1. 0 \in T
      BY <1>1, <1>2, <1>3 DEF Joins
    <2>2. ASSUME NEW k \in 1..n, k - 1 \in T PROVE k \in T
      <3>1. k \in 0..n /\ k \in 1..Len(c) /\ g[k - 1] = f[k - 1] /\ c[k] = a[k]
        BY <1>1, <2>2, SMTT(60)
      <3>2. f[k] = IF f[k - 1] = <<>> THEN a[k] ELSE f[k - 1] \o <<Space>> \o a[k]
        BY <1>2, Zenon DEF Joins
      <3>3. g[k] = IF g[k - 1] = <<>> THEN c[k] ELSE g[k - 1] \o <<Space>> \o c[k]
        BY <1>3, <3>1, Zenon DEF Joins
      <3>4. g[k] = f[k]
        BY <3>1, <3>2, <3>3, Zenon
      <3> QED
        BY <3>1, <3>4
    <2>3. \A k \in 0..n : k \in T
      <3> HIDE DEF T
      <3> QED
        BY <1>1, <2>1, <2>2, UpTo
    <2> QED
      BY <1>1, <2>3
  <1>5. g[n + 1] = IF g[n] = <<>> THEN w ELSE g[n] \o <<Space>> \o w
    <2> DEFINE m == n + 1
    <2>1. m \in 1..Len(c) /\ m - 1 = n /\ c[m] = w
      BY <1>1
    <2> HIDE DEF m
    <2>2. g[m] = IF g[m - 1] = <<>> THEN c[m] ELSE g[m - 1] \o <<Space>> \o c[m]
      BY <1>3, <2>1, Zenon DEF Joins
    <2> QED
      BY <2>1, <2>2, Zenon DEF m
  <1>6. Joined(a) \in Seq(Int)
    <2>1. n \in 0..Len(a)
      BY <1>1
    <2> QED
      BY <1>2, <2>1, Zenon DEF Joins
  <1>7. Joined(<<>>) = <<>>
    <2> DEFINE e == <<>>
    <2>1. e \in Seq(Seq(Int)) /\ Len(e) = 0
      OBVIOUS
    <2> HIDE DEF e
    <2>2. PICK h : Joins(h, e) /\ Joined(e) = h[Len(e)]
      BY <2>1, JoinedUnfold
    <2>3. Joined(e) = <<>>
      BY <2>1, <2>2, Zenon DEF Joins
    <2> QED
      BY <2>3, Zenon DEF e
  <1> QED
    BY <1>2, <1>3, <1>4, <1>5, <1>6, <1>7, Zenon DEF c

\* What the first characters of s become.
Piece(s, line, n) == IF s[n] = "R" THEN line ELSE <<s[n]>>
Substs(f, s, line, A) ==
    /\ f \in [0..Len(s) -> Seq(A)]
    /\ f[0] = <<>>
    /\ \A n \in 1..Len(s) : f[n] = f[n - 1] \o Piece(s, line, n)

\* The recursion of Substituted().
LEMMA SubstitutedUnfold ==
    ASSUME NEW A, NEW s \in Seq(A), NEW line \in Seq(A)
    PROVE  \E f : Substs(f, s, line, A) /\ Substituted(s, line) = f[Len(s)]
  <1> DEFINE n == Len(s)
             X == Seq(A)
             x0 == <<>>
             P(k) == Piece(s, line, k)
             g == [k \in 1..n |-> [x \in X |-> x \o P(k)]]
             Def(f) == f = [k \in 0..n |->
                              IF k = 0 THEN x0
                              ELSE f[k - 1] \o (IF s[k] = "R" THEN line ELSE <<s[k]>>)]
             up == CHOOSE f : Def(f)
  <1>1. n \in Nat /\ x0 \in X /\ x0 = <<>>
    OBVIOUS
  <1>2. \A k \in 1..n, x \in X : x \o P(k) \in X
    <2>1. \A k \in 1..n : <<s[k]>> \in Seq(A)
      OBVIOUS
    <2>2. \A k \in 1..n : P(k) \in Seq(A)
      BY <2>1, Zenon DEF Piece
    <2> HIDE DEF P
    <2> QED
      BY <2>2, ConcatProperties
  <1> HIDE DEF n, X, x0
  <1>3. g \in [1..n -> [X -> X]]
    <2> HIDE DEF P
    <2> QED
      BY <1>2
  <1>4. PICK h \in [0..n -> X] : Follows(h, n, x0, g)
    <2> HIDE DEF g
    <2> QED
      BY <1>1, <1>3, Recursion
  <1>5. h[0] = x0 /\ \A k \in 1..n : h[k] = h[k - 1] \o P(k)
    <2> HIDE DEF P
    <2>1. ASSUME NEW k \in 1..n PROVE h[k] = h[k - 1] \o P(k)
      <3>1. k - 1 \in 0..n
        BY <1>1
      <3>2. h[k - 1] \in X /\ h[k] = g[k][h[k - 1]]
        BY <1>4, <3>1, Zenon DEF Follows
      <3> QED
        BY <3>2, Zenon
    <2> QED
      BY <1>4, <2>1, Zenon DEF Follows
  <1>6. Def(h)
    <2>1. \A k \in 0..n : h[k] = IF k = 0 THEN x0 ELSE h[k - 1] \o P(k)
      <3>1. \A k \in 0..n : k = 0 \/ k \in 1..n
        BY <1>1
      <3> QED
        BY <1>5, <3>1, Zenon
    <2>2. h = [k \in 0..n |-> IF k = 0 THEN x0 ELSE h[k - 1] \o P(k)]
      <3> HIDE DEF P
      <3> QED
        BY <2>1
    <2> QED
      BY <2>2, Zenon DEF Piece
  <1>7. Def(up)
    <2> HIDE DEF Def
    <2> QED
      BY <1>6, Zenon
  <1>8. Substituted(s, line) = up[n]
    BY Zenon DEF Substituted, n, x0
  <1>9. up = [k \in 0..n |-> IF k = 0 THEN x0 ELSE up[k - 1] \o P(k)]
    <2> HIDE DEF up
    <2> QED
      BY <1>7, Zenon DEF Piece
  <1> HIDE DEF up, P
  <1>10. up[0] = x0 /\ \A k \in 1..n : up[k] = up[k - 1] \o P(k)
    <2>1. 0 \in 0..n /\ \A k \in 1..n : k \in 0..n /\ k # 0
      BY <1>1
    <2> QED
      BY <1>9, <2>1, Zenon
  <1>11. up \in [0..n -> X]
    <2> DEFINE T == {k \in 0..n : up[k] \in X}
    <2>1. 0 \in T
      BY <1>1, <1>10
    <2>2. \A k \in 1..n : k - 1 \in T => k \in T
      <3>1. \A k \in 1..n : k \in 0..n
        BY <1>1
      <3> QED
        BY <1>2, <1>10, <3>1, Zenon
    <2>3. \A k \in 0..n : k \in T
      <3> HIDE DEF T
      <3> QED
        BY <1>1, <2>1, <2>2, UpTo
    <2>4. \A k \in 0..n : up[k] \in X
      BY <2>3
    <2> DEFINE E(k) == IF k = 0 THEN x0 ELSE up[k - 1] \o P(k)
    <2>5. up = [k \in 0..n |-> E(k)]
      BY <1>9, Zenon
    <2> HIDE DEF E
    <2> QED
      BY <2>4, <2>5
  <1>12. Substs(up, s, line, A)
    BY <1>1, <1>10, <1>11, Zenon DEF Substs, n, X, P
  <1> QED
    BY <1>8, <1>12, Zenon DEF n

(* What strnsubst() has made of the first characters of s: a string, and   *)
(* whether replstr was left once.                                          *)
Taken(A) == [s2 : Seq(A), done : BOOLEAN]
Fits(u, s, line, n, max) == Len(u.s2) + (Len(s) - n + 1) + Len(line) <= max
Takes(u, s, line, n, max) ==
    IF s[n] = "R" /\ ~u.done /\ Fits(u, s, line, n, max)
    THEN [u EXCEPT !.s2 = @ \o line]
    ELSE [s2 |-> Append(u.s2, s[n]), done |-> u.done \/ s[n] = "R"]
Copies(f, s, line, max, A) ==
    /\ f \in [0..Len(s) -> Taken(A)]
    /\ f[0] = [s2 |-> <<>>, done |-> FALSE]
    /\ \A n \in 1..Len(s) : f[n] = Takes(f[n - 1], s, line, n, max)

\* The recursion of strnsubst().
LEMMA SubstUnfold ==
    ASSUME NEW A, NEW s \in Seq(A), NEW line \in Seq(A), NEW max
    PROVE  \E f : /\ Copies(f, s, line, max, A)
                  /\ strnsubst(s, line, max)
                       = LET r == IF Len(s) = max THEN s ELSE f[Len(s)].s2
                         IN  SubSeq(r, 1, IF Len(r) < max THEN Len(r) ELSE max - 1)
  <1> DEFINE n == Len(s)
             X == Taken(A)
             x0 == [s2 |-> <<>>, done |-> FALSE]
             F(x, k) == Takes(x, s, line, k, max)
             g == [k \in 1..n |-> [x \in X |-> F(x, k)]]
             Def(f) == f = [k \in 0..n |->
                              IF k = 0 THEN x0
                              ELSE LET u == f[k - 1]
                                       fits == Len(u.s2) + (Len(s) - k + 1) + Len(line) <= max
                                   IN  IF s[k] = "R" /\ ~u.done /\ fits
                                       THEN [u EXCEPT !.s2 = @ \o line]
                                       ELSE [s2 |-> Append(u.s2, s[k]),
                                             done |-> u.done \/ s[k] = "R"]]
             up == CHOOSE f : Def(f)
  <1>1. n \in Nat /\ x0 \in X
    <2>1. <<>> \in Seq(A)
      OBVIOUS
    <2> QED
      BY <2>1 DEF Taken
  <1>2. \A k \in 1..n, x \in X : F(x, k) \in X
    <2> TAKE k \in 1..n, x \in X
    <2>1. x.s2 \in Seq(A) /\ x.done \in BOOLEAN /\ x = [s2 |-> x.s2, done |-> x.done]
      BY Zenon DEF Taken
    <2>2. x.s2 \o line \in Seq(A) /\ Append(x.s2, s[k]) \in Seq(A)
      BY <2>1
    <2> QED
      BY <2>1, <2>2, Zenon DEF Takes, Taken
  <1> HIDE DEF n, X, x0
  <1>3. g \in [1..n -> [X -> X]]
    <2> HIDE DEF F
    <2> QED
      BY <1>2
  <1>4. PICK h \in [0..n -> X] : Follows(h, n, x0, g)
    <2> HIDE DEF g
    <2> QED
      BY <1>1, <1>3, Recursion
  <1>5. h[0] = x0 /\ \A k \in 1..n : h[k] = F(h[k - 1], k)
    <2> HIDE DEF F
    <2>1. ASSUME NEW k \in 1..n PROVE h[k] = F(h[k - 1], k)
      <3>1. k - 1 \in 0..n
        BY <1>1
      <3>2. h[k - 1] \in X /\ h[k] = g[k][h[k - 1]]
        BY <1>4, <3>1, Zenon DEF Follows
      <3> QED
        BY <3>2, Zenon
    <2> QED
      BY <1>4, <2>1, Zenon DEF Follows
  <1>6. Def(h)
    <2>1. \A k \in 0..n : h[k] = IF k = 0 THEN x0 ELSE F(h[k - 1], k)
      <3>1. \A k \in 0..n : k = 0 \/ k \in 1..n
        BY <1>1
      <3> QED
        BY <1>5, <3>1, Zenon
    <2>2. h = [k \in 0..n |-> IF k = 0 THEN x0 ELSE F(h[k - 1], k)]
      <3> HIDE DEF F
      <3> QED
        BY <2>1
    <2> QED
      BY <2>2, Zenon DEF Takes, Fits
  <1>7. Def(up)
    <2> HIDE DEF Def
    <2> QED
      BY <1>6, Zenon
  <1>8. strnsubst(s, line, max)
          = LET r == IF Len(s) = max THEN s ELSE up[n].s2
            IN  SubSeq(r, 1, IF Len(r) < max THEN Len(r) ELSE max - 1)
    BY Zenon DEF strnsubst, n, x0
  <1>9. up = [k \in 0..n |-> IF k = 0 THEN x0 ELSE F(up[k - 1], k)]
    <2> HIDE DEF up
    <2> QED
      BY <1>7, Zenon DEF Takes, Fits
  <1> HIDE DEF up, F
  <1>10. up[0] = x0 /\ \A k \in 1..n : up[k] = F(up[k - 1], k)
    BY <1>1, <1>9
  <1>11. up \in [0..n -> X]
    <2> DEFINE T == {k \in 0..n : up[k] \in X}
    <2>1. 0 \in T
      BY <1>1, <1>10
    <2>2. \A k \in 1..n : k - 1 \in T => k \in T
      BY <1>1, <1>2, <1>10
    <2>3. \A k \in 0..n : k \in T
      <3> HIDE DEF T
      <3> QED
        BY <1>1, <2>1, <2>2, UpTo
    <2>4. \A k \in 0..n : up[k] \in X
      BY <2>3
    <2> DEFINE E(k) == IF k = 0 THEN x0 ELSE F(up[k - 1], k)
    <2>5. up = [k \in 0..n |-> E(k)]
      BY <1>9, Zenon
    <2> HIDE DEF E
    <2> QED
      BY <2>4, <2>5
  <1>12. Copies(up, s, line, max, A)
    BY <1>10, <1>11, Zenon DEF Copies, n, X, F, x0
  <1> QED
    BY <1>8, <1>12, Zenon DEF n

\* The lengths: an empty line shortens, any other makes every character one at least.
LEMMA SubstLengths ==
    ASSUME NEW A, NEW s \in Seq(A), NEW line \in Seq(A), NEW f, Substs(f, s, line, A)
    PROVE  /\ \A k \in 0..Len(s) : Len(f[k]) \in Nat
           /\ \A k \in 1..Len(s) : s[k] = "R" => Len(f[k]) = Len(f[k - 1]) + Len(line)
           /\ Len(line) = 0 => \A k \in 0..Len(s) : Len(f[k]) <= k
           /\ Len(line) > 0 => \A j, k \in 0..Len(s) :
                                  j <= k => Len(f[j]) + (k - j) <= Len(f[k])
  <1> DEFINE n == Len(s)
             l == Len(line)
             L(k) == Len(f[k])
             P(k) == Piece(s, line, k)
  <1>1. n \in Nat /\ l \in Nat
    OBVIOUS
  <1>2. /\ f \in [0..n -> Seq(A)] /\ f[0] = <<>>
        /\ \A k \in 1..n : f[k] = f[k - 1] \o P(k)
    BY Zenon DEF Substs
  <1>3. \A k \in 1..n : P(k) \in Seq(A) /\ Len(P(k)) \in {1, l} /\ (s[k] = "R" => Len(P(k)) = l)
    <2>1. \A k \in 1..n : <<s[k]>> \in Seq(A) /\ Len(<<s[k]>>) = 1
      OBVIOUS
    <2> QED
      BY <2>1, Zenon DEF Piece
  <1> HIDE DEF n, l, P
  <1>4. \A k \in 0..n : L(k) \in Nat
    BY <1>2
  <1>5. ASSUME NEW k \in 1..n PROVE L(k) = L(k - 1) + Len(P(k))
    <2>1. k - 1 \in 0..n
      BY <1>1
    <2>2. f[k - 1] \in Seq(A) /\ f[k] = f[k - 1] \o P(k)
      BY <1>2, <2>1
    <2> QED
      BY <1>3, <2>2
  <1>6. L(0) = 0
    BY <1>2
  <1> HIDE DEF L
  <1>7. ASSUME l = 0 PROVE \A k \in 0..n : L(k) <= k
    <2> DEFINE T == {k \in 0..n : L(k) <= k}
    <2>1. 0 \in T
      BY <1>1, <1>6
    <2>2. ASSUME NEW k \in 1..n, k - 1 \in T PROVE k \in T
      <3>1. L(k) \in Nat /\ L(k - 1) \in Nat /\ k \in 0..n
        <4>1. k \in 0..n /\ k - 1 \in 0..n
          BY <1>1
        <4> QED
          BY <1>4, <4>1
      <3>2. Len(P(k)) \in {0, 1} /\ L(k) = L(k - 1) + Len(P(k)) /\ L(k - 1) <= k - 1
        BY <1>3, <1>5, <1>7, <2>2
      <3> DEFINE x == L(k)
                 y == L(k - 1)
                 z == Len(P(k))
      <3>3. x \in Nat /\ y \in Nat /\ z \in {0, 1} /\ x = y + z /\ y <= k - 1
        BY <3>1, <3>2, Zenon
      <3> HIDE DEF x, y, z
      <3>4. x <= k
        BY <3>3
      <3> QED
        BY <3>1, <3>4 DEF x
    <2>3. \A k \in 0..n : k \in T
      <3> HIDE DEF T
      <3> QED
        BY <1>1, <2>1, <2>2, UpTo
    <2> QED
      BY <2>3
  <1>8. ASSUME l > 0, NEW j \in 0..n
        PROVE  \A k \in 0..n : j <= k => L(j) + (k - j) <= L(k)
    <2> DEFINE T == {k \in 0..n : j <= k => L(j) + (k - j) <= L(k)}
    <2>1. 0 \in T
      <3>1. 0 \in 0..n /\ L(j) \in Nat
        BY <1>1, <1>4
      <3>2. j <= 0 => j = 0
        BY <1>1
      <3>3. L(0) + (0 - 0) <= L(0)
        BY <1>6
      <3> QED
        BY <3>1, <3>2, <3>3
    <2>2. ASSUME NEW k \in 1..n, k - 1 \in T PROVE k \in T
      <3>1. L(k) \in Nat /\ L(k - 1) \in Nat /\ k \in 0..n /\ L(j) \in Nat
        <4>1. k \in 0..n /\ k - 1 \in 0..n
          BY <1>1
        <4> QED
          BY <1>4, <4>1
      <3>2. Len(P(k)) \in Nat /\ Len(P(k)) >= 1 /\ L(k) = L(k - 1) + Len(P(k))
        <4>1. Len(P(k)) \in {1, l} /\ L(k) = L(k - 1) + Len(P(k)) /\ l \in Nat /\ l > 0
          BY <1>1, <1>3, <1>5, <1>8, Zenon
        <4> DEFINE z == Len(P(k))
        <4>2. z \in {1, l}
          BY <4>1
        <4> HIDE DEF z
        <4>3. z \in Nat /\ z >= 1
          BY <4>1, <4>2
        <4> QED
          BY <4>1, <4>3, Zenon DEF z
      <3>3. CASE j <= k - 1
        <4>1. L(j) + ((k - 1) - j) <= L(k - 1)
          BY <2>2, <3>3
        <4> QED
          BY <3>1, <3>2, <4>1
      <3>4. CASE j = k
        BY <3>1, <3>4
      <3>5. CASE j > k
        BY <3>1, <3>5
      <3> QED
        BY <3>3, <3>4, <3>5
    <2>3. \A k \in 0..n : k \in T
      <3> HIDE DEF T
      <3> QED
        BY <1>1, <2>1, <2>2, UpTo
    <2> QED
      BY <2>3
  <1>9. \A k \in 1..n : s[k] = "R" => L(k) = L(k - 1) + l
    BY <1>3, <1>5
  <1> QED
    BY <1>4, <1>7, <1>8, <1>9, Zenon DEF L, n, l

(* strnsubst() replaces replstr everywhere if s fits in max bytes before   *)
(* and after; what it makes always fits.                                   *)
LEMMA SubstExact ==
    ASSUME NEW A, NEW s \in Seq(A), NEW line \in Seq(A), NEW max \in Nat \ {0}
    PROVE  /\ Len(strnsubst(s, line, max)) < max
           /\ Len(s) < max /\ Len(Substituted(s, line)) < max =>
                strnsubst(s, line, max) = Substituted(s, line)
  <1> DEFINE n == Len(s)
             l == Len(line)
  <1>1. PICK f : Substs(f, s, line, A) /\ Substituted(s, line) = f[n]
    BY SubstitutedUnfold
  <1>2. PICK g : /\ Copies(g, s, line, max, A)
                 /\ strnsubst(s, line, max)
                      = LET r == IF Len(s) = max THEN s ELSE g[Len(s)].s2
                        IN  SubSeq(r, 1, IF Len(r) < max THEN Len(r) ELSE max - 1)
    BY SubstUnfold, ZenonT(60)
  <1>3. n \in Nat /\ l \in Nat
    OBVIOUS
  <1> DEFINE r == IF n = max THEN s ELSE g[n].s2
             m == IF Len(r) < max THEN Len(r) ELSE max - 1
             got == strnsubst(s, line, max)
  <1>4. got = SubSeq(r, 1, m)
    BY <1>2, Zenon
  <1>5. r \in Seq(A)
    <2>1. n \in 0..n
      BY <1>3
    <2>2. g[n] \in Taken(A)
      BY <1>2, <2>1, Zenon DEF Copies
    <2>3. g[n].s2 \in Seq(A)
      BY <2>2, Zenon DEF Taken
    <2> QED
      BY <2>3, Zenon
  <1>6. Len(got) < max
    <2> HIDE DEF r, got
    <2>1. m \in 0..Len(r) /\ m < max
      BY <1>5
    <2> HIDE DEF m
    <2>2. Len(SubSeq(r, 1, m)) = m
      BY <1>5, <2>1
    <2> QED
      BY <1>4, <2>1, <2>2
  <1>7. ASSUME n < max, Len(f[n]) < max PROVE got = f[n]
    <2> DEFINE L(k) == Len(f[k])
               u0 == [s2 |-> <<>>, done |-> FALSE]
               V(k) == [s2 |-> f[k], done |-> FALSE]
               T == {k \in 0..n : g[k] = V(k)}
    <2>1. /\ \A k \in 0..n : L(k) \in Nat
          /\ \A k \in 1..n : s[k] = "R" => L(k) = L(k - 1) + l
          /\ l = 0 => \A k \in 0..n : L(k) <= k
          /\ l > 0 => \A j, k \in 0..n : j <= k => L(j) + (k - j) <= L(k)
      BY <1>1, SubstLengths, Zenon
    <2>2. 0 \in T
      <3>1. 0 \in 0..n
        BY <1>3
      <3>2. g[0] = V(0)
        BY <1>1, <1>2, Zenon DEF Copies, Substs
      <3> QED
        BY <3>1, <3>2, Zenon
    <2>3. ASSUME NEW k \in 1..n, k - 1 \in T PROVE k \in T
      <3>1. k \in 0..n /\ k - 1 \in 0..n /\ n \in 0..n /\ k <= n
        BY <1>3
      <3>2. g[k - 1] = V(k - 1)
        BY <2>3
      <3>3. ASSUME s[k] = "R" PROVE Fits(V(k - 1), s, line, k, max)
        <4>1. L(k - 1) + (n - k + 1) + l <= max
          <5> HIDE DEF n, l
          <5>1. /\ L(k) = L(k - 1) + l /\ L(k) \in Nat /\ L(k - 1) \in Nat /\ L(n) \in Nat
                /\ L(n) < max
            <6>1. L(n) < max
              BY <1>7, Zenon
            <6> HIDE DEF L
            <6> QED
              BY <2>1, <3>1, <3>3, <6>1
          <5>2. CASE l = 0
            <6>1. L(k - 1) <= k - 1
              BY <2>1, <3>1, <5>2, Zenon
            <6> HIDE DEF L
            <6> QED
              BY <1>3, <1>7, <5>1, <5>2, <6>1
          <5>3. CASE l > 0
            <6>1. L(k) + (n - k) <= L(n)
              BY <2>1, <3>1, <5>3, Zenon
            <6> HIDE DEF L
            <6> QED
              BY <1>3, <1>7, <5>1, <5>3, <6>1, SMTT(60)
          <5>4. l = 0 \/ l > 0
            <6> HIDE DEF L
            <6> QED
              BY <1>3
          <5> QED
            BY <5>2, <5>3, <5>4, Zenon
        <4>2. V(k - 1).s2 = f[k - 1]
          BY Zenon
        <4> QED
          BY <4>1, <4>2, Zenon DEF Fits
      <3>4. f[k] = f[k - 1] \o Piece(s, line, k) /\ g[k] = Takes(V(k - 1), s, line, k, max)
        BY <1>1, <1>2, <3>2, Zenon DEF Copies, Substs
      <3>5. V(k - 1).s2 = f[k - 1] /\ V(k - 1).done = FALSE
        BY Zenon
      <3>6. CASE s[k] = "R"
        <4>1. g[k] = [V(k - 1) EXCEPT !.s2 = @ \o line]
          BY <3>3, <3>4, <3>5, <3>6, Zenon DEF Takes
        <4>2. [V(k - 1) EXCEPT !.s2 = @ \o line] = [s2 |-> f[k - 1] \o line, done |-> FALSE]
          <5> DEFINE y == f[k - 1] \o line
          <5>1. [V(k - 1) EXCEPT !.s2 = @ \o line] = [V(k - 1) EXCEPT !.s2 = y]
            BY <3>5, Zenon
          <5> HIDE DEF y
          <5>2. \A x, z : [[s2 |-> x, done |-> z] EXCEPT !.s2 = y] = [s2 |-> y, done |-> z]
            OBVIOUS
          <5> QED
            BY <5>1, <5>2, Zenon DEF y
        <4>3. f[k] = f[k - 1] \o line
          BY <3>4, <3>6, Zenon DEF Piece
        <4> QED
          BY <3>1, <4>1, <4>2, <4>3, Zenon
      <3>7. CASE s[k] # "R"
        <4>1. g[k] = [s2 |-> Append(f[k - 1], s[k]), done |-> FALSE]
          BY <3>4, <3>5, <3>7, Zenon DEF Takes
        <4>2. f[k] = f[k - 1] \o <<s[k]>>
          BY <3>4, <3>7, Zenon DEF Piece
        <4>3. f[k - 1] \o <<s[k]>> = Append(f[k - 1], s[k])
          <5>1. f[k - 1] \in Seq(A)
            BY <1>1, <3>1, Zenon DEF Substs
          <5>2. s[k] \in A
            OBVIOUS
          <5> QED
            BY <5>1, <5>2
        <4> QED
          BY <3>1, <4>1, <4>2, <4>3, Zenon
      <3> QED
        BY <3>6, <3>7
    <2>4. \A k \in 0..n : k \in T
      <3> HIDE DEF T
      <3> QED
        BY <1>3, <2>2, <2>3, UpTo
    <2>5. g[n].s2 = f[n]
      <3>1. n \in T
        <4>1. n \in 0..n
          BY <1>3
        <4> QED
          BY <2>4, <4>1, Zenon
      <3>2. g[n] = V(n)
        BY <3>1
      <3> QED
        BY <3>2
    <2>6. r = f[n]
      <3>1. n # max
        BY <1>3, <1>7
      <3> QED
        BY <2>5, <3>1, Zenon
    <2> HIDE DEF r, got
    <2>7. Len(r) < max
      BY <1>7, <2>6, Zenon
    <2>8. m = Len(r)
      BY <2>7, Zenon
    <2>9. SubSeq(r, 1, Len(r)) = r
      BY <1>5
    <2> QED
      BY <1>4, <2>6, <2>8, <2>9, Zenon
  <1> QED
    BY <1>1, <1>6, <1>7, Zenon

\* inpline holds the arguments that wait in the buffer, joined.
LineText == Iflag /\ phase # "exit" => inpline.text = Joined(Strings(buf, args))

\* What prerun() makes with the options o and -I.
WithOf(o, k) == Cardinality({j \in 1..k : \E i \in 1..Len(o.cmd[j]) : o.cmd[j][i] = "R"})
ReplacesOf(o, k) == WithOf(o, k) # WithOf(o, k - 1) /\ (o.R < 0 \/ WithOf(o, k) <= o.R)
PrerunOf(o, line) ==
    [k \in 1..Len(o.cmd) |->
       IF ReplacesOf(o, k) THEN strnsubst(o.cmd[k], line, o.S) ELSE o.cmd[k]]

\* Every run was given what prerun() makes of its own arguments, joined.
Given(o, r) == r.argv = PrerunOf(o, Joined(r.args))
RunsGiven == Iflag => \A b \in 1..Len(batches) : Given(opt, batches[b])

\* The same, for the options that xargs has.
LEMMA PrerunGiven ==
    ASSUME Iflag, NEW a, NEW line
    PROVE  Prerun(a, line) = PrerunOf(opt, line) /\ \A k : Replaces(k) <=> ReplacesOf(opt, k)
  BY Zenon DEF Prerun, PrerunOf, Replaces, ReplacesOf, WithReplstr, WithOf

\* One more run, or none.
LEMMA GivenMore ==
    ASSUME RunsTyped, RunsGiven, opt' = opt, NEW a, NEW line, Iflag => line = Joined(a),
           \/ batches' = batches
           \/ batches' = Append(batches, [args |-> a, argv |-> Prerun(a, line)])
    PROVE  RunsGiven'
  <1> SUFFICES ASSUME Iflag' PROVE \A b \in 1..Len(batches') : Given(opt', batches'[b])
    BY Zenon DEF RunsGiven, Given, PrerunOf, ReplacesOf, WithOf
  <1>1. Iflag /\ line = Joined(a)
    BY Zenon DEF Iflag
  <1>2. \A b \in 1..Len(batches) : Given(opt, batches[b])
    BY <1>1, Zenon DEF RunsGiven
  <1> DEFINE r == [args |-> a, argv |-> Prerun(a, line)]
  <1>3. Given(opt, r)
    <2>1. r.argv = Prerun(a, line) /\ r.args = a
      BY Zenon
    <2> HIDE DEF r
    <2>2. Prerun(a, line) = PrerunOf(opt, line)
      BY <1>1, PrerunGiven, Zenon
    <2> QED
      BY <1>1, <2>1, <2>2, Zenon DEF Given
  <1>4. CASE batches' = batches
    BY <1>2, <1>4, Zenon
  <1>5. CASE batches' = Append(batches, r)
    <2>1. PICK S : batches \in Seq(S)
      BY Zenon DEF RunsTyped
    <2> DEFINE c == batches'
               o == batches
    <2> HIDE DEF r
    <2>2. c = Append(o, r) /\ o \in Seq(S)
      BY <1>5, <2>1
    <2> HIDE DEF c, o
    <2>3. Len(c) = Len(o) + 1 /\ c[Len(o) + 1] = r /\ \A b \in 1..Len(o) : c[b] = o[b]
      BY <2>2
    <2>4. \A b \in 1..Len(c) : b \in 1..Len(o) \/ b = Len(o) + 1
      <3>1. Len(o) \in Nat
        BY <2>2
      <3> QED
        BY <2>3, <3>1
    <2>5. \A b \in 1..Len(o) : Given(opt, o[b])
      BY <1>2, Zenon DEF o
    <2>6. \A b \in 1..Len(c) : Given(opt, c[b])
      BY <1>3, <2>3, <2>4, <2>5, Zenon
    <2> QED
      BY <2>6, Zenon DEF c
  <1> QED
    BY <1>4, <1>5, Zenon

\* inpline after one more argument.
LEMMA LineJoined ==
    ASSUME NEW a \in Seq(Seq(Int)), NEW w \in Seq(Int), inpline.text = Joined(a)
    PROVE  AddToLine(w).text = Joined(Append(a, w))
  <1> DEFINE t == inpline.text
             sp == <<Space>>
  <1>1. /\ t \in Seq(Int) /\ sp \in Seq(Int)
        /\ Joined(Append(a, w)) = IF t = <<>> THEN w ELSE t \o sp \o w
    <2>1. sp \in Seq(Int)
      BY DEF Space
    <2> QED
      BY <2>1, JoinedAppend
  <1>2. AddToLine(w).text = t \o (IF t = <<>> THEN <<>> ELSE sp) \o w
    BY Zenon DEF AddToLine
  <1> HIDE DEF t, sp
  <1>3. CASE t = <<>>
    <2>1. <<>> \o <<>> \o w = w
      OBVIOUS
    <2> QED
      BY <1>1, <1>2, <1>3, <2>1, Zenon
  <1>4. CASE t # <<>>
    BY <1>1, <1>2, <1>4, Zenon
  <1> QED
    BY <1>3, <1>4

\* With -I the line is the buffer's, and the runs are given theirs.
LineGiven == LineText /\ RunsGiven

\* A character.
LEMMA AddAnyGiven ==
    ASSUME BufferInv, ParseInv, LineGiven, phase = "read", opt' = opt, inpline' = inpline,
           NEW pos \in Nat \ {0}, AddAny(pos)
    PROVE  LineGiven'
  <1>1. RunsTyped /\ (Iflag => xflag) /\ (Iflag' <=> Iflag) /\ RunsGiven /\ LineText
    <2>1. opt \in Options /\ RunsTyped
      BY Zenon DEF ParseInv, TextInv, BufferInv
    <2>2. opt.R # 0 => opt.L > 0
      BY <2>1, XargsAssumption, Zenon
    <2> QED
      BY <2>1, <2>2, Zenon DEF Iflag, xflag, LineGiven
  <1>2. CASE AddCh(pos)
    <2>1. /\ p < ebp /\ buf' = [buf EXCEPT ![p] = pos] /\ UNCHANGED <<args, phase, batches>>
      BY <1>2, Zenon DEF AddCh, pool
    <2>2. Strings(buf', args) = Strings(buf, args)
      <3>1. /\ opt.nline \in Nat /\ buf \in [0..opt.nline -> Int] /\ p \in Nat /\ argp \in Nat
            /\ args \in Seq(Nat) /\ argp <= p /\ argp <= opt.nline + 1 /\ p < opt.nline
            /\ Packed(buf, args, argp)
        BY <2>1, Limits DEF BufferInv
      <3>2. buf' \in [0..opt.nline -> Int] /\ \A k \in 0..(argp - 1) : buf'[k] = buf[k]
        BY <2>1, <3>1
      <3> QED
        BY <3>1, <3>2, StringsStay, ZenonT(60)
    <2>3. LineText'
      BY <1>1, <2>1, <2>2, Zenon DEF LineText
    <2>4. RunsGiven'
      BY <1>1, <2>1, Zenon DEF RunsGiven
    <2> QED
      BY <2>3, <2>4, Zenon DEF LineGiven
  <1>3. CASE AddChRefused
    <2>1. phase' = "exit" /\ batches' = batches
      BY <1>3, Zenon DEF AddChRefused, Exit, pool
    <2> QED
      BY <1>1, <2>1, Zenon DEF LineGiven, LineText, RunsGiven
  <1>4. CASE AddChCarry(pos)
    <2>1. ~Iflag'
      BY <1>1, <1>4, Zenon DEF AddChCarry
    <2> QED
      BY <2>1, Zenon DEF LineGiven, LineText, RunsGiven
  <1> QED
    BY <1>2, <1>3, <1>4, Zenon DEF AddAny

\* The end of an argument.
LEMMA EndArgGiven ==
    ASSUME BufferInv, ParseInv, LineGiven, phase = "read", opt' = opt,
           NEW c, NEW isEOF, EndArg(c, isEOF)
    PROVE  LineGiven'
  <1> DEFINE q == IF Makes THEN p + 1 ELSE p
             a == IF Makes THEN Append(args, argp) ELSE args
             b == IF Makes THEN [buf EXCEPT ![p] = Nul] ELSE buf
             line == IF Makes /\ Iflag THEN AddToLine(StringAt(b, argp)) ELSE inpline
             stop == isEOF \/ FoundEof
             limit == LimitReached(Len(a), q, c, stop)
             fails == xflag /\ Len(a) # opt.nargs /\ q > ebp
             s == Strings(b, a)
  <1>1. /\ buf' = b
        /\ limit => /\ args' = <<>> /\ inpline' = NullLine
                    /\ IF fails THEN Exit(1) /\ UNCHANGED <<pool, last>>
                       ELSE Run(s, line.text) \/ RunFails
        /\ ~limit => args' = a /\ inpline' = line /\ UNCHANGED <<last, phase, code, pool>>
    BY ZenonT(60) DEF EndArg, Makes, LineAfterRun
  <1>2. RunsTyped /\ (Iflag' <=> Iflag) /\ RunsGiven /\ LineText /\ phase # "exit"
    <2>1. RunsTyped /\ phase # "exit"
      BY DEF ParseInv, TextInv
    <2> QED
      BY <2>1, Zenon DEF Iflag, LineGiven
  <1>3. Iflag => line.text = Joined(s)
    <2> SUFFICES ASSUME Iflag PROVE line.text = Joined(s)
      OBVIOUS
    <2>1. inpline.text = Joined(Strings(buf, args))
      BY <1>2, Zenon DEF LineText
    <2>2. CASE ~Makes
      BY <2>1, <2>2, Zenon
    <2>3. CASE Makes
      <3>1. /\ opt.nline \in Nat /\ buf \in [0..opt.nline -> Int] /\ args \in Seq(Nat)
            /\ argp \in Nat /\ p \in Nat /\ argp <= p /\ p <= opt.nline /\ argp <= opt.nline + 1
            /\ \A k \in argp..(p - 1) : buf[k] # Nul
            /\ Packed(buf, args, argp)
        BY Limits DEF BufferInv
      <3>2. /\ s = Append(Strings(buf, args), Between(buf, argp, p))
            /\ Between(buf, argp, p) \in Seq(Int)
            /\ StringAt(b, argp) = Between(buf, argp, p)
        <4>1. /\ Strings([buf EXCEPT ![p] = Nul], Append(args, argp))
                   = Append(Strings(buf, args), Between(buf, argp, p))
              /\ Between(buf, argp, p) \in Seq(Int)
              /\ StringAt([buf EXCEPT ![p] = Nul], argp) = Between(buf, argp, p)
          BY <3>1, StringsAppend, ZenonT(60)
        <4> QED
          BY <2>3, <4>1, Zenon
      <3>3. Strings(buf, args) \in Seq(Seq(Int))
        <4>1. Layout(opt.nline, buf, args, argp)
          BY <3>1, Zenon DEF Layout
        <4> QED
          BY <4>1, StringsTyped
      <3>4. AddToLine(Between(buf, argp, p)).text = Joined(s)
        BY <2>1, <3>2, <3>3, LineJoined, Zenon
      <3> QED
        BY <2>3, <3>2, <3>4, Zenon
    <2> QED
      BY <2>2, <2>3
  <1> HIDE DEF q, a, b, line, stop, limit, fails, s
  <1>4. CASE limit
    <2>1. Strings(buf', args') = <<>>
      BY <1>1, <1>4 DEF Strings
    <2>2. LineText'
      <3>1. Joined(<<>>) = <<>>
        BY JoinedAppend, EmptySeq, Zenon
      <3>2. inpline'.text = <<>>
        <4>1. inpline' = NullLine
          BY <1>1, <1>4, Zenon
        <4> QED
          BY <4>1, Zenon DEF NullLine
      <3> QED
        BY <2>1, <3>1, <3>2, Zenon DEF LineText
    <2>3. \/ batches' = batches
          \/ batches' = Append(batches, [args |-> s, argv |-> Prerun(s, line.text)])
      BY <1>1, <1>4, Zenon DEF Run, RunFails, pool
    <2>4. RunsGiven'
      BY <1>2, <1>3, <2>3, GivenMore
    <2> QED
      BY <2>2, <2>4, Zenon DEF LineGiven
  <1>5. CASE ~limit
    <2>1. args' = a /\ inpline' = line /\ batches' = batches /\ buf' = b
      BY <1>1, <1>5, Zenon DEF pool
    <2>2. LineText'
      BY <1>2, <1>3, <2>1, Zenon DEF LineText, s
    <2>3. RunsGiven'
      BY <1>2, <2>1, Zenon DEF RunsGiven
    <2> QED
      BY <2>2, <2>3, Zenon DEF LineGiven
  <1> QED
    BY <1>4, <1>5

\* Every step.
LEMMA GivenStep ==
    ASSUME BufferInv, ParseInv, LineGiven, [Next]_vars
    PROVE  LineGiven'
  <1>1. ASSUME UNCHANGED <<opt, inpline, buf, args, batches>>, phase = "exit" => phase' = "exit"
        PROVE  LineGiven'
    <2>1. Iflag' <=> Iflag
      BY <1>1, Zenon DEF Iflag
    <2>2. LineText'
      BY <1>1, <2>1, Zenon DEF LineGiven, LineText
    <2>3. RunsGiven'
      BY <1>1, <2>1, Zenon DEF LineGiven, RunsGiven
    <2> QED
      BY <2>2, <2>3, Zenon DEF LineGiven
  <1>2. CASE ReadChar \/ ReadBackslash
    <2>1. PICK pos \in {at + 1, at + 2} :
             AddAny(pos) /\ phase = "read" /\ opt' = opt /\ inpline' = inpline
      BY <1>2, Zenon DEF ReadChar, ReadBackslash, More
    <2>2. pos \in Nat \ {0}
      <3>1. at \in Nat
        BY Zenon DEF BufferInv
      <3> QED
        BY <2>1, <3>1
    <2> QED
      BY <2>1, <2>2, AddAnyGiven
  <1>3. CASE ReadBlank \/ ReadNewline \/ ReadEOF
    <2>1. PICK c, isEOF : EndArg(c, isEOF) /\ phase = "read" /\ opt' = opt
      BY <1>3, Zenon DEF ReadBlank, ReadNewline, ReadEOF, More, AtEOF
    <2> QED
      BY <2>1, EndArgGiven
  <1>4. CASE ReadQuote
    <2>1. UNCHANGED <<opt, inpline, buf, args, batches, phase>>
      BY <1>4, Zenon DEF ReadQuote, pool
    <2> QED
      BY <1>1, <2>1, Zenon
  <1>5. CASE BackslashAtEOF \/ ReadEOFIdle \/ UnterminatedQuote
    <2>1. UNCHANGED <<opt, inpline, buf, args, batches>> /\ phase = "read"
      BY <1>5, Zenon DEF BackslashAtEOF, ReadEOFIdle, UnterminatedQuote, More, AtEOF, parser, pool
    <2>2. phase # "exit"
      BY <2>1
    <2> QED
      BY <1>1, <2>1, <2>2, Zenon
  <1>6. CASE WaitReap \/ WaitDone
    <2>1. UNCHANGED <<opt, inpline, buf, args, batches>> /\ phase \in {"wait", "waitall"}
      BY <1>6, Zenon DEF WaitReap, WaitDone, Waiting, parser, pool
    <2>2. phase # "exit"
      BY <2>1
    <2> QED
      BY <1>1, <2>1, <2>2, Zenon
  <1>7. CASE ChildExit \/ UNCHANGED vars
    <2>1. UNCHANGED <<opt, inpline, buf, args, batches, phase>>
      BY <1>7, Zenon DEF ChildExit, vars, parser, pool
    <2> QED
      BY <1>1, <2>1, Zenon
  <1> QED
    BY <1>2, <1>3, <1>4, <1>5, <1>6, <1>7, Zenon DEF Next, Parse

(* For any utility, any input and any -I, -R, -S, -n, -s, -L, -E and -P:   *)
(* each run is given the utility's arguments with its own line, and no     *)
(* other, in the place of replstr, wherever the argument fits in -S bytes. *)
THEOREM LinesReplaced == Spec => []LineReplaced
  <1>1. Init => LineGiven
    <2> SUFFICES ASSUME Init PROVE LineGiven
      OBVIOUS
    <2>1. args = <<>> /\ batches = <<>> /\ inpline = NullLine
      BY Zenon DEF Init
    <2>2. Strings(buf, args) = <<>> /\ 1..Len(<<>>) = {}
      BY <2>1 DEF Strings
    <2>3. Joined(<<>>) = <<>>
      BY JoinedAppend, EmptySeq, Zenon
    <2>4. inpline.text = <<>>
      BY <2>1, Zenon DEF NullLine
    <2> QED
      BY <2>1, <2>2, <2>3, <2>4, Zenon DEF LineGiven, LineText, RunsGiven
  <1>2. BufferInv /\ ParseInv /\ LineGiven /\ [Next]_vars => LineGiven'
    BY GivenStep
  <1>3. BufferInv /\ ParseInv /\ LineGiven => LineReplaced
    <2> SUFFICES ASSUME BufferInv, ParseInv, LineGiven, Iflag,
                        NEW b \in 1..Len(batches), NEW k \in 1..Len(opt.cmd)
                 PROVE  LET whole == Substituted(opt.cmd[k], Joined(batches[b].args))
                            got == batches[b].argv[k]
                        IN  IF ~Replaces(k) THEN got = opt.cmd[k]
                            ELSE /\ Len(got) < opt.S
                                 /\ Len(opt.cmd[k]) < opt.S /\ Len(whole) < opt.S => got = whole
      BY Zenon DEF LineReplaced
    <2> DEFINE l == Joined(batches[b].args)
               e == opt.cmd[k]
               A == Int \cup {"x", "R"}
    <2>1. batches[b].argv = PrerunOf(opt, l)
      BY Zenon DEF LineGiven, RunsGiven, Given
    <2>2. batches[b].argv[k] = IF Replaces(k) THEN strnsubst(e, l, opt.S) ELSE e
      <3>1. Replaces(k) <=> ReplacesOf(opt, k)
        BY PrerunGiven, Zenon
      <3> QED
        BY <2>1, <3>1, Zenon DEF PrerunOf
    <2>3. opt.S \in Nat \ {0} /\ e \in Seq(A)
      <3>1. opt \in Options
        BY Zenon DEF BufferInv
      <3>2. opt.S \in Nat /\ opt.S > 0 /\ opt.cmd \in Seq(Seq({"x", "R"}))
        BY <3>1, XargsAssumption, TextAssumption, Zenon DEF Iflag
      <3>3. e \in Seq({"x", "R"})
        BY <3>2
      <3> HIDE DEF e
      <3>4. Seq({"x", "R"}) \subseteq Seq(A)
        OBVIOUS
      <3> QED
        BY <3>2, <3>3, <3>4
    <2>4. l \in Seq(A)
      <3>1. batches[b].args \in Seq(Seq(Int))
        BY Zenon DEF ParseInv, TextInv, RunsTyped
      <3>2. l \in Seq(Int)
        BY <3>1, JoinedAppend, EmptySeq, Zenon
      <3> HIDE DEF l
      <3>3. Seq(Int) \subseteq Seq(A)
        OBVIOUS
      <3> QED
        BY <3>2, <3>3
    <2> HIDE DEF l, e, A
    <2>5. /\ Len(strnsubst(e, l, opt.S)) < opt.S
          /\ Len(e) < opt.S /\ Len(Substituted(e, l)) < opt.S =>
               strnsubst(e, l, opt.S) = Substituted(e, l)
      BY <2>3, <2>4, SubstExact
    <2> QED
      BY <2>2, <2>5, Zenon DEF l, e
  <1> QED
    BY <1>1, <1>2, <1>3, ParseAlways, PTL DEF Spec
=============================================================================
