------------------------------ MODULE MvProofs ------------------------------
(***************************************************************************)
(* Theorems about Mv, for any number of sources, blocks and failing calls. *)
(***************************************************************************)
EXTENDS Mv, TLAPS

-----------------------------------------------------------------------------
(* The inductive invariants. *)

\* Where the target has been spoilt by fastcopy(), and where by copy().
Fastcopy == {"malloc", "copy", "undo", "close"}
Fork2 == {"forkcp", "waitcp", "forkrm", "waitrm"}

\* The sources after the current one have not been touched.
LaterUntouched ==
    \A f \in Files : f > n =>
        src[f] = "whole" /\ dst[f] \in {"none", "old", "link"} /\ why[f] = "none"

\* A source has ended if it is before the current one, or mv exits after the last.
EndedSoFar ==
    /\ pc = "exit" => n = Sources
    /\ \A f \in Files : f < n \/ (f = n /\ pc = "exit") <=> why[f] # "none"

(* What is under the new name of the current source: a part of a regular   *)
(* file only between open() and the end of fastcopy().                     *)
TargetOfCurrent ==
    /\ pc \in {"access", "prompt", "rename", "remove", "lstat", "open"} => dst[n] # "part"
    /\ pc \in {"open", "unlink"} \cup Fastcopy => kind[n].reg
    /\ pc \in Fork2 => ~kind[n].reg
    /\ pc = "unlink" => dst[n] = "whole"
    /\ pc = "close" => pos = Blocks
    /\ child.is = "cp" => ~kind[n].reg /\ pc \in {"waitcp", "killed"}

\* The invariant of what is left under the new names.
PartInv == LaterUntouched /\ EndedSoFar /\ TargetOfCurrent /\ NoPartLeft

\* Past rename() the two names are on different file systems.
Apart ==
    /\ \A f \in Files : dst[f] = "link" => kind[f].same
    /\ pc \in {"remove", "lstat", "open", "unlink"} \cup Fastcopy \cup Fork2 => ~kind[n].same

\* Until the target is whole, the source is.
CurrentKept ==
    /\ pc \notin {"waitrm", "exit", "killed"} => src[n] = "whole"
    /\ pc \in {"access", "prompt", "rename", "remove", "lstat", "open", "forkcp"} \cup Fastcopy
           => dst[n] # "whole"
    /\ pc \in {"forkrm", "waitrm"} => dst[n] = "whole"

\* What the child has been started for, or has done.
ChildTrue ==
    /\ child.is # "inherited"
    /\ child.is = "cp" => /\ pc \in {"waitcp", "killed"}
                          /\ src[n] = "whole" /\ dst[n] # "whole" /\ ~kind[n].same
    /\ child.is = "rm" => /\ pc \in {"waitrm", "killed"}
                          /\ dst[n] = "whole" /\ ~kind[n].same
    /\ child = [is |-> "ended", status |-> 0] =>
           /\ pc = "waitcp" => dst[n] = "whole"
           /\ pc = "waitrm" => src[n] = "gone"

\* How the sources that have ended did.
OutcomeTrue ==
    /\ \A f \in Files : /\ why[f] = "done" => src[f] = "gone" /\ dst[f] = "whole"
                        /\ why[f] \in {"declined", "samefile"} => src[f] = "whole"
    /\ rval = 0 => \A f \in Files : why[f] \in {"none", "declined", "samefile", "done"}

\* The invariant of the contents, when mv has no child but its own.
MoveInv ==
    /\ ~opt.inherited
    /\ NeverLost /\ Apart /\ CurrentKept /\ ChildTrue /\ OutcomeTrue

-----------------------------------------------------------------------------
(* Type correctness. *)

\* How do_move() may end.
Ends == {"declined", "samefile", "done", "error", "nobuffer", "stuck", "unclosed", "kept",
         "cp", "rm"}

\* Where main() goes when do_move() returns.
LEMMA ReturnGoes ==
    ASSUME TypeOK, NEW r \in 0..1, NEW how \in Ends, Return(r, how)
    PROVE  /\ n' \in Files /\ rval' \in 0..1 /\ pos' \in 0..Blocks
           /\ why' \in [Files -> Ends \cup {"none"}]
           /\ pc' \in {"exit", "access"}
           /\ why' = [why EXCEPT ![n] = how]
           /\ rval' = 0 => rval = 0 /\ r = 0
           /\ \/ n = Sources /\ n' = n /\ pc' = "exit"
              \/ n < Sources /\ n' = n + 1 /\ pc' = "access"
  BY MvAssumption, SMT DEF TypeOK, Return, Files, Ends

\* It holds when mv starts.
LEMMA TypeInit == Init => TypeOK
  <1> SUFFICES ASSUME Init PROVE TypeOK
    OBVIOUS
  <1>1. opt \in [f : BOOLEAN, i : BOOLEAN, tty : BOOLEAN, inherited : BOOLEAN]
    <2>1. opt \in [f : BOOLEAN, i : BOOLEAN, tty : BOOLEAN, inherited : Inherited]
      BY Zenon DEF Init
    <2> QED
      BY <2>1, MvAssumption, SMT
  <1>2. blen \in BOOLEAN /\ readonly \in [Files -> BOOLEAN]
    BY DEF Init
  <1> QED
    BY <1>1, <1>2, MvAssumption, SMT DEF Init, TypeOK, Files, NoChild

\* Every call, every child that ends and every signal keeps it.
LEMMA TypeStep == TypeOK /\ [Next]_vars => TypeOK'
  <1> SUFFICES ASSUME TypeOK, [Next]_vars PROVE TypeOK'
    OBVIOUS
  <1> USE MvAssumption DEF TypeOK, Goto, Works, Fail, Ended, NoChild, Ends
  <1>1. CASE Access
    BY <1>1, ReturnGoes, SMT DEF Access
  <1>2. CASE Prompt
    BY <1>2, ReturnGoes, SMT DEF Prompt
  <1>3. CASE Rename
    BY <1>3, ReturnGoes, SMTT(60) DEF Rename
  <1>4. CASE RemoveTarget
    BY <1>4, ReturnGoes, SMT DEF RemoveTarget
  <1>5. CASE LstatFrom
    BY <1>5, ReturnGoes, SMT DEF LstatFrom
  <1>6. CASE Open
    BY <1>6, ReturnGoes, SMT DEF Open
  <1>7. CASE Malloc
    <2>1. blen' \in BOOLEAN
      BY <1>7, Zenon DEF Malloc
    <2> QED
      BY <1>7, <2>1, ReturnGoes, SMT DEF Malloc
  <1>8. CASE Copy
    BY <1>8, SMT DEF Copy
  <1>9. CASE Undo
    BY <1>9, ReturnGoes, SMT DEF Undo
  <1>10. CASE Close
    BY <1>10, ReturnGoes, SMTT(60) DEF Close
  <1>11. CASE UnlinkFrom
    BY <1>11, ReturnGoes, SMT DEF UnlinkFrom
  <1>12. CASE ForkCp
    BY <1>12, SMT DEF ForkCp, Fork
  <1>13. CASE ForkRm
    BY <1>13, SMT DEF ForkRm, Fork
  <1>14. CASE ChildEnds
    BY <1>14, SMTT(60) DEF ChildEnds
  <1>15. CASE WaitCp
    BY <1>15, ReturnGoes, SMT DEF WaitCp
  <1>16. CASE WaitRm
    BY <1>16, ReturnGoes, SMT DEF WaitRm
  <1>17. CASE Killed
    BY <1>17, SMT DEF Killed
  <1>18. CASE UNCHANGED vars
    BY <1>18, SMT DEF vars
  <1> QED
    BY <1>1, <1>2, <1>3, <1>4, <1>5, <1>6, <1>7, <1>8, <1>9,
       <1>10, <1>11, <1>12, <1>13, <1>14, <1>15, <1>16, <1>17, <1>18, Zenon
    DEF Next, Step

(* Every state that mv reaches is well typed; fastcopy() never copies more *)
(* blocks than the source has.                                             *)
THEOREM TypeCorrect == Spec => []TypeOK
  BY TypeInit, TypeStep, PTL DEF Spec

-----------------------------------------------------------------------------
(* What is left under the new names. *)

\* Nothing is there before the first call.
LEMMA PartInit == Init => PartInv
  BY MvAssumption, SMTT(60)
  DEF Init, PartInv, LaterUntouched, EndedSoFar, TargetOfCurrent, NoPartLeft,
      Fastcopy, Fork2, Files, NoChild

\* When do_move() returns, only what it leaves of its own source matters.
LEMMA PartReturn ==
    ASSUME TypeOK, PartInv, TypeOK', NEW r \in 0..1, NEW how \in Ends, Return(r, how),
           pc # "exit", kind' = kind, child'.is # "cp",
           \A f \in Files \ {n} : src'[f] = src[f] /\ dst'[f] = dst[f],
           kind[n].reg /\ dst'[n] = "part" => how \in {"nobuffer", "unclosed", "stuck"}
    PROVE  PartInv'
  <1>0. /\ n \in Files /\ n' \in Files /\ n \in Int /\ n' \in Int
        /\ \A f \in Files : f \in Int
        /\ \A f \in Files : why'[f] = IF f = n THEN how ELSE why[f]
        /\ \/ n' = n /\ pc' = "exit" /\ n = Sources /\ \A f \in Files : f <= n
           \/ n' = n + 1 /\ pc' = "access"
    <2>1. n \in Files /\ n' \in Files /\ why \in [Files -> Ends \cup {"none"}]
      BY SMT DEF TypeOK, Ends
    <2>2. /\ why' = [why EXCEPT ![n] = how]
          /\ \/ n = Sources /\ n' = n /\ pc' = "exit"
             \/ n < Sources /\ n' = n + 1 /\ pc' = "access"
      BY ReturnGoes
    <2> QED
      BY <2>1, <2>2, MvAssumption, SMT DEF Files
  <1>1. LaterUntouched'
    BY <1>0, SMT DEF PartInv, LaterUntouched
  <1>2. EndedSoFar'
    BY <1>0, SMT DEF PartInv, EndedSoFar, Ends
  <1>3. NoPartLeft'
    BY <1>0, SMT DEF PartInv, NoPartLeft
  <1>4. TargetOfCurrent'
    <2>1. n' = n + 1 => dst'[n'] # "part"
      BY <1>0, SMT DEF PartInv, LaterUntouched
    <2> QED
      BY <1>0, <2>1, SMT DEF TargetOfCurrent, Fastcopy, Fork2
  <1> QED
    BY <1>1, <1>2, <1>3, <1>4 DEF PartInv

\* Every step keeps it, whatever fails.
LEMMA PartStep == TypeOK /\ PartInv /\ [Next]_vars => PartInv'
  <1> SUFFICES ASSUME TypeOK, PartInv, [Next]_vars PROVE PartInv'
    OBVIOUS
  <1>0. TypeOK'
    BY TypeStep
  <1> USE <1>0, MvAssumption DEF TypeOK, Goto, Works, Fail, Ended, NoChild, Ends, PartInv,
      LaterUntouched, EndedSoFar, TargetOfCurrent, NoPartLeft, Fastcopy, Fork2
  <1>1. CASE Access
    BY <1>1, PartReturn, SMT DEF Access
  <1>2. CASE Prompt
    BY <1>2, PartReturn, SMT DEF Prompt
  <1>3. CASE Rename
    BY <1>3, PartReturn, SMT DEF Rename
  <1>4. CASE RemoveTarget
    BY <1>4, PartReturn, SMT DEF RemoveTarget
  <1>5. CASE LstatFrom
    BY <1>5, PartReturn, SMT DEF LstatFrom
  <1>6. CASE Open
    BY <1>6, PartReturn, SMT DEF Open
  <1>7. CASE Malloc
    BY <1>7, PartReturn, SMT DEF Malloc
  <1>8. CASE Copy
    BY <1>8, SMT DEF Copy
  <1>9. CASE Undo
    BY <1>9, PartReturn, SMT DEF Undo
  <1>10. CASE Close
    <2>1. CASE Fail /\ Return(1, "unclosed") /\ UNCHANGED dst
      BY <1>10, <2>1, PartReturn, SMT DEF Close
    <2>2. CASE Works /\ dst' = [dst EXCEPT ![n] = "whole"] /\ Goto("unlink")
      BY <1>10, <2>2, SMT DEF Close
    <2> QED
      BY <1>10, <2>1, <2>2, SMT DEF Close
  <1>11. CASE UnlinkFrom
    BY <1>11, PartReturn, SMT DEF UnlinkFrom
  <1>12. CASE ForkCp
    BY <1>12, SMT DEF ForkCp, Fork
  <1>13. CASE ForkRm
    BY <1>13, SMT DEF ForkRm, Fork
  <1>14. CASE ChildEnds
    BY <1>14, SMT DEF ChildEnds
  <1>15. CASE WaitCp
    BY <1>15, PartReturn, SMT DEF WaitCp
  <1>16. CASE WaitRm
    BY <1>16, PartReturn, SMT DEF WaitRm
  <1>17. CASE Killed
    BY <1>17, SMT DEF Killed
  <1>18. CASE UNCHANGED vars
    BY <1>18, SMT DEF vars
  <1> QED
    BY <1>1, <1>2, <1>3, <1>4, <1>5, <1>6, <1>7, <1>8, <1>9,
       <1>10, <1>11, <1>12, <1>13, <1>14, <1>15, <1>16, <1>17, <1>18, Zenon
    DEF Next, Step

(* A part of a regular file stays under the new name only if mv was killed *)
(* in fastcopy(), or had no buffer, or could not close or remove it.       *)
THEOREM NoPart == Spec => []NoPartLeft
  <1>1. Spec => []PartInv
    BY PartInit, PartStep, TypeCorrect, PTL DEF Spec
  <1> QED
    BY <1>1, PTL DEF PartInv

-----------------------------------------------------------------------------
(* The contents. *)

\* The hypothesis of what follows: mv has no child from before its exec.
NoneInherited == TRUE \notin Inherited

\* Before the first call every source is whole.
LEMMA MoveInit == NoneInherited /\ Init => MoveInv
  <1> SUFFICES ASSUME NoneInherited, Init PROVE MoveInv
    OBVIOUS
  <1>1. ~opt.inherited
    <2>1. opt.inherited \in Inherited
      BY Zenon DEF Init
    <2> QED
      BY <2>1, MvAssumption DEF NoneInherited
  <1>2. /\ \A f \in Files :
              src[f] = "whole" /\ why[f] = "none" /\ dst[f] \in {"none", "old", "link"}
        /\ \A f \in Files : dst[f] = "link" => kind[f].same
        /\ n \in Files /\ pc = "access" /\ child = NoChild
    BY MvAssumption, SMT DEF Init, Files
  <1> QED
    BY <1>1, <1>2, SMT
    DEF MoveInv, NeverLost, Apart, CurrentKept, ChildTrue, OutcomeTrue, Fastcopy, Fork2, NoChild

\* When do_move() returns, only what it has done to its own source matters.
LEMMA MoveReturn ==
    ASSUME TypeOK, PartInv, MoveInv, TypeOK',
           NEW r \in 0..1, NEW how \in Ends, Return(r, how),
           pc # "exit", kind' = kind, opt' = opt, child'.is \in {"none", "ended"},
           \A f \in Files \ {n} : src'[f] = src[f] /\ dst'[f] = dst[f],
           src'[n] = "whole" \/ dst'[n] = "whole",
           dst'[n] = "link" => kind[n].same,
           how = "done" => src'[n] = "gone" /\ dst'[n] = "whole",
           how \in {"declined", "samefile"} => src'[n] = "whole",
           r = 0 => how \in {"declined", "samefile", "done"}
    PROVE  MoveInv'
  <1>0. /\ n \in Files /\ n' \in Files /\ n \in Int
        /\ \A f \in Files : f \in Int
        /\ \A f \in Files : why'[f] = IF f = n THEN how ELSE why[f]
        /\ rval' = 0 => rval = 0 /\ r = 0
        /\ \/ n' = n /\ pc' = "exit"
           \/ n' = n + 1 /\ pc' = "access"
    <2>1. n \in Files /\ n' \in Files /\ why \in [Files -> Ends \cup {"none"}]
      BY SMT DEF TypeOK, Ends
    <2>2. /\ why' = [why EXCEPT ![n] = how]
          /\ rval' = 0 => rval = 0 /\ r = 0
          /\ \/ n = Sources /\ n' = n /\ pc' = "exit"
             \/ n < Sources /\ n' = n + 1 /\ pc' = "access"
      BY ReturnGoes
    <2> QED
      BY <2>1, <2>2, MvAssumption, SMT DEF Files
  <1>1. NeverLost' /\ ~opt'.inherited
    BY <1>0, SMT DEF MoveInv, NeverLost
  <1>2. Apart'
    BY <1>0, SMT DEF MoveInv, Apart, Fastcopy, Fork2
  <1>3. CurrentKept'
    BY <1>0, SMT DEF PartInv, LaterUntouched, CurrentKept, Fastcopy
  <1>4. ChildTrue'
    BY <1>0, SMT DEF ChildTrue
  <1>5. OutcomeTrue'
    BY <1>0, SMT DEF MoveInv, OutcomeTrue
  <1> QED
    BY <1>1, <1>2, <1>3, <1>4, <1>5 DEF MoveInv

\* Every step keeps it, whatever fails and whenever mv is killed.
LEMMA MoveStep == TypeOK /\ PartInv /\ MoveInv /\ [Next]_vars => MoveInv'
  <1> SUFFICES ASSUME TypeOK, PartInv, MoveInv, [Next]_vars PROVE MoveInv'
    OBVIOUS
  <1>0. TypeOK'
    BY TypeStep
  <1>e. pc # "exit" => why[n] = "none"
    BY SMT DEF TypeOK, PartInv, EndedSoFar, Files
  <1> USE <1>0, <1>e, MvAssumption DEF TypeOK, Goto, Works, Fail, Ended, NoChild, Ends, MoveInv,
      NeverLost, Apart, CurrentKept, ChildTrue, OutcomeTrue, Fastcopy, Fork2
  <1>1. CASE Access
    BY <1>1, MoveReturn, SMT DEF Access
  <1>2. CASE Prompt
    BY <1>2, MoveReturn, SMT DEF Prompt
  <1>3. CASE Rename
    BY <1>3, MoveReturn, SMT DEF Rename
  <1>4. CASE RemoveTarget
    BY <1>4, MoveReturn, SMT DEF RemoveTarget
  <1>5. CASE LstatFrom
    BY <1>5, MoveReturn, SMT DEF LstatFrom
  <1>6. CASE Open
    BY <1>6, MoveReturn, SMT DEF Open
  <1>7. CASE Malloc
    BY <1>7, MoveReturn, SMT DEF Malloc
  <1>8. CASE Copy
    BY <1>8, SMT DEF Copy
  <1>9. CASE Undo
    BY <1>9, MoveReturn, SMT DEF Undo
  <1>10. CASE Close
    BY <1>10, MoveReturn, SMT DEF Close
  <1>11. CASE UnlinkFrom
    BY <1>11, MoveReturn, SMT DEF UnlinkFrom, PartInv, TargetOfCurrent
  <1>12. CASE ForkCp
    BY <1>12, SMT DEF ForkCp, Fork
  <1>13. CASE ForkRm
    BY <1>13, SMT DEF ForkRm, Fork
  <1>14. CASE ChildEnds
    BY <1>14, SMT DEF ChildEnds
  <1>15. CASE WaitCp
    BY <1>15, MoveReturn, SMT DEF WaitCp
  <1>16. CASE WaitRm
    BY <1>16, MoveReturn, SMT DEF WaitRm
  <1>17. CASE Killed
    BY <1>17, SMT DEF Killed
  <1>18. CASE UNCHANGED vars
    BY <1>18, SMT DEF vars
  <1> QED
    BY <1>1, <1>2, <1>3, <1>4, <1>5, <1>6, <1>7, <1>8, <1>9,
       <1>10, <1>11, <1>12, <1>13, <1>14, <1>15, <1>16, <1>17, <1>18, Zenon
    DEF Next, Step

\* The invariant of the contents holds in every state that mv reaches.
LEMMA MoveInvariant == NoneInherited => (Spec => []MoveInv)
  <1> SUFFICES ASSUME NoneInherited PROVE Spec => []MoveInv
    OBVIOUS
  <1>1. Init => MoveInv
    BY MoveInit
  <1>2. Spec => []PartInv
    BY PartInit, PartStep, TypeCorrect, PTL DEF Spec
  <1> QED
    BY <1>1, <1>2, MoveStep, TypeCorrect, PTL DEF Spec

(* Whatever fails and whenever mv is killed, the contents of every source  *)
(* are complete under the old name or the new one.                         *)
THEOREM ContentsKept == NoneInherited => (Spec => []NeverLost)
  <1> SUFFICES ASSUME NoneInherited PROVE Spec => []NeverLost
    OBVIOUS
  <1>1. MoveInv => NeverLost
    BY DEF MoveInv
  <1> QED
    BY <1>1, MoveInvariant, PTL

(* An exit status of 0 means that every source has been moved, but those   *)
(* that the user declined and those that were links to their target.       *)
THEOREM StatusTrue == NoneInherited => (Spec => []ExitTrue)
  <1> SUFFICES ASSUME NoneInherited PROVE Spec => []ExitTrue
    OBVIOUS
  <1>1. TypeOK /\ PartInv /\ MoveInv => ExitTrue
    <2> SUFFICES ASSUME TypeOK, PartInv, MoveInv, pc = "exit", rval = 0, NEW f \in Files
                 PROVE  \/ src[f] = "gone" /\ dst[f] = "whole"
                        \/ why[f] \in {"declined", "samefile"} /\ src[f] = "whole"
      BY DEF ExitTrue
    <2>1. why[f] # "none"
      BY MvAssumption, SMT DEF PartInv, EndedSoFar, LaterUntouched, TypeOK, Files
    <2> QED
      BY <2>1, SMT DEF MoveInv, OutcomeTrue
  <1>2. Spec => []PartInv
    BY PartInit, PartStep, TypeCorrect, PTL DEF Spec
  <1> QED
    BY <1>1, <1>2, MoveInvariant, TypeCorrect, PTL
-----------------------------------------------------------------------------
(* Refinement. *)

\* Where AbstractMove sees the targets: a link is an old target.
Seen == [f \in Files |-> IF dst[f] = "link" THEN "old" ELSE dst[f]]
Near == [f \in Files |-> kind[f].same]

\* A step of mv moves a source as AbstractMove says, or is invisible there.
LEMMA AbstractStep ==
    ASSUME TypeOK, PartInv, MoveInv, [Next]_vars
    PROVE  [Move!Next]_<<Near, src, Seen>>
  <1> USE DEF Goto, Works, Fail
  <1>k. Near' = Near /\ n \in Files
    <2>1. kind' = kind
      BY DEF Next, Step, Access, Prompt, Rename, RemoveTarget, LstatFrom, Open, Malloc, Copy,
             Undo, Close, UnlinkFrom, ForkCp, ForkRm, Fork, ChildEnds, WaitCp, WaitRm, Killed, vars
    <2> QED
      BY <2>1 DEF Near, TypeOK
  <1>u. src' = src /\ dst' = dst => UNCHANGED <<Near, src, Seen>>
    BY <1>k DEF Seen
  <1>d. ASSUME NEW x \in {"none", "part", "whole"}, dst' = [dst EXCEPT ![n] = x]
        PROVE  Seen' = [Seen EXCEPT ![n] = x]
    <2>1. \A f \in Files : dst'[f] = IF f = n THEN x ELSE dst[f]
      BY <1>k, <1>d, SMT DEF TypeOK
    <2>2. Seen' = [f \in Files |-> IF dst'[f] = "link" THEN "old" ELSE dst'[f]]
      BY DEF Seen
    <2>3. \A f \in Files : Seen'[f] = IF f = n THEN x ELSE Seen[f]
      BY <2>1, <2>2, SMT DEF Seen
    <2>4. Seen' = [f \in Files |-> Seen'[f]]
      BY <2>2
    <2>5. [Seen EXCEPT ![n] = x] = [f \in Files |-> IF f = n THEN x ELSE Seen[f]]
      BY <1>k DEF Seen
    <2> QED
      BY <2>3, <2>4, <2>5
  <1>near. Near[n] = kind[n].same
    BY <1>k DEF Near
  <1>seen. Seen[n] = "whole" <=> dst[n] = "whole"
    BY <1>k, SMT DEF Seen
  <1>next. ASSUME \E f \in Files :
                     Move!Spoil(f) \/ Move!Deliver(f) \/ Move!Remove(f) \/ Move!Rename(f)
           PROVE  Move!Next
    <2>1. UNCHANGED [f \in Files |-> kind[f].same]
      BY <1>k DEF Near
    <2> QED
      BY <2>1, <1>next, Zenon DEF Move!Next
  <1>spoil. ASSUME NEW x \in {"none", "part"}, dst' = [dst EXCEPT ![n] = x], src' = src,
                   ~kind[n].same, src[n] = "whole", dst[n] # "whole"
            PROVE  Move!Next
    <2>1. Seen' = [Seen EXCEPT ![n] = x] /\ ~Near[n] /\ Seen[n] # "whole"
      BY <1>spoil, <1>d, <1>near, <1>seen
    <2>2. \E f \in Files : Move!Spoil(f)
      BY <2>1, <1>spoil, <1>k, Zenon DEF Move!Spoil, Seen, Near
    <2> QED
      BY <2>2, <1>next
  <1>deliver. ASSUME dst' = [dst EXCEPT ![n] = "whole"], src' = src,
                     ~kind[n].same, src[n] = "whole"
              PROVE  Move!Next
    <2>1. Seen' = [Seen EXCEPT ![n] = "whole"] /\ ~Near[n]
      BY <1>deliver, <1>d, <1>near
    <2>2. \E f \in Files : Move!Deliver(f)
      BY <2>1, <1>deliver, <1>k, Zenon DEF Move!Deliver, Seen, Near
    <2> QED
      BY <2>2, <1>next
  <1>remove. ASSUME NEW x \in {"part", "gone"}, src' = [src EXCEPT ![n] = x], dst' = dst,
                    ~kind[n].same, dst[n] = "whole"
             PROVE  Move!Next
    <2>1. Seen' = Seen /\ ~Near[n] /\ Seen[n] = "whole"
      BY <1>remove, <1>near, <1>seen DEF Seen
    <2>2. \E f \in Files : Move!Remove(f)
      BY <2>1, <1>remove, <1>k, Zenon DEF Move!Remove, Seen, Near
    <2> QED
      BY <2>2, <1>next
  <1>rename. ASSUME src' = [src EXCEPT ![n] = "gone"], dst' = [dst EXCEPT ![n] = "whole"],
                    kind[n].same, src[n] = "whole"
             PROVE  Move!Next
    <2>1. Seen' = [Seen EXCEPT ![n] = "whole"] /\ Near[n]
      BY <1>rename, <1>d, <1>near
    <2>2. \E f \in Files : Move!Rename(f)
      BY <2>1, <1>rename, <1>k, Zenon DEF Move!Rename, Seen, Near
    <2> QED
      BY <2>2, <1>next
  <1>1. CASE Rename
    BY <1>1, <1>u, <1>rename, SMT DEF Rename, MoveInv, CurrentKept
  <1>2. CASE RemoveTarget
    BY <1>2, <1>u, <1>spoil, SMT DEF RemoveTarget, MoveInv, CurrentKept, Apart, Fastcopy, Fork2
  <1>3. CASE Open
    BY <1>3, <1>u, <1>spoil, SMT DEF Open, MoveInv, CurrentKept, Apart, Fastcopy, Fork2
  <1>4. CASE Undo
    BY <1>4, <1>u, <1>spoil, SMT DEF Undo, MoveInv, CurrentKept, Apart, Fastcopy, Fork2
  <1>5. CASE Close
    BY <1>5, <1>u, <1>deliver, SMT DEF Close, MoveInv, CurrentKept, Apart, Fastcopy, Fork2
  <1>6. CASE UnlinkFrom
    BY <1>6, <1>u, <1>remove, SMT
    DEF UnlinkFrom, MoveInv, CurrentKept, Apart, Fastcopy, Fork2, PartInv, TargetOfCurrent
  <1>7. CASE ChildEnds
    <2>1. CASE child.is = "cp"
      BY <1>7, <2>1, <1>u, <1>spoil, <1>deliver, SMT DEF ChildEnds, MoveInv, ChildTrue
    <2>2. CASE child.is = "rm"
      BY <1>7, <2>2, <1>u, <1>remove, SMT DEF ChildEnds, MoveInv, ChildTrue
    <2> QED
      BY <1>7, <2>1, <2>2 DEF ChildEnds, MoveInv, ChildTrue
  <1>8. ASSUME \/ Access \/ Prompt \/ LstatFrom \/ Malloc \/ Copy \/ ForkCp \/ ForkRm
               \/ WaitCp \/ WaitRm \/ Killed \/ UNCHANGED vars
        PROVE  UNCHANGED <<Near, src, Seen>>
    BY <1>8, <1>u DEF Access, Prompt, LstatFrom, Malloc, Copy, ForkCp, ForkRm, Fork, WaitCp,
                      WaitRm, Killed, vars
  <1> QED
    BY <1>1, <1>2, <1>3, <1>4, <1>5, <1>6, <1>7, <1>8, Zenon DEF Next, Step

(* do_move() implements AbstractMove: a target is spoilt only while the    *)
(* source is whole, a source goes only when the target is whole, and on    *)
(* one file system both happen at once.                                    *)
THEOREM Refinement == NoneInherited => (Spec => ImplementsAbstractMove)
  <1> SUFFICES ASSUME NoneInherited PROVE Spec => Move!Spec
    BY DEF ImplementsAbstractMove
  <1>1. Init => Move!Init
    BY SMT DEF Init, Move!Init, Files
  <1>2. TypeOK /\ PartInv /\ MoveInv /\ [Next]_vars =>
          [Move!Next]_<<[f \in Files |-> kind[f].same], src,
                        [f \in Files |-> IF dst[f] = "link" THEN "old" ELSE dst[f]]>>
    BY AbstractStep DEF Near, Seen
  <1>3. Spec => []PartInv
    BY PartInit, PartStep, TypeCorrect, PTL DEF Spec
  <1> QED
    BY <1>1, <1>2, <1>3, TypeCorrect, MoveInvariant, PTL DEF Spec, Move!Spec
=============================================================================
