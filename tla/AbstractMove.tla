---------------------------- MODULE AbstractMove ----------------------------
(***************************************************************************)
(* What moving files may do to the sources s and the targets d, seen from  *)
(* outside at any moment: a target is spoilt and delivered while its       *)
(* source is whole, and the source goes only when the target is whole.     *)
(* Within one file system both happen at once.                             *)
(***************************************************************************)
CONSTANT Files
VARIABLES
    same,   \* is the target on the file system of its source
    s, d

Init ==
    /\ same \in [Files -> BOOLEAN]
    /\ s = [f \in Files |-> "whole"]
    /\ d \in [Files -> {"none", "old"}]

\* The old target goes, or a part of the new one is there.
Spoil(f) ==
    /\ ~same[f] /\ s[f] = "whole" /\ d[f] # "whole"
    /\ \E x \in {"none", "part"} : d' = [d EXCEPT ![f] = x]
    /\ UNCHANGED s

\* The new target is complete.
Deliver(f) ==
    /\ ~same[f] /\ s[f] = "whole"
    /\ d' = [d EXCEPT ![f] = "whole"]
    /\ UNCHANGED s

\* The source goes, a directory perhaps file by file.
Remove(f) ==
    /\ ~same[f] /\ d[f] = "whole"
    /\ \E x \in {"part", "gone"} : s' = [s EXCEPT ![f] = x]
    /\ UNCHANGED d

\* rename(): both at once.
Rename(f) ==
    /\ same[f] /\ s[f] = "whole"
    /\ s' = [s EXCEPT ![f] = "gone"] /\ d' = [d EXCEPT ![f] = "whole"]

Next ==
    /\ UNCHANGED same
    /\ \E f \in Files : Spoil(f) \/ Deliver(f) \/ Remove(f) \/ Rename(f)

Spec == Init /\ [][Next]_<<same, s, d>>
=============================================================================
