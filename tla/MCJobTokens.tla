---------------------------- MODULE MCJobTokens ----------------------------
(* Instances of JobTokens for TLC. *)
EXTENDS JobTokens

CONSTANTS root, sub1, sub2

\* A root with two sub-makes.
SubsOfRoot == [x \in SubMakes |-> Root]
SomeWork == [m \in Makes |-> IF m = sub2 THEN 1 ELSE 2]
SomeLater == [m \in Makes |-> IF m = Root THEN 1 ELSE 0]

(* .MAKE.DIE_QUIETLY is looked at by a make that finds the stopper, and    *)
(* with -k no job that fails makes anybody write one: all other options.   *)
AllOptions ==
    {o \in [keepgoing : BOOLEAN, quiet : BOOLEAN, missing : BOOLEAN] :
        o.keepgoing => ~o.quiet}
=============================================================================
