----------------------------- MODULE MCTimeout -----------------------------
(* Instances of Timeout for TLC. *)
EXTENDS Timeout

AllKillSigs == TermSigs \cup {"USR1", "KILL"}
SoftKillSigs == {"TERM", "USR1"}

ZeroOrMore == {0, 1}
Positive == {1}
AnySign == {-1, 1}
PlainOrSeconds == {"", "s"}
=============================================================================
