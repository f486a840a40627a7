------------------------------ MODULE MCShlock ------------------------------
(* Instances of Shlock for TLC. *)
EXTENDS Shlock, TLC

\* Every client uses the text format.
OneStyle == [c \in Clients |-> "text"]

\* One client asks for UUCP (binary) locks, the others for text.
MixedStyle == [c \in Clients |->
                 IF c = (CHOOSE d \in Clients : TRUE) THEN "uucp" ELSE "text"]

NoFaults == {}

\* Any system call may fail, except the read() in cklock().
SomeFaults == Labels \ {"idle", "ckread"}

Symmetry == Permutations(Inodes) \cup Permutations(Clients) \cup Permutations(Pids)
=============================================================================
