------------------------------- MODULE MCTail -------------------------------
(***************************************************************************)
(* Instances of Tail: all the ways to display inputs of up to 6 bytes, and *)
(* a few files to follow.                                                  *)
(***************************************************************************)
EXTENDS Tail

Texts == UNION {{[size |-> n, nl |-> S] : S \in SUBSET (1..n)} : n \in 0..6}

Option(style, off, rflag, fflag, reg, t) ==
    [style |-> style, off |-> off, rflag |-> rflag, fflag |-> fflag, reg |-> reg,
     mem |-> 1, garbage |-> 0, size |-> t.size, nl |-> t.nl]

\* Options with -r, where a + is as good as a -, and without it.
Displays ==
    {Option(style, off, FALSE, 0, reg, t) :
        style \in {"FBYTES", "FLINES", "RBYTES", "RLINES"}, off \in 0..3, reg \in BOOLEAN, t \in Texts}
    \cup {Option(style, off, TRUE, 0, reg, t) :
        style \in {"RBYTES", "RLINES"}, off \in 1..3, reg \in BOOLEAN, t \in Texts}
    \cup {[Option("REVERSE", 0, TRUE, 0, reg, t) EXCEPT !.mem = m, !.garbage = g] :
        reg \in BOOLEAN, t \in Texts, m \in 1..3, g \in 0..1}

\* -f and -F on a file of two lines.
Follows ==
    {Option(style, 1, FALSE, fflag, TRUE, [size |-> 2, nl |-> {1, 2}]) :
        style \in {"FBYTES", "RBYTES", "RLINES"}, fflag \in 1..2}

DisplayAndFollow == Displays \cup Follows

\* tail -n off of a file larger than MMAP_MAXSIZE.
LargeFiles == {o \in Displays : o.style = "RLINES" /\ o.reg /\ ~o.rflag}
=============================================================================
