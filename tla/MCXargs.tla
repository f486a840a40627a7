------------------------------ MODULE MCXargs ------------------------------
(* Instances of Xargs for TLC. *)
EXTENDS Xargs

SeqsUpTo(S, n) == UNION {[1..k -> S] : k \in 0..n}

Opt(nargs, nline, L, eofstr) ==
    [nargs |-> nargs, nline |-> nline, L |-> L, x |-> FALSE, eofstr |-> eofstr,
     z |-> FALSE, prompts |-> FALSE, R |-> 0, S |-> 0, cmd |-> <<>>,
     P |-> 1, inherited |-> 0]

\* Small limits of every kind; 9 stands for the default of 5000 arguments.
PlainOptions == {Opt(n, s, 0, <<>>) : n \in {1, 2, 9}, s \in {1, 3, 4, 5}}
LineOptions == {Opt(n, s, L, <<>>) : n \in {1, 2, 9}, s \in {3, 5}, L \in {1, 2}}
EofOptions == {Opt(n, s, 0, <<"a", "a">>) : n \in {1, 9}, s \in {3, 5}}
ExitOptions == {[Opt(n, s, 0, <<>>) EXCEPT !.x = TRUE] : n \in {2}, s \in {3, 5}}
ZeroOptions == {[Opt(n, s, L, <<>>) EXCEPT !.z = TRUE] : n \in {2}, s \in {3, 5}, L \in {0, 1}}
PromptOptions == {[Opt(9, s, 0, <<>>) EXCEPT !.prompts = TRUE] : s \in {3, 5}}

\* Two arguments that contain replstr and one that does not.
Utility == << <<"x">>, <<"R", "x", "R">>, <<"R">> >>
ReplOptions ==
    {[Opt(n, 6, 1, <<>>) EXCEPT !.R = r, !.S = s, !.cmd = Utility] :
        n \in {1, 9}, r \in {1, 2, -1}, s \in {3, 6, 9}}

\* One argument for each utility.
PoolOptions == {[Opt(1, 5, 0, <<>>) EXCEPT !.P = n, !.inherited = i] : n \in {1, 2}, i \in {0, 1}}

AllOptions == PlainOptions \cup LineOptions \cup EofOptions \cup ExitOptions
              \cup ZeroOptions \cup PromptOptions \cup ReplOptions \cup PoolOptions

InputsFor(o) ==
    IF o \in PoolOptions THEN {<<"a", "nl", "a", "nl", "a", "nl", "a", "nl">>}
    ELSE IF o.z THEN SeqsUpTo({"a", "nul", "nl", "dquote", "bslash"}, 4)
    ELSE IF o.prompts THEN SeqsUpTo({"a", "nl", "squote", "dquote", "bslash"}, 5)
    ELSE SeqsUpTo({"a", "blank", "nl", "dquote"}, 5)

\* How the utilities end matters only to the pool.
ResultsFor(o) == IF o \in PoolOptions THEN {"0", "1", "255", "signal"} ELSE {"0"}
FaultsFor(o) == IF o \in PoolOptions THEN {"fork", "exec"} ELSE {}
=============================================================================
