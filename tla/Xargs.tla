-------------------------------- MODULE Xargs --------------------------------
(***************************************************************************)
(* usr.bin/xargs: read arguments from standard input, gather them in a     *)
(* buffer of nline bytes and nargs pointers, run the utility whenever one  *)
(* of the limits is met, with at most maxprocs utilities at a time.        *)
(*                                                                         *)
(* A character is one of the classes that parse_input() tells apart.  The  *)
(* buffer holds, instead of characters, their positions in the input, so   *)
(* that a lost, repeated or misplaced one shows.  Pointers are offsets     *)
(* from bbp.  With -I, what a run is given is not the arguments but the    *)
(* utility's own ones with replstr replaced by inpline, the line so far.   *)
(* -J only puts the arguments in the middle of the utility's; -t and -o    *)
(* change what is printed and what the utility reads.                      *)
(***************************************************************************)
EXTENDS Integers, Sequences, FiniteSets

CONSTANTS
    Inputs(_),  \* standard inputs to try with an option record:
                \* sequences of "a", "b", "blank", "nl", "dquote", "squote",
                \* "bslash" and, with -0 only, "nul"
    Options,    \* records [nargs, nline, L, x, eofstr, z, prompts, R, S, cmd,
                \* P, inherited]: the limits and flags; -R (0 without -I) and
                \* -S; with -I the utility's arguments, as sequences of "x"
                \* and the one-character replstr "R"; -P, and how many
                \* children xargs already has when it starts
    Results(_), \* how a utility may then end: "0", "1", "255", "signal"
    Faults(_)   \* and which of "fork", "exec" may fail

ASSUME XargsAssumption ==
    \A o \in Options :
       /\ Faults(o) \subseteq {"fork", "exec"}
       /\ Results(o) \subseteq {"0", "1", "255", "signal"}
       /\ {o.nargs, o.nline, o.P} \subseteq Nat \ {0} /\ {o.L, o.inherited} \subseteq Nat
       /\ o.R # 0 => o.L > 0 /\ o.S > 0

ASSUME TextAssumption ==
    \A o \in Options :
       /\ o.z \in BOOLEAN /\ o.S \in Nat /\ o.cmd \in Seq(Seq({"x", "R"}))
       /\ Inputs(o) \subseteq
            Seq({"a", "b", "blank", "nl", "dquote", "squote", "bslash"}
                \cup IF o.z THEN {"nul"} ELSE {})

VARIABLES
    opt, in,            \* the options and the input, fixed from the start
    at,                 \* how many characters have been read
    phase,              \* "read", "wait", "waitall" or "exit"
    buf, p, argp,       \* the buffer, and p and argp as offsets from bbp
    args,               \* the pointers from bxp to xp, as offsets
    count,              \* lines since the last run
    quoted, wasquoted,  \* insingle and indouble as one; wasquoted
    inpline,            \* the line of -I, with the bytes allocated for it
    last,               \* end of input seen: exit after this run
    kids,               \* the children, in the order of their creation
    curprocs, childerr, rval,
    code,               \* the exit status, or NoCode
    batches,            \* history: the arguments read for each run, [args],
                        \* and those it is given, [argv]
    noexec              \* history: the children whose exec failed

parser == <<at, buf, p, argp, args, count, quoted, wasquoted, inpline, last>>
pool == <<kids, curprocs, childerr, rval, batches, noexec>>
vars == <<opt, in, phase, code, parser, pool>>

NoCode == -1
Empty == -1      \* an uninitialised byte
Nul == 0         \* '\0'
Space == -2      \* the blank put between the arguments in inpline
NullLine == [text |-> <<>>, size |-> 0]

ebp == opt.nline - 1
maxprocs == opt.P
xflag == opt.x \/ opt.L > 0
Iflag == opt.R # 0

\* The string that starts at offset o of buffer b.
StringAt(b, o) ==
    LET end == CHOOSE e \in DOMAIN b :
                  o <= e /\ b[e] = Nul /\ \A k \in o..(e - 1) : b[k] # Nul
    IN  [k \in 1..(end - o) |-> b[o + k - 1]]

Strings(b, a) == [k \in 1..Len(a) |-> StringAt(b, a[k])]

\* A child whose exec succeeded, or failed, and which has not ended yet.
Started(ok) == [st |-> IF ok THEN "running" ELSE "failing", res |-> "none"]

-----------------------------------------------------------------------------
Init ==
    /\ opt \in Options
    /\ in \in Inputs(opt)
    /\ at = 0
    /\ phase = "read"
    /\ buf = [k \in 0..opt.nline |-> Empty]
    /\ p = 0 /\ argp = 0
    /\ args = <<>>
    /\ count = 0
    /\ quoted = "none" /\ wasquoted = FALSE
    /\ inpline = NullLine
    /\ last = FALSE
    /\ kids = [k \in 1..opt.inherited |-> Started(TRUE)]
    /\ curprocs = 0
    /\ childerr = FALSE
    /\ rval = 0
    /\ code = NoCode
    /\ batches = <<>>
    /\ noexec = {}

\* errx(), exit(): children still running are left alone.
Exit(c) ==
    /\ phase' = "exit"
    /\ code' = c

(* strnsubst(): replaces replstr in s by line as long as the result fits   *)
(* in max bytes, and appends what is left as it is, cut to size.           *)
strnsubst(s, line, max) ==
    LET upTo[n \in 0..Len(s)] ==
          IF n = 0 THEN [s2 |-> <<>>, done |-> FALSE]
          ELSE LET u == upTo[n - 1]
                   fits == Len(u.s2) + (Len(s) - n + 1) + Len(line) <= max
               IN  IF s[n] = "R" /\ ~u.done /\ fits
                   THEN [u EXCEPT !.s2 = @ \o line]
                   ELSE [s2 |-> Append(u.s2, s[n]), done |-> u.done \/ s[n] = "R"]
        result == IF Len(s) = max THEN s ELSE upTo[Len(s)].s2
    IN  SubSeq(result, 1, IF Len(result) < max THEN Len(result) ELSE max - 1)

\* The number of arguments among the first k of the utility that have replstr.
WithReplstr(k) == Cardinality({j \in 1..k : \E i \in 1..Len(opt.cmd[j]) : opt.cmd[j][i] = "R"})

\* Replaced in this argument: one of the first -R that have replstr.
Replaces(k) == WithReplstr(k) # WithReplstr(k - 1) /\ (opt.R < 0 \/ WithReplstr(k) <= opt.R)

\* prerun(): what is run, for the arguments a and the input line.
Prerun(a, line) ==
    IF ~Iflag THEN a
    ELSE [k \in 1..Len(opt.cmd) |->
            IF Replaces(k) THEN strnsubst(opt.cmd[k], line, opt.S) ELSE opt.cmd[k]]

(* run(): vfork() shares childerr with the child and lets the parent go on *)
(* only after exec or _exit; the child of a failed exec is then about to   *)
(* become a zombie.                                                        *)
Execute ==
    /\ \E ok \in IF "exec" \in Faults(opt) THEN BOOLEAN ELSE {TRUE} :
          /\ childerr' = ~ok
          /\ kids' = Append(kids, Started(ok))
          /\ noexec' = IF ok THEN noexec ELSE noexec \cup {Len(kids) + 1}
    /\ curprocs' = curprocs + 1
    /\ phase' = "wait"
    /\ UNCHANGED <<rval, code>>

\* -p, and the user says no: nothing is run and nothing waited for.
Declined ==
    /\ opt.prompts
    /\ phase' = IF last' THEN "waitall" ELSE "read"
    /\ UNCHANGED <<kids, curprocs, childerr, rval, noexec, code>>

Run(a, line) ==
    /\ batches' = Append(batches, [args |-> a, argv |-> Prerun(a, line)])
    /\ Execute \/ Declined

\* vfork() fails: err(1, "vfork").
RunFails ==
    /\ "fork" \in Faults(opt)
    /\ Exit(1)
    /\ UNCHANGED pool

-----------------------------------------------------------------------------
(* parse_input(), one character at a time. *)

Next1 == in[at + 1]
More == phase = "read" /\ at < Len(in)

\* Wrong variant: fills the last byte too.
AddChFull(pos) ==
    /\ p <= ebp
    /\ buf' = [buf EXCEPT ![p] = pos]
    /\ p' = p + 1
    /\ UNCHANGED <<argp, args, phase, code, pool>>

\* The position just read is put in the buffer.
AddCh(pos) ==
    /\ p < ebp
    /\ buf' = [buf EXCEPT ![p] = pos]
    /\ p' = p + 1
    /\ UNCHANGED <<argp, args, phase, code, pool>>

\* No room, and either nothing to run with or -x: an error.
AddChRefused ==
    /\ p >= ebp
    /\ args = <<>> \/ xflag
    /\ Exit(1)
    /\ UNCHANGED <<buf, p, argp, args, pool>>

\* Wrong variant: one byte short.
CarriedShort == ebp - argp - 1

\* The bytes of the argument that has been begun.
Carried == ebp - argp

\* No room: run with the complete arguments, move the begun one to the front.
AddChCarry(pos) ==
    /\ p >= ebp
    /\ args # <<>> /\ ~xflag
    /\ buf' = [k \in 0..opt.nline |->
                 IF k < Carried THEN buf[argp + k]
                 ELSE IF k = Carried THEN pos ELSE buf[k]]
    /\ p' = Carried + 1
    /\ argp' = 0
    /\ args' = <<>>
    /\ Run(Strings(buf, args), inpline.text) \/ RunFails

AddAny(pos) == AddCh(pos) \/ AddChRefused \/ AddChCarry(pos)

\* Does the character ch stand for itself?
Literal(ch) ==
    \/ opt.z /\ ch # "nul"
    \/ ~opt.z /\ ch \in {"a", "b"}
    \/ quoted # "none" /\ ch \in {"blank", "bslash"}
    \/ quoted = "double" /\ ch = "squote"
    \/ quoted = "single" /\ ch = "dquote"

ReadChar ==
    /\ More
    /\ Literal(Next1)
    /\ last' = last
    /\ at' = at + 1
    /\ AddAny(at + 1)
    /\ UNCHANGED <<opt, in, count, quoted, wasquoted, inpline>>

\* "Backslash escapes anything, is escaped by quotes."
ReadBackslash ==
    /\ More
    /\ Next1 = "bslash" /\ ~Literal(Next1)
    /\ at + 1 < Len(in)
    /\ last' = last
    /\ at' = at + 2
    /\ AddAny(at + 2)
    /\ UNCHANGED <<opt, in, count, quoted, wasquoted, inpline>>

BackslashAtEOF ==
    /\ More
    /\ Next1 = "bslash" /\ ~Literal(Next1)
    /\ at + 1 = Len(in)
    /\ Exit(1)
    /\ UNCHANGED <<opt, in, parser, pool>>

ReadQuote ==
    /\ More
    /\ Next1 \in {"dquote", "squote"} /\ ~Literal(Next1)
    /\ at' = at + 1
    /\ quoted' = IF quoted # "none" THEN "none"
                 ELSE IF Next1 = "dquote" THEN "double" ELSE "single"
    /\ wasquoted' = TRUE
    /\ UNCHANGED <<opt, in, phase, code, buf, p, argp, args, count, inpline,
                   last, pool>>

\* strncmp(argp, eofstr, p - argp) == 0, for a non-empty eofstr.
FoundEof ==
    /\ opt.eofstr # <<>>
    /\ p - argp <= Len(opt.eofstr)
    /\ \A k \in 1..(p - argp) : in[buf[argp + k - 1]] = opt.eofstr[k]

\* Must the utility be run, with a arguments, q bytes and c lines?
LimitReached(a, q, c, eof) ==
    a = opt.nargs \/ q > ebp \/ (opt.L <= c /\ xflag) \/ eof

(* -I: the argument is appended to inpline, which is made to hold it, its  *)
(* '\0' and the blank that may follow.                                     *)
AddToLine(arg) ==
    [text |-> inpline.text \o (IF inpline.text = <<>> THEN <<>> ELSE <<Space>>) \o arg,
     size |-> Len(inpline.text) + 1 + 2 + Len(arg)]

\* Wrong variant: prerun() does not free the line.
LineAfterRunKept(line) == line

\* The end of prerun(), which without -I has nothing to free.
LineAfterRun(line) == NullLine

\* arg2: the argument ends, at a separator or at the end of the input.
EndArg(c, isEOF) ==
    LET make == (argp # p \/ wasquoted) /\ ~FoundEof
        q == IF make THEN p + 1 ELSE p
        a == IF make THEN Append(args, argp) ELSE args
        b == IF make THEN [buf EXCEPT ![p] = Nul] ELSE buf
        line == IF make /\ Iflag THEN AddToLine(StringAt(b, argp)) ELSE inpline
        stop == isEOF \/ FoundEof
    IN
    /\ wasquoted' = FALSE
    /\ buf' = b
    /\ IF LimitReached(Len(a), q, c, stop)
       THEN /\ p' = 0 /\ argp' = 0 /\ args' = <<>> /\ count' = 0
            /\ inpline' = LineAfterRun(line)
            /\ IF xflag /\ Len(a) # opt.nargs /\ q > ebp
               THEN Exit(1) /\ UNCHANGED <<pool, last>>
               ELSE /\ last' = stop
                    /\ Run(Strings(b, a), line.text) \/ RunFails
       ELSE /\ p' = q /\ argp' = q /\ args' = a /\ count' = c /\ inpline' = line
            /\ UNCHANGED <<last, phase, code, pool>>

ReadBlank ==
    /\ More
    /\ Next1 = "blank" /\ ~Literal(Next1)
    /\ at' = at + 1
    /\ EndArg(count, FALSE)
    /\ UNCHANGED <<opt, in, quoted>>

\* A newline, or with -0 a NUL: the end of an argument and of a line.
ReadNewline ==
    /\ More
    /\ Next1 = (IF opt.z THEN "nul" ELSE "nl") /\ quoted = "none"
    /\ at' = at + 1
    /\ EndArg(count + 1, FALSE)
    /\ UNCHANGED <<opt, in, quoted>>

AtEOF == phase = "read" /\ at = Len(in)

\* Wrong variants: ignores arguments still in the buffer; does not exit.
ReadEOFDrops ==
    /\ AtEOF
    /\ phase' = "waitall"
    /\ UNCHANGED <<opt, in, code, parser, pool>>
ReadEOFGoesOn ==
    /\ AtEOF
    /\ p = 0
    /\ UNCHANGED vars

\* "No arguments since last exec."
ReadEOFIdle ==
    /\ AtEOF
    /\ p = 0
    /\ phase' = "waitall"
    /\ UNCHANGED <<opt, in, code, parser, pool>>

ReadEOF ==
    /\ AtEOF
    /\ p # 0 /\ quoted = "none"
    /\ EndArg(count, TRUE)
    /\ UNCHANGED <<opt, in, at, quoted>>

\* arg1: a newline, or the end, inside quotes.
UnterminatedQuote ==
    /\ quoted # "none"
    /\ (More /\ Next1 = "nl") \/ (AtEOF /\ p # 0)
    /\ Exit(1)
    /\ UNCHANGED <<opt, in, parser, pool>>

-----------------------------------------------------------------------------
(* waitchildren(). *)

Waiting == phase \in {"wait", "waitall"}

\* Wrong variants: one process too many; the last wait does not wait.
NoHangOneMore == phase = "wait" /\ curprocs <= maxprocs
NoHangEver == curprocs < maxprocs

NoHang == phase = "wait" /\ curprocs < maxprocs

WaitReap ==
    /\ Waiting
    /\ \E k \in 1..Len(kids) :
          /\ kids[k].st = "zombie"
          /\ kids' = [kids EXCEPT ![k].st = "reaped"]
          /\ rval' = IF ~childerr /\ kids[k].res = "1" THEN 123 ELSE rval
          /\ \/ childerr /\ Exit(126)          \* 127 if errno is ENOENT
             \/ ~childerr /\ kids[k].res = "255" /\ Exit(124)
             \/ ~childerr /\ kids[k].res = "signal" /\ Exit(125)
             \/ ~childerr /\ kids[k].res \in {"0", "1"} /\ UNCHANGED <<phase, code>>
    /\ curprocs' = curprocs - 1
    /\ UNCHANGED <<opt, in, parser, childerr, batches, noexec>>

\* waitpid() returns 0 (WNOHANG) or -1 with ECHILD.
WaitDone ==
    /\ Waiting
    /\ \A k \in 1..Len(kids) : kids[k].st # "zombie"
    /\ NoHang \/ \A k \in 1..Len(kids) : kids[k].st = "reaped"
    /\ IF phase = "waitall" THEN Exit(rval)
       ELSE phase' = (IF last THEN "waitall" ELSE "read") /\ UNCHANGED code
    /\ UNCHANGED <<opt, in, parser, pool>>

\* A utility ends, or the child of a failed exec becomes a zombie.
ChildExit ==
    /\ \E k \in 1..Len(kids) :
          \/ kids[k].st = "running" /\ \E r \in Results(opt) :
                kids' = [kids EXCEPT ![k] = [st |-> "zombie", res |-> r]]
          \/ kids[k].st = "failing"
                /\ kids' = [kids EXCEPT ![k] = [st |-> "zombie", res |-> "1"]]
    /\ UNCHANGED <<opt, in, phase, code, parser,
                   curprocs, childerr, rval, batches, noexec>>

Parse == \/ ReadChar \/ ReadBackslash \/ BackslashAtEOF \/ ReadQuote
         \/ ReadBlank \/ ReadNewline
         \/ ReadEOFIdle \/ ReadEOF \/ UnterminatedQuote

Next == Parse \/ WaitReap \/ WaitDone \/ ChildExit

Spec == Init /\ [][Next]_vars

\* xargs runs when it can, and every utility ends.
FairSpec == Spec /\ WF_vars(Parse \/ WaitReap \/ WaitDone) /\ WF_vars(ChildExit)

-----------------------------------------------------------------------------
(* The arguments that an input consists of: maximal runs of characters     *)
(* that are not separators, unless quoted or escaped; quotes and escaping  *)
(* backslashes are removed, and quotes make an argument even of nothing.   *)
(* With -0, what stands between NULs.  A reference that knows of no        *)
(* buffer, no limits and no pointers.                                      *)
NoWord == [cur |-> <<>>, q |-> "none", esc |-> FALSE, some |-> FALSE, out |-> <<>>]

\* Character n belongs to the current word; the word ends; a quote begins or ends.
Keep(s, n) == [s EXCEPT !.cur = Append(@, n), !.some = TRUE, !.esc = FALSE]
End(s) == [s EXCEPT !.cur = <<>>, !.some = FALSE,
                    !.out = IF s.some THEN Append(@, s.cur) ELSE @]
Quote(s, c) ==
    IF s.q = "none" THEN [s EXCEPT !.q = c, !.some = TRUE] ELSE [s EXCEPT !.q = "none"]

\* What character n, which is c, makes of s; z is for -0.
Reads(s, n, c, z) ==
    CASE c = "nul" -> End(s)
      [] z /\ c # "nul" -> Keep(s, n)
      [] ~z /\ (s.esc \/ c \in {"a", "b"}) -> Keep(s, n)
      [] ~z /\ ~s.esc /\ c \in {"dquote", "squote"} ->
           IF s.q \in {"none", c} THEN Quote(s, c) ELSE Keep(s, n)
      [] ~z /\ ~s.esc /\ c = "bslash" ->
           IF s.q = "none" THEN [s EXCEPT !.esc = TRUE] ELSE Keep(s, n)
      [] ~z /\ ~s.esc /\ c \in {"blank", "nl"} ->
           IF s.q = "none" THEN End(s) ELSE Keep(s, n)

\* What the first n characters of the input i make.
WordsUpTo(i, z, n) ==
    LET upTo[k \in 0..Len(i)] ==
          IF k = 0 THEN NoWord ELSE Reads(upTo[k - 1], k, i[k], z)
    IN  upTo[n]

Words == End(WordsUpTo(in, opt.z, Len(in))).out

\* The arguments of the runs b, in order.
ArgsOf(b) ==
    LET cat[k \in 0..Len(b)] == IF k = 0 THEN <<>> ELSE cat[k - 1] \o b[k].args
    IN  cat[Len(b)]

\* All arguments handed to utilities so far.
Delivered == ArgsOf(batches)

\* The bytes that a batch takes in the buffer, with a '\0' for each argument.
Bytes(b) ==
    LET sum[k \in 0..Len(b)] == IF k = 0 THEN 0 ELSE sum[k - 1] + Len(b[k]) + 1
    IN  sum[Len(b)]

\* Did xargs end by exit(rval)?
Completed == code \in {0, 123}

\* Every variable of the model stays in its range.
TypeOK ==
    /\ opt \in Options /\ in \in Inputs(opt)
    /\ at \in 0..Len(in)
    /\ phase \in {"read", "wait", "waitall", "exit"}
    /\ buf \in [0..opt.nline -> {Empty, Nul} \cup 1..Len(in)]
    /\ p \in Nat /\ argp \in Nat /\ count \in Nat
    /\ args \in Seq(Nat)
    /\ quoted \in {"none", "single", "double"}
    /\ {wasquoted, last, childerr} \subseteq BOOLEAN
    /\ \A k \in 1..Len(kids) :
          kids[k] \in [st : {"running", "failing", "zombie", "reaped"},
                       res : Results(opt) \cup {"none", "1"}]
    /\ curprocs \in Int
    /\ rval \in {0, 123}
    /\ code \in {NoCode, 0, 1, 123, 124, 125, 126}
    /\ noexec \subseteq 1..Len(kids)

(* The pointers stay inside their arrays (malloc(nline + 1) bytes and      *)
(* nargs pointers), also when an argument is carried over to the next run, *)
(* and no utility gets more than -n arguments or -s bytes.  With -I,       *)
(* inpline has room for its '\0' and for the blank that the next strcat()  *)
(* appends before realloc() is called, however many arguments it holds.    *)
WithinLimits ==
    /\ inpline.size > 0 => Len(inpline.text) + 2 <= inpline.size
    /\ argp <= p /\ p <= opt.nline
    /\ Len(args) <= opt.nargs
    /\ \A k \in 1..Len(batches) :
          Len(batches[k].args) <= opt.nargs /\ Bytes(batches[k].args) <= opt.nline

(* What the utilities have been given, and what is waiting in the buffer,  *)
(* is a prefix of the input's arguments: none is lost, repeated, split,    *)
(* joined or overtaken, whatever the limits cut.  With -E eofstr, no       *)
(* utility is given the argument eofstr, nor what comes after it.          *)
ArgsInOrder ==
    LET seen == Delivered \o Strings(buf, args)
    IN  /\ Len(seen) <= Len(Words)
        /\ \A k \in 1..Len(seen) : seen[k] = Words[k]
        /\ opt.eofstr # <<>> =>
              \A k \in 1..Len(Delivered) :
                  [j \in 1..Len(Delivered[k]) |-> in[Delivered[k][j]]] # opt.eofstr

(* "Do not make empty args unless they are quoted": when xargs completes   *)
(* without -E, the utilities have been given every argument of the input,  *)
(* but for an empty quoted one that ends it.                               *)
AllButLastEmpty ==
    Completed /\ opt.eofstr = <<>> => Delivered = Words \/ Append(Delivered, <<>>) = Words

\* The arguments a separated by single blanks, but for the empty ones that lead.
Joined(a) ==
    LET upTo[k \in 0..Len(a)] ==
          IF k = 0 THEN <<>>
          ELSE IF upTo[k - 1] = <<>> THEN a[k] ELSE upTo[k - 1] \o <<Space>> \o a[k]
    IN  upTo[Len(a)]

\* s with line in every place of replstr.
Substituted(s, line) ==
    LET upTo[n \in 0..Len(s)] ==
          IF n = 0 THEN <<>>
          ELSE upTo[n - 1] \o (IF s[n] = "R" THEN line ELSE <<s[n]>>)
    IN  upTo[Len(s)]

(* -I, -R and -S: each run is given the utility's arguments with replstr   *)
(* replaced by its own line and no other, in the first -R arguments that   *)
(* have it and wherever the argument fits in -S bytes before and after;    *)
(* otherwise the argument is cut to -S bytes.                              *)
LineReplaced ==
    Iflag => \A b \in 1..Len(batches) : \A k \in 1..Len(opt.cmd) :
        LET whole == Substituted(opt.cmd[k], Joined(batches[b].args))
            got == batches[b].argv[k]
        IN  IF ~Replaces(k) THEN got = opt.cmd[k]
            ELSE /\ Len(got) < opt.S
                 /\ Len(opt.cmd[k]) < opt.S /\ Len(whole) < opt.S => got = whole

\* The utilities that run or wait to be reaped.
Unreaped == {k \in (opt.inherited + 1)..Len(kids) : kids[k].st # "reaped"}

(* -P maxprocs: there are never more utilities at a time, but for one for  *)
(* each inherited child that has been reaped and counted as a utility.     *)
AtMostMaxProcs ==
    Cardinality(Unreaped)
        <= maxprocs + Cardinality({k \in 1..opt.inherited : kids[k].st = "reaped"})

(* xargs completes only when every utility has ended and been reaped, and  *)
(* its status tells whether one of them failed, whatever the order in      *)
(* which they ended.  "If we couldn't invoke the utility, exit.": if an    *)
(* exec failed xargs does not complete, as long as utilities run one at a  *)
(* time and there is no other child, so that childerr is read for the      *)
(* child that set it.                                                      *)
StatusOfAll ==
    Completed =>
        /\ maxprocs = 1 /\ opt.inherited = 0 => noexec = {}
        /\ Unreaped = {}
        /\ code = 123 <=> \E k \in 1..Len(kids) : kids[k].res = "1"
        /\ \A k \in 1..Len(kids) : kids[k].res \in {"0", "1"}

(* xargs comes to an end on every input if its utilities do: no wait for a *)
(* child that has been reaped, no slot that is never given back.           *)
Terminates == <>(phase = "exit")

=============================================================================
