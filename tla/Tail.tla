-------------------------------- MODULE Tail --------------------------------
(***************************************************************************)
(* usr.bin/tail on one file: forward() or reverse() display what was asked *)
(* for, then, with -f or -F, forward() follows the file while others       *)
(* append to it, truncate it, rotate it and create a new one.              *)
(*                                                                         *)
(* A byte is a number; those of the first file at the start are 1, 2, ...  *)
(* and later ones have numbers of their own, so that what was written, and *)
(* what was lost or repeated, can be told from the output.                 *)
(***************************************************************************)
EXTENDS TailDisplay

CONSTANTS
    Opts,        \* the option sets and kinds of input to check
    Inodes,      \* inode numbers, 1 is the first file's
    MaxChanges   \* bound: how often others write, truncate, rename or remove

ASSUME TailAssumption ==
    /\ 1 \in Inodes /\ Inodes \subseteq Nat \ {0}
    /\ MaxChanges \in Nat

ASSUME OptsAssumption ==
    \A o \in Opts : /\ {o.off, o.size, o.fflag} \subseteq Nat /\ {o.rflag, o.reg} \subseteq BOOLEAN
                    /\ o.nl \subseteq 1..o.size

VARIABLES
    opt,        \* style, off, rflag, fflag; reg, size and nl of the input; mem, garbage
    content,    \* per inode: its bytes
    state,      \* per inode: "free", "named", "moved" or "deleted"
    pc,         \* where tail is
    action,     \* ADD_EVENTS, USE_KQUEUE or USE_SLEEP
    ev,         \* ev[0].filter
    sbp,        \* st_ino and st_size of the file that tail believes it has open
    statbuf,    \* st_ino of the last stat()
    fp,         \* the inode that is open and the offset in it
    out,        \* what tail has written
    changes,    \* how many changes others have made
    hist        \* history: see below

(* hist.first: where the display of the first file started.  hist.shrunk:  *)
(* the file has been truncated after tail opened it.  hist.back: a file    *)
(* got its name back.  hist.stale: freopen() has opened another file than  *)
(* stat() saw.                                                             *)
world == <<content, state, changes>>
vars == <<opt, world, pc, action, ev, sbp, statbuf, fp, out, hist>>

Ended == {"exit", "error", "sigbus"}

Named == {i \in Inodes : state[i] = "named"}
Open == pc \notin {"open"} \cup Ended

\* An inode number is free if no name and no descriptor of tail refers to it.
Free(i) == state[i] = "free" \/ (state[i] = "deleted" /\ ~(Open /\ fp.ino = i))

Init ==
    /\ opt \in Opts
    /\ content = [i \in Inodes |-> IF i = 1 THEN Span(1, opt.size) ELSE <<>>]
    /\ state = [i \in Inodes |-> IF i = 1 THEN "named" ELSE "free"]
    /\ pc = "open" /\ action = "USE_SLEEP" /\ ev = "none"
    /\ sbp = [ino |-> 0, size |-> 0] /\ statbuf = 0
    /\ fp = [ino |-> 1, pos |-> 0]
    /\ out = <<>>
    /\ changes = 0
    /\ hist = [first |-> 0, shrunk |-> FALSE, back |-> FALSE, stale |-> FALSE]

-----------------------------------------------------------------------------
\* main(): fopen() and fstat().
FopenFstat ==
    /\ pc = "open"
    /\ IF Named = {}
       THEN pc' = "error" /\ UNCHANGED <<fp, sbp>>
       ELSE \E i \in Named :
                /\ fp' = [ino |-> i, pos |-> 0]
                /\ sbp' = [ino |-> i, size |-> Len(content[i])]
                /\ pc' = "display"
    /\ UNCHANGED <<opt, world, action, ev, statbuf, out, hist>>

\* What a byte of the file is, as mmap() shows it: beyond the end, 0.
Mapped(p) == IF p <= Len(content[fp.ino]) THEN content[fp.ino][p] ELSE 0

\* What reverse(), and forward() on a pipe, write; nobody changes the input.
Displayed ==
    LET bytes == opt.style = "RBYTES"
        nl == opt.nl
        size == opt.size
        off == opt.off
    IN  CASE opt.style = "REVERSE" /\ ~opt.reg -> r_buf(nl, size, opt.mem, opt.garbage)
          [] opt.style # "REVERSE" /\ off = 0 -> <<>>
          [] OTHER ->
                CASE opt.rflag /\ opt.reg -> r_reg(nl, size, opt.style, off)
                  [] opt.rflag /\ ~opt.reg /\ bytes -> rdisplaybytes(nl, size, off)
                  [] opt.rflag /\ ~opt.reg /\ ~bytes -> rdisplaylines(nl, size, off)
                  [] ~opt.rflag /\ bytes -> displaybytes(size, off)
                  [] ~opt.rflag /\ ~bytes -> displaylines(nl, size, off)

DisplayReverse ==
    /\ pc = "display" /\ opt.rflag
    /\ out' = Displayed
    /\ pc' = "exit"
    /\ UNCHANGED <<opt, world, action, ev, sbp, statbuf, fp, hist>>

\* forward(), the positions in the file from which reading goes on.
At(p) == fp' = [fp EXCEPT !.pos = p] /\ hist' = [hist EXCEPT !.first = p]

\* The lines that are skipped are read, the newlines of the first file only.
SkipLines ==
    LET S == {p \in 1..Len(content[fp.ino]) : content[fp.ino][p] \in opt.nl} IN
    IF Cardinality(S) < opt.off THEN Len(content[fp.ino])
    ELSE KthLast(S, Cardinality(S) - opt.off + 1)

DisplayForward ==
    /\ pc = "display" /\ ~opt.rflag
    /\ LET now == Len(content[fp.ino]) IN
       \/ /\ opt.style = "FBYTES"
          /\ At(IF opt.reg THEN Min({opt.off, sbp.size}) ELSE Min({opt.off, now}))
          /\ pc' = "follow" /\ UNCHANGED out
       \/ /\ opt.style = "FLINES"
          /\ At(IF opt.off = 0 THEN 0 ELSE SkipLines)
          /\ pc' = "follow" /\ UNCHANGED out
       \/ /\ opt.style = "RBYTES" /\ opt.reg
          /\ IF sbp.size >= opt.off /\ now < opt.off      \* fseeko() fails
             THEN pc' = "error" /\ UNCHANGED <<fp, hist>>
             ELSE At(IF sbp.size >= opt.off THEN now - opt.off ELSE 0) /\ pc' = "follow"
          /\ UNCHANGED out
       \/ /\ opt.style = "RLINES" /\ opt.reg /\ (opt.off = 0 \/ sbp.size = 0)
          /\ At(IF opt.off = 0 THEN now ELSE 0)
          /\ pc' = "follow" /\ UNCHANGED out
       \/ /\ opt.style = "RLINES" /\ opt.reg /\ opt.off > 0 /\ MmapFails(sbp.size)
          /\ pc' = "error" /\ UNCHANGED <<fp, out, hist>>
       \/ /\ opt.style = "RLINES" /\ opt.reg /\ opt.off > 0 /\ sbp.size > 0 /\ ~MmapFails(sbp.size)
          /\ IF now = 0
             THEN pc' = "sigbus" /\ UNCHANGED <<fp, out, hist>>
             ELSE LET r == rlines({p \in 1..sbp.size : Mapped(p) \in opt.nl}, sbp.size, opt.off) IN
                  /\ out' = [k \in 1..(r[2] - r[1] + 1) |-> Mapped(r[1] + k - 1)]
                  /\ fp' = [fp EXCEPT !.pos = r[2]]
                  /\ hist' = [hist EXCEPT !.first = r[1] - 1]
                  /\ pc' = "follow"
       \/ /\ opt.style \in {"RBYTES", "RLINES"} /\ ~opt.reg
          /\ At(opt.size) /\ pc' = "follow" /\ out' = Displayed
    /\ UNCHANGED <<opt, world, action, ev, sbp, statbuf>>

-----------------------------------------------------------------------------
(* The loop of forward().  kqueue() and kevent() are those of              *)
(* include/sys/event.h, which return 0 and do nothing: kq is 0, and ev     *)
(* stays as EV_SET() left it.                                              *)

Kqueue ==
    /\ pc = "follow"
    /\ action' = IF opt.fflag > 0 THEN "ADD_EVENTS" ELSE action
    /\ pc' = "read"
    /\ UNCHANGED <<opt, world, ev, sbp, statbuf, fp, out, hist>>

\* Wrong variant: reading goes on from the start of the file.
ReadAgain ==
    /\ pc = "read"
    /\ out' = out \o content[fp.ino]
    /\ fp' = [fp EXCEPT !.pos = Len(content[fp.ino])]
    /\ pc' = IF opt.fflag > 0 THEN "act" ELSE "exit"
    /\ UNCHANGED <<opt, world, action, ev, sbp, statbuf, hist>>

\* Wrong variant: the end of the file is not cleared, and stays the end.
ReadOnce ==
    /\ pc = "read"
    /\ IF action = "USE_KQUEUE" THEN UNCHANGED <<out, fp>>
       ELSE /\ out' = out \o SubSeq(content[fp.ino], fp.pos + 1, Len(content[fp.ino]))
            /\ fp' = [fp EXCEPT !.pos = Max({@, Len(content[fp.ino])})]
    /\ pc' = IF opt.fflag > 0 THEN "act" ELSE "exit"
    /\ UNCHANGED <<opt, world, action, ev, sbp, statbuf, hist>>

\* getc() to the end of the file, putchar(), fflush(), clearerr().
Read ==
    /\ pc = "read"
    /\ out' = out \o SubSeq(content[fp.ino], fp.pos + 1, Len(content[fp.ino]))
    /\ fp' = [fp EXCEPT !.pos = Max({@, Len(content[fp.ino])})]
    /\ pc' = IF opt.fflag > 0 THEN "act" ELSE "exit"
    /\ UNCHANGED <<opt, world, action, ev, sbp, statbuf, hist>>

\* An error of getc() or putchar() ends it.
ReadFails ==
    /\ pc = "read" /\ opt.fflag > 0 /\ pc' = "error"
    /\ UNCHANGED <<opt, world, action, ev, sbp, statbuf, fp, out, hist>>

\* Wrong variant: the VNODE event is left out for -F too.
AddReadOnly ==
    /\ pc = "act" /\ action = "ADD_EVENTS"
    /\ ev' = "EVFILT_READ"
    /\ action' = "USE_KQUEUE" /\ pc' = "read"
    /\ UNCHANGED <<opt, world, sbp, statbuf, fp, out, hist>>

\* ADD_EVENTS: with -F the first event is VNODE.
AddEvents ==
    /\ pc = "act" /\ action = "ADD_EVENTS"
    /\ ev' = IF opt.fflag = 2 THEN "EVFILT_VNODE" ELSE "EVFILT_READ"
    /\ action' = "USE_KQUEUE" /\ pc' = "read"
    /\ UNCHANGED <<opt, world, sbp, statbuf, fp, out, hist>>

(* USE_KQUEUE: kevent() returns at once.  With -F the event is taken for   *)
(* a rotation; with -f it is READ with data 0, so that nothing happens.    *)
Kevent ==
    /\ pc = "act" /\ action = "USE_KQUEUE"
    /\ action' = IF ev = "EVFILT_VNODE" THEN "USE_SLEEP" ELSE action
    /\ pc' = "read"
    /\ UNCHANGED <<opt, world, ev, sbp, statbuf, fp, out, hist>>

(* USE_SLEEP: a second passes, then with -F stat() tells whether the name  *)
(* refers to another file.                                                 *)
SleepStat ==
    /\ pc = "act" /\ action = "USE_SLEEP"
    /\ IF Named = {}
       THEN pc' = "read" /\ UNCHANGED <<action, statbuf>>
       ELSE \E i \in Named :
                /\ statbuf' = i
                /\ pc' = IF i # sbp.ino THEN "freopen" ELSE "read"
                /\ action' = IF i # sbp.ino THEN action ELSE "USE_KQUEUE"
    /\ UNCHANGED <<opt, world, ev, sbp, fp, out, hist>>

\* freopen() opens what has the name by now; if nothing has, tail ends.
Freopen ==
    /\ pc = "freopen"
    /\ \/ /\ Named = {}
          /\ pc' = "error"
          /\ UNCHANGED <<fp, sbp, action, hist>>
       \/ \E i \in Named :
          /\ fp' = [ino |-> i, pos |-> 0]
          /\ sbp' = [sbp EXCEPT !.ino = statbuf]
          /\ hist' = [hist EXCEPT !.first = 0, !.shrunk = FALSE, !.stale = @ \/ i # statbuf]
          /\ action' = "ADD_EVENTS" /\ pc' = "read"
    /\ UNCHANGED <<opt, world, ev, statbuf, out>>

-----------------------------------------------------------------------------
\* The others, while a file is followed.

\* A writer goes on with a file it has open, whatever its name is by now.
AppendByte(i) ==
    /\ opt.fflag > 0 /\ changes < MaxChanges /\ ~Free(i)
    /\ content' = [content EXCEPT ![i] = Append(@, opt.size + changes + 1)]
    /\ changes' = changes + 1
    /\ UNCHANGED <<opt, state, pc, action, ev, sbp, statbuf, fp, out, hist>>

Truncate(i) ==
    /\ opt.fflag > 0 /\ changes < MaxChanges /\ state[i] = "named"
    /\ content' = [content EXCEPT ![i] = <<>>]
    /\ changes' = changes + 1
    /\ hist' = [hist EXCEPT !.shrunk = @ \/ (Open /\ fp.ino = i)]
    /\ UNCHANGED <<opt, state, pc, action, ev, sbp, statbuf, fp, out>>

\* The name is taken from the file: rename() or unlink().
Unname(i, how) ==
    /\ opt.fflag > 0 /\ changes < MaxChanges /\ state[i] = "named"
    /\ state' = [state EXCEPT ![i] = how]
    /\ changes' = changes + 1
    /\ UNCHANGED <<opt, content, pc, action, ev, sbp, statbuf, fp, out, hist>>

\* A new file, or an old one again, gets the name.
Create(i) ==
    /\ opt.fflag > 0 /\ Named = {} /\ Free(i)
    /\ state' = [state EXCEPT ![i] = "named"]
    /\ content' = [content EXCEPT ![i] = <<>>]
    /\ UNCHANGED <<opt, changes, pc, action, ev, sbp, statbuf, fp, out, hist>>

GiveBack(i) ==
    /\ opt.fflag > 0 /\ Named = {} /\ state[i] = "moved"
    /\ state' = [state EXCEPT ![i] = "named"]
    /\ hist' = [hist EXCEPT !.back = TRUE]
    /\ UNCHANGED <<opt, content, changes, pc, action, ev, sbp, statbuf, fp, out>>

-----------------------------------------------------------------------------
Step ==
    \/ FopenFstat \/ DisplayReverse \/ DisplayForward \/ Kqueue \/ Read
    \/ AddEvents \/ Kevent \/ SleepStat \/ Freopen

Others ==
    \E i \in Inodes :
        \/ AppendByte(i) \/ Truncate(i) \/ Unname(i, "moved") \/ Unname(i, "deleted")
        \/ Create(i) \/ GiveBack(i)

Next == Step \/ ReadFails \/ Others

Spec == Init /\ [][Next]_vars

\* tail -f goes on.
FollowStep == opt.fflag > 0 /\ Step
FairSpec == Spec /\ WF_vars(FollowStep)

-----------------------------------------------------------------------------
(* The variables have their types, and a file is reopened only with -F and *)
(* when ev says VNODE.                                                     *)
TypeOK ==
    /\ content \in [Inodes -> Seq(Nat)]
    /\ state \in [Inodes -> {"free", "named", "moved", "deleted"}]
    /\ pc \in {"open", "display", "follow", "read", "act", "freopen"} \cup Ended
    /\ action \in {"ADD_EVENTS", "USE_KQUEUE", "USE_SLEEP"}
    /\ ev \in {"none", "EVFILT_READ", "EVFILT_VNODE"}
    /\ sbp.ino \in Inodes \cup {0} /\ statbuf \in Inodes \cup {0}
    /\ fp \in [ino : Inodes, pos : Nat] /\ out \in Seq(Nat)
    /\ ev = "EVFILT_VNODE" => opt.fflag = 2

\* What the options ask for, of the input as it was.
Asked ==
    LET whole == Span(1, opt.size)
        part == CASE opt.style = "FBYTES" -> SubSeq(whole, opt.off + 1, opt.size)
                  [] opt.style = "FLINES" -> AfterLines(opt.nl, opt.size, opt.off)
                  [] opt.style = "RBYTES" -> LastBytes(opt.size, opt.off)
                  [] opt.style = "RLINES" -> LastLines(opt.nl, opt.size, opt.off)
                  [] opt.style = "REVERSE" -> whole
    IN  IF opt.rflag THEN Reversed(opt.nl, part) ELSE part

(* tail writes what its options ask for: "display the last offset lines of *)
(* the file", "the data is displayed in lines in reverse order".           *)
DisplaysAsked == pc \in {"exit", "error"} /\ opt.fflag = 0 => out = Asked

(* The inputs on which the code goes wrong: rlines() overlooks a newline   *)
(* that ends a mapped chunk (or cannot map a large file, and says so);     *)
(* displaybytes() with -r drops the first line of a short input; r_buf()   *)
(* discards what there is no memory for, and reads the length of a block   *)
(* it never set.                                                           *)
ChunkEndsLine ==
    /\ opt.style = "RLINES" /\ opt.reg /\ ~opt.rflag
    /\ \E p \in opt.nl : p < opt.size /\ (opt.size - p) % MMAP_MAXSIZE = 0
ShortReversedBytes == opt.style = "RBYTES" /\ opt.rflag /\ ~opt.reg /\ opt.size < opt.off
OutOfBlocks ==
    /\ opt.style = "REVERSE" /\ ~opt.reg
    /\ \/ opt.size > BSZ * opt.mem
       \/ opt.garbage > 0 /\ opt.size % BSZ = 0

(* DisplaysAsked on every other input that tail gets to the end of.        *)
(* Whatever the sizes of buffer, ring and chunks, and wherever newlines    *)
(* fall in them, the wanted bytes or lines are written, in order.          *)
DisplaysAskedUsually ==
    pc = "exit" /\ ~ChunkEndsLine /\ ~ShortReversedBytes /\ ~OutOfBlocks => out = Asked

(* What tail has shown of the file it has open is what the file holds from *)
(* where the display started to the offset: each byte once, in order, with *)
(* none left out; what was written before that is not of this file.  After *)
(* a truncation, which tail never notices, that cannot be expected, nor    *)
(* when a file that was shown before has its name again; and a file that   *)
(* replaced another between stat() and freopen() is shown twice.           *)
ShownInOrder ==
    pc \in {"follow", "read", "act", "freopen"} /\ opt.fflag > 0 /\ opt.reg
    /\ ~hist.shrunk /\ ~hist.back /\ ~hist.stale =>
        LET c == content[fp.ino]
            n == fp.pos - hist.first
            before == Len(out) - n
        IN  /\ hist.first <= fp.pos /\ fp.pos <= Len(c) /\ before >= 0
            /\ \A j \in 1..before : \A p \in 1..Len(c) : out[j] # c[p]
            /\ \A j \in 1..n : out[before + j] = c[hist.first + j]

\* What is in the file is shown at last, unless it was truncated.
CaughtUp ==
    []<>(\/ opt.fflag = 0 \/ pc \in Ended
         \/ pc # "open" /\ fp.pos = Len(content[fp.ino])
         \/ hist.shrunk)

(* tail -F comes to the file that has the name, unless another rotation    *)
(* came between stat() and freopen().                                      *)
FollowsName ==
    <>[](opt.fflag = 2 /\ pc \notin Ended /\ Named # {} => fp.ino \in Named \/ hist.stale)
=============================================================================
