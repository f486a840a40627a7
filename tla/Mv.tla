--------------------------------- MODULE Mv ---------------------------------
(***************************************************************************)
(* bin/mv: move each source, by rename() where that is possible, otherwise *)
(* by removing the target, copying the source and removing it.             *)
(*                                                                         *)
(* One action is one system call that can fail or be seen by others, or a  *)
(* child process that ends; mv may be killed between any two of them.      *)
(* The file systems fail as they like, MaxFails times.                     *)
(***************************************************************************)
EXTENDS Integers

CONSTANTS
    Sources,     \* how many source arguments there are
    Blocks,      \* how many blocks a regular file has
    MaxFails,    \* bound: how many calls fail
    Inherited    \* may mv have a child from before its exec: a subset of BOOLEAN

ASSUME MvAssumption ==
    /\ Sources \in Nat \ {0} /\ Blocks \in Nat /\ MaxFails \in Nat
    /\ Inherited \subseteq BOOLEAN

Files == 1..Sources

VARIABLES
    opt,        \* -f, -i, is stdin a terminal, has mv inherited a child
    kind,       \* per source: "reg" or other, and is the target on its file system
    src, dst,   \* per source: what is under its name, and under the target's
    readonly,   \* per source: is the old target not writable
    n,          \* the source being moved
    pc,         \* the next call
    rval,       \* what mv will exit with
    pos,        \* blocks copied by fastcopy()
    blen,       \* has the buffer been allocated
    child,      \* the child mv waits for: cp, rm or an inherited one
    fails,      \* how many calls have failed
    why         \* history, per source: how it ended

vars == <<opt, kind, src, dst, readonly, n, pc, rval, pos, blen, child, fails, why>>

Ended == {"exit", "killed"}
NoChild == [is |-> "none", status |-> 0]

-----------------------------------------------------------------------------
\* Wrong variant: the exit status is that of the last move.
ReturnLast(r, how) ==
    /\ rval' = r
    /\ why' = [why EXCEPT ![n] = how]
    /\ n' = IF n = Sources THEN n ELSE n + 1
    /\ pc' = IF n = Sources THEN "exit" ELSE "access"
    /\ pos' = 0

(* do_move() returns r, and main() goes on with the next source or exits   *)
(* with 1 if any move failed.                                              *)
Return(r, how) ==
    /\ rval' = IF r = 1 THEN 1 ELSE rval
    /\ why' = [why EXCEPT ![n] = how]
    /\ n' = IF n = Sources THEN n ELSE n + 1
    /\ pc' = IF n = Sources THEN "exit" ELSE "access"
    /\ pos' = 0

Goto(l) == pc' = l /\ UNCHANGED <<n, rval, pos, why>>

Fail == fails < MaxFails /\ fails' = fails + 1
Works == UNCHANGED fails

Init ==
    /\ opt \in {o \in [f : BOOLEAN, i : BOOLEAN, tty : BOOLEAN, inherited : Inherited] :
                   ~(o.f /\ o.i)}
    /\ kind \in [Files -> [reg : BOOLEAN, same : BOOLEAN]]
    /\ src = [f \in Files |-> "whole"]
    /\ dst \in [Files -> {"none", "old", "link"}]
    /\ \A f \in Files : dst[f] = "link" => kind[f].same
    /\ readonly \in [Files -> BOOLEAN]
    /\ \A f \in Files : readonly[f] => dst[f] # "none"
    /\ n = 1 /\ pc = "access" /\ rval = 0 /\ pos = 0
    /\ blen = FALSE
    /\ child = NoChild
    /\ fails = 0
    /\ why = [f \in Files |-> "none"]

-----------------------------------------------------------------------------
(* Step 1 of do_move(): ask if the target exists, -f was not given, and -i *)
(* was or the target is read-only and there is somebody to ask.  A target  *)
(* that access() or stat() cannot reach counts as none.  Before it asks it *)
(* looks for the source.                                                   *)
Asks == ~opt.f /\ dst[n] # "none" /\ (opt.i \/ (opt.tty /\ readonly[n]))

Access ==
    /\ pc = "access"
    /\ \/ Works /\ Goto(IF Asks THEN "prompt" ELSE "rename")
       \/ Asks /\ Fail /\ (Return(1, "error") \/ Goto("rename"))
    /\ UNCHANGED <<opt, kind, src, dst, readonly, blen, child>>

\* Anything but y, the end of the input too, means no, and that is no error.
Prompt ==
    /\ pc = "prompt"
    /\ Goto("rename") \/ Return(0, "declined")
    /\ UNCHANGED <<opt, kind, src, dst, readonly, blen, child, fails>>

\* Wrong variant: the target is removed first.
RenameUnlinksFirst ==
    /\ pc = "rename"
    /\ \/ dst[n] # "none" /\ dst' = [dst EXCEPT ![n] = "none"] /\ UNCHANGED <<src, fails>> /\ Goto("rename")
       \/ /\ dst[n] = "none" /\ kind[n].same /\ Works
          /\ src' = [src EXCEPT ![n] = "gone"] /\ dst' = [dst EXCEPT ![n] = "whole"]
          /\ Return(0, "done")
    /\ UNCHANGED <<opt, kind, readonly, blen, child>>

(* Step 2: rename() does it all or nothing; EXDEV goes on.  A target that  *)
(* is a link to the source makes rename() return 0 and do nothing.         *)
Rename ==
    /\ pc = "rename"
    /\ \/ /\ dst[n] = "link" /\ Works
          /\ Return(0, "samefile") /\ UNCHANGED <<src, dst>>
       \/ /\ kind[n].same /\ dst[n] # "link" /\ Works
          /\ src' = [src EXCEPT ![n] = "gone"] /\ dst' = [dst EXCEPT ![n] = "whole"]
          /\ Return(0, "done")
       \/ /\ ~kind[n].same /\ Works
          /\ Goto("remove") /\ UNCHANGED <<src, dst>>
       \/ /\ Fail
          /\ Return(1, "error") /\ UNCHANGED <<src, dst>>
    /\ UNCHANGED <<opt, kind, readonly, blen, child>>

\* Step 4: unlink() or rmdir() of the target, if there is one.
RemoveTarget ==
    /\ pc = "remove"
    /\ \/ /\ Works
          /\ dst' = [dst EXCEPT ![n] = "none"]
          /\ Goto("lstat")
       \/ /\ dst[n] # "none" /\ Fail
          /\ Return(1, "error") /\ UNCHANGED dst
    /\ UNCHANGED <<opt, kind, src, readonly, blen, child>>

\* Step 5: a regular file is copied here, anything else by cp.
LstatFrom ==
    /\ pc = "lstat"
    /\ \/ Works /\ Goto(IF kind[n].reg THEN "open" ELSE "forkcp")
       \/ Fail /\ Return(1, "error")
    /\ UNCHANGED <<opt, kind, src, dst, readonly, blen, child>>

-----------------------------------------------------------------------------
\* fastcopy().

\* open() of the source, then of the target, which is empty from then on.
Open ==
    /\ pc = "open"
    /\ \/ /\ Works
          /\ dst' = [dst EXCEPT ![n] = "part"]
          /\ Goto("malloc")
       \/ /\ Fail
          /\ Return(1, "error") /\ UNCHANGED dst
    /\ UNCHANGED <<opt, kind, src, readonly, blen, child>>

\* The buffer is allocated once; without it the empty target stays.
Malloc ==
    /\ pc = "malloc"
    /\ \/ Works /\ blen' = TRUE /\ Goto("copy")
       \/ ~blen /\ Fail /\ Return(1, "nobuffer") /\ UNCHANGED blen
    /\ UNCHANGED <<opt, kind, src, dst, readonly, child>>

\* read() and write() of a block, or one of them fails; at the end, the attributes.
Copy ==
    /\ pc = "copy"
    /\ \/ /\ pos < Blocks /\ Works
          /\ pos' = pos + 1 /\ UNCHANGED <<n, rval, pc, why>>
       \/ Fail /\ Goto("undo")
       \/ pos = Blocks /\ Works /\ Goto("close")
    /\ UNCHANGED <<opt, kind, src, dst, readonly, blen, child>>

\* Wrong variant: what has been copied stays.
UndoNothing ==
    /\ pc = "undo"
    /\ Return(1, "error") /\ UNCHANGED <<dst, fails>>
    /\ UNCHANGED <<opt, kind, src, readonly, blen, child>>

\* err: the part that has been copied is removed, if that works.
Undo ==
    /\ pc = "undo"
    /\ \/ /\ Works
          /\ dst' = [dst EXCEPT ![n] = "none"]
          /\ Return(1, "error")
       \/ Fail /\ Return(1, "stuck") /\ UNCHANGED dst
    /\ UNCHANGED <<opt, kind, src, readonly, blen, child>>

(* close() of the target: what was written is there now, unless close()    *)
(* says otherwise.                                                         *)
Close ==
    /\ pc = "close"
    /\ \/ /\ Works
          /\ dst' = IF pos = Blocks THEN [dst EXCEPT ![n] = "whole"] ELSE dst
          /\ Goto("unlink")
       \/ Fail /\ Return(1, "unclosed") /\ UNCHANGED dst
    /\ UNCHANGED <<opt, kind, src, readonly, blen, child>>

UnlinkFrom ==
    /\ pc = "unlink"
    /\ \/ /\ Works
          /\ src' = [src EXCEPT ![n] = "gone"]
          /\ Return(0, "done")
       \/ Fail /\ Return(1, "kept") /\ UNCHANGED src
    /\ UNCHANGED <<opt, kind, dst, readonly, blen, child>>

-----------------------------------------------------------------------------
\* copy(): cp -PRp, then rm -rf.

(* vfork().  When it fails pid is -1, and waitpid(-1) waits for any child, *)
(* which is one that mv has inherited if there is one.                     *)
Fork(is, wait) ==
    /\ \/ Works /\ child' = [is |-> is, status |-> 0]
       \/ Fail /\ child' = IF opt.inherited THEN [is |-> "inherited", status |-> 0] ELSE NoChild
    /\ Goto(wait)
    /\ UNCHANGED <<opt, kind, src, dst, readonly, blen>>

ForkCp == pc = "forkcp" /\ Fork("cp", "waitcp")
ForkRm == pc = "forkrm" /\ Fork("rm", "waitrm")

(* What the child has done when it ends: its work, and exit 0; or a part   *)
(* of it or nothing (no exec), and another status.  It goes on when mv has *)
(* been killed.                                                            *)
ChildEnds ==
    /\ pc \in {"waitcp", "waitrm", "killed"} /\ child.is \in {"cp", "rm", "inherited"}
    /\ \/ /\ Works
          /\ child' = [is |-> "ended", status |-> 0]
          /\ dst' = IF child.is = "cp" THEN [dst EXCEPT ![n] = "whole"] ELSE dst
          /\ src' = IF child.is = "rm" THEN [src EXCEPT ![n] = "gone"] ELSE src
       \/ /\ Fail
          /\ child' = [is |-> "ended", status |-> 1]
          /\ dst' \in IF child.is = "cp" THEN {dst, [dst EXCEPT ![n] = "part"]} ELSE {dst}
          /\ src' \in IF child.is = "rm" THEN {src, [src EXCEPT ![n] = "part"]} ELSE {src}
    /\ UNCHANGED <<opt, kind, readonly, n, pc, rval, pos, blen, why>>

\* Wrong variant: the status of cp is not looked at.
WaitCpAny ==
    /\ pc = "waitcp" /\ child.is \in {"ended", "none"}
    /\ child' = NoChild
    /\ Goto("forkrm")
    /\ UNCHANGED <<opt, kind, src, dst, readonly, blen, fails>>

\* waitpid() fails if there is no child; a child killed by a signal is an error too.
WaitCp ==
    /\ pc = "waitcp" /\ child.is \in {"ended", "none"}
    /\ child' = NoChild
    /\ IF child = [is |-> "ended", status |-> 0] THEN Goto("forkrm") ELSE Return(1, "cp")
    /\ UNCHANGED <<opt, kind, src, dst, readonly, blen, fails>>

WaitRm ==
    /\ pc = "waitrm" /\ child.is \in {"ended", "none"}
    /\ child' = NoChild
    /\ IF child = [is |-> "ended", status |-> 0] THEN Return(0, "done") ELSE Return(1, "rm")
    /\ UNCHANGED <<opt, kind, src, dst, readonly, blen, fails>>

Killed ==
    /\ pc \notin Ended
    /\ pc' = "killed"
    /\ UNCHANGED <<opt, kind, src, dst, readonly, n, rval, pos, blen, child, fails, why>>

-----------------------------------------------------------------------------
Step ==
    \/ Access \/ Prompt \/ Rename \/ RemoveTarget \/ LstatFrom
    \/ Open \/ Malloc \/ Copy \/ Undo \/ Close \/ UnlinkFrom
    \/ ForkCp \/ ForkRm \/ ChildEnds \/ WaitCp \/ WaitRm

Next == Step \/ Killed

Spec == Init /\ [][Next]_vars

-----------------------------------------------------------------------------
(* Every variable of the model stays in its range; fastcopy() never copies *)
(* more blocks than the source has.                                        *)
TypeOK ==
    /\ opt \in [f : BOOLEAN, i : BOOLEAN, tty : BOOLEAN, inherited : BOOLEAN]
    /\ kind \in [Files -> [reg : BOOLEAN, same : BOOLEAN]]
    /\ src \in [Files -> {"whole", "part", "gone"}]
    /\ dst \in [Files -> {"none", "old", "link", "part", "whole"}]
    /\ readonly \in [Files -> BOOLEAN]
    /\ n \in Files /\ rval \in 0..1 /\ pos \in 0..Blocks /\ fails \in 0..MaxFails
    /\ pc \in {"access", "prompt", "rename", "remove", "lstat", "open", "malloc", "copy",
               "undo", "close", "unlink", "forkcp", "waitcp", "forkrm", "waitrm"} \cup Ended
    /\ blen \in BOOLEAN
    /\ child \in [is : {"none", "cp", "rm", "inherited", "ended"}, status : 0..1]
    /\ why \in [Files -> {"none", "declined", "samefile", "done", "error", "nobuffer", "stuck",
                          "unclosed", "kept", "cp", "rm"}]

(* The contents of a source are never lost: whatever fails and whenever mv *)
(* is killed, they are complete under the old name or the new one.         *)
NeverLost ==
    \A f \in Files : src[f] = "whole" \/ dst[f] = "whole"

(* mv exits with 0 only if each source has its contents under the new name *)
(* and no longer under the old one; or the user did not want it, or both   *)
(* names were links to one file.                                           *)
ExitTrue ==
    pc = "exit" /\ rval = 0 =>
        \A f \in Files : \/ src[f] = "gone" /\ dst[f] = "whole"
                         \/ why[f] \in {"declined", "samefile"} /\ src[f] = "whole"

(* A part of a regular file is left under the new name only if mv was      *)
(* killed, or had no buffer, or could not close or remove it.              *)
NoPartLeft ==
    \A f \in Files :
        kind[f].reg /\ dst[f] = "part" /\ why[f] # "none" =>
            why[f] \in {"nobuffer", "unclosed", "stuck"}

\* The sources and targets, as others see them.
Move == INSTANCE AbstractMove WITH
            same <- [f \in Files |-> kind[f].same], s <- src,
            d <- [f \in Files |-> IF dst[f] = "link" THEN "old" ELSE dst[f]]

(* Seen from outside, at any moment and whatever fails, do_move() handles  *)
(* each source as AbstractMove says: the target is spoilt only while the   *)
(* source is whole, and the source goes only when the target is whole; on  *)
(* one file system it all happens at once or not at all, so that no reader *)
(* and no crash finds the target missing.                                  *)
ImplementsAbstractMove == Move!Spec

=============================================================================
