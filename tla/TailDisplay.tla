----------------------------- MODULE TailDisplay -----------------------------
(***************************************************************************)
(* usr.bin/tail: what is displayed before the file is followed.  The input *)
(* is a number of bytes, size, and the set nl of the positions, from 1,    *)
(* that hold a newline.  A byte is known by its position, so what is       *)
(* written is a sequence of positions.                                     *)
(***************************************************************************)
EXTENDS Integers, SequencesExt

CONSTANTS
    MMAP_MAXSIZE,   \* the most that rlines() maps at a time
    PAGE,           \* the size of a page
    BSZ             \* the size of a block in r_buf()

ASSUME TailDisplayAssumption ==
    /\ {MMAP_MAXSIZE, PAGE, BSZ} \subseteq Nat \ {0}
    /\ MMAP_MAXSIZE % PAGE = 0

\* Positions, or indices, from a up to b and from b down to a.
Span(a, b) == [i \in 1..(b - a + 1) |-> a + i - 1]
Down(b, a) == Reverse(Span(a, b))

\* The k-th largest element of S.
KthLast(S, k) == CHOOSE x \in S : Cardinality({y \in S : y >= x}) = k

-----------------------------------------------------------------------------
(* The reference: lines start at 1 and after each newline but the last     *)
(* byte's.                                                                 *)
Starts(nl, size) == {p \in 1..size : p = 1 \/ p - 1 \in nl}

LineFrom(nl, size, p) ==
    Span(p, Min({q - 1 : q \in {x \in Starts(nl, size) : x > p}} \cup {size}))

LastLines(nl, size, off) ==
    LET S == Starts(nl, size) IN
    Span(IF Cardinality(S) <= off THEN 1 ELSE IF off = 0 THEN size + 1 ELSE KthLast(S, off), size)

LastBytes(size, off) == Span(Max({1, size - off + 1}), size)

AfterLines(nl, size, off) ==
    LET S == Starts(nl, size) IN
    Span(IF Cardinality(S) <= off THEN size + 1
         ELSE KthLast(S, Cardinality(S) - off), size)

\* The lines of the bytes w, a span that ends the input, the last one first.
Reversed(nl, w) ==
    LET Breaks == {i \in 1..Len(w) : i = 1 \/ w[i - 1] \in nl}
        LineAt(i) == SubSeq(w, i, Min({j - 1 : j \in {x \in Breaks : x > i}} \cup {Len(w)}))
    IN  FlattenSeq([k \in 1..Cardinality(Breaks) |-> LineAt(KthLast(Breaks, k))])

-----------------------------------------------------------------------------
(* The offset that rlines() maps a large file from is a multiple of the    *)
(* page size only by chance, and on Linux mmap() fails if it is not.       *)
MmapFails(size) == size > MMAP_MAXSIZE /\ (size - MMAP_MAXSIZE) % PAGE # 0

(* rlines(): the file is mapped and searched backwards, at most            *)
(* MMAP_MAXSIZE bytes at a time.  The last byte of what is mapped is not   *)
(* looked at.  s.rem bytes are left and s.off newlines still to be found;  *)
(* s.from is where to write from, once it is known.                        *)
SearchChunk(nl, s) ==
    LET mmap_size == Min({MMAP_MAXSIZE, s.rem})
        Found == nl \cap ((s.rem - mmap_size + 1)..(s.rem - 1))
    IN  CASE s.from # 0 -> s
          [] s.from = 0 /\ Cardinality(Found) >= s.off ->
                [s EXCEPT !.from = KthLast(Found, s.off) + 1]
          [] s.from = 0 /\ Cardinality(Found) < s.off ->
                IF s.rem = mmap_size THEN [s EXCEPT !.from = 1]
                ELSE [s EXCEPT !.rem = @ - mmap_size, !.off = @ - Cardinality(Found)]

(* The result: from where to where it writes; the rest of the file is read *)
(* afterwards.  There are no more chunks than bytes.                       *)
rlines(nl, size, off) ==
    LET Scan[n \in 0..size] ==
            IF n = 0 THEN [rem |-> size, off |-> off, from |-> 0] ELSE SearchChunk(nl, Scan[n - 1])
    IN  <<Scan[size].from, Scan[size].rem>>

\* Wrong variant: the buffer does not wrap at its end.
FillBytesLate(size, off) ==
    FoldLeft(LAMBDA b, ch : [buf |-> b.buf @@ (b.p :> ch),
                             p |-> IF b.p + 1 > off THEN 0 ELSE b.p + 1,
                             wrap |-> b.wrap \/ b.p + 1 > off],
             [buf |-> <<>>, p |-> 0, wrap |-> FALSE], Span(1, size))

\* displaybytes(): the input goes round in a buffer of off bytes.
FillBytes(size, off) ==
    FoldLeft(LAMBDA b, ch : [buf |-> (b.p :> ch) @@ b.buf,
                             p |-> (b.p + 1) % off,
                             wrap |-> b.wrap \/ b.p + 1 = off],
             [buf |-> <<>>, p |-> 0, wrap |-> FALSE], Span(1, size))

\* What WR() writes: len bytes of the buffer from index t.
WR(buf, t, len) == [i \in 1..len |-> buf[t + i - 1]]

\* The buffer in order: from p to its end if it has wrapped, then up to p.
displaybytes(size, off) ==
    LET b == FillBytes(size, off) IN
    (IF b.wrap THEN WR(b.buf, b.p, off - b.p) ELSE <<>>) \o WR(b.buf, 0, b.p)

(* The same with rflag: lines from the last to the first, one of which may *)
(* go round the end of the buffer.  What the first loop leaves, the first  *)
(* line, is written only if the buffer has wrapped.                        *)
rdisplaybytes(nl, size, off) ==
    LET b == FillBytes(size, off)
        first == FoldLeft(LAMBDA s, t :
                     IF b.buf[t] \in nl /\ s.len > 0
                     THEN [len |-> 1, out |-> s.out \o WR(b.buf, t + 1, s.len)]
                     ELSE [s EXCEPT !.len = @ + 1],
                     [len |-> 0, out |-> <<>>], Down(b.p - 1, 0))
        second == FoldLeft(LAMBDA s, t :
                     IF b.buf[t] \in nl
                     THEN [len |-> 1, tlen |-> 0,
                           out |-> s.out \o WR(b.buf, t + 1, s.len) \o WR(b.buf, 0, s.tlen)]
                     ELSE [s EXCEPT !.len = @ + 1],
                     [len |-> 0, tlen |-> first.len, out |-> first.out], Down(off - 1, b.p))
    IN  IF b.wrap THEN second.out \o WR(b.buf, b.p, second.len) \o WR(b.buf, 0, second.tlen)
        ELSE first.out

-----------------------------------------------------------------------------
\* displaylines(): the lines go round in an array of off of them.
PutLine(l, off) ==
    [lines |-> (l.recno :> l.cur) @@ l.lines, cur |-> <<>>,
     recno |-> (l.recno + 1) % off, wrap |-> l.wrap \/ l.recno + 1 = off]

FillLines(nl, size, off) ==
    LET read == FoldLeft(LAMBDA l, ch :
                    LET m == [l EXCEPT !.cur = Append(@, ch)] IN
                    IF ch \in nl THEN PutLine(m, off) ELSE m,
                    [lines |-> <<>>, cur |-> <<>>, recno |-> 0, wrap |-> FALSE], Span(1, size))
    IN  IF read.cur # <<>> THEN PutLine(read, off) ELSE read

LinesAt(l, idx) == FlattenSeq([i \in 1..Len(idx) |-> l.lines[idx[i]]])

displaylines(nl, size, off) ==
    LET l == FillLines(nl, size, off) IN
    LinesAt(l, (IF l.wrap THEN Span(l.recno, off - 1) ELSE <<>>) \o Span(0, l.recno - 1))

rdisplaylines(nl, size, off) ==
    LET l == FillLines(nl, size, off) IN
    LinesAt(l, Down(l.recno - 1, 0) \o (IF l.wrap THEN Down(off - 1, l.recno) ELSE <<>>))

-----------------------------------------------------------------------------
(* r_reg(): the whole file is mapped and gone through backwards; the last  *)
(* byte is not looked at.                                                  *)
r_reg(nl, file_size, style, off) ==
    LET size == IF style = "RBYTES" /\ off < file_size THEN off ELSE file_size
        end == FoldLeft(LAMBDA s, p :
                   IF s.off = 0 THEN s
                   ELSE IF p \in nl
                   THEN LET o == IF style = "RLINES" THEN s.off - 1 ELSE s.off IN
                        [out |-> s.out \o Span(p + 1, p + s.llen), off |-> o, p |-> p,
                         llen |-> IF o = 0 THEN 0 ELSE 1]
                   ELSE [s EXCEPT !.llen = @ + 1, !.p = p],
                   [out |-> <<>>, llen |-> 1, p |-> file_size,
                    off |-> IF style = "REVERSE" THEN 1 ELSE off],
                   Down(file_size - 1, file_size - size + 1))
    IN  IF file_size = 0 THEN <<>> ELSE end.out \o Span(end.p, end.p + end.llen - 1)
-----------------------------------------------------------------------------
(* r_buf(): the input is kept in a ring of blocks; malloc() gives mem of   *)
(* them, and then the oldest is used again.  If the input ends with a      *)
(* block, one more is taken from malloc() and its len is never set: it is  *)
(* then what the memory held, garbage.                                     *)
Block(size, k) == Span((k - 1) * BSZ + 1, Min({k * BSZ, size}))

(* The ring when all is read, in its order from mark: what each block      *)
(* holds, and the newest block tl.                                         *)
FillRing(size, mem, garbage) ==
    LET full == size \div BSZ
        last == IF size % BSZ = 0 THEN full ELSE full + 1     \* blocks with data
        n == IF last < full + 1 /\ full < mem THEN full + 1 ELSE Min({last, mem})
        newest(i) == CHOOSE k \in (last - mem + 1)..last : (k - i) % mem = 0
    IN  [n |-> n, tl |-> IF last = 0 THEN 1 ELSE ((last - 1) % mem) + 1,
         l |-> [i \in 1..n |-> IF i > last THEN [j \in 1..garbage |-> 0]
                               ELSE Block(size, IF last <= mem THEN i ELSE newest(i))]]

(* The blocks are gone through backwards from the newest, mark; len is     *)
(* what is left of each.  At a newline the line after it is written: the   *)
(* rest of this block, then the blocks after it.                           *)
r_buf(nl, size, mem, garbage) ==
    LET ring == FillRing(size, mem, garbage)
        mark == ring.tl
        next(i) == (i % ring.n) + 1
        Flush(s, i) ==
            LET F[k \in 0..ring.n, tr \in 1..ring.n] ==
                    IF k = 0 \/ s.len[tr] = 0 THEN {}
                    ELSE {k} \cup (IF tr = mark THEN {} ELSE F[k - 1, next(tr)])
                cnt == Cardinality(F[ring.n, i])
                idx == [j \in 1..cnt |-> ((i + j - 2) % ring.n) + 1]
            IN  [len |-> [b \in 1..ring.n |-> IF b \in ToSet(idx) THEN 0 ELSE s.len[b]],
                 out |-> s.out \o FlattenSeq([j \in 1..cnt |->
                                     SubSeq(ring.l[idx[j]], 1, s.len[idx[j]])])]
        OneBlock(s, i) ==
            LET e == FoldLeft(LAMBDA a, p :
                         IF ring.l[i][p] \in nl
                         THEN LET w == [len |-> a.s.len,
                                        out |-> a.s.out \o SubSeq(ring.l[i], p + 1, p + a.llen)]
                              IN  [s |-> IF i = mark THEN w ELSE Flush(w, next(i)), llen |-> 1]
                         ELSE [a EXCEPT !.llen = @ + 1],
                         [s |-> s, llen |-> 0], Down(s.len[i], 1))
            IN  [e.s EXCEPT !.len[i] = e.llen]
        back == [k \in 1..ring.n |-> ((mark - k) % ring.n) + 1]
        s0 == [len |-> [i \in 1..ring.n |-> Len(ring.l[i])], out |-> <<>>]
        s1 == FoldLeft(OneBlock, s0, back)
        tl == next(mark)
    IN  IF s1.len[tl] > 0 THEN Flush(s1, tl).out ELSE Flush(s1, next(tl)).out
=============================================================================
