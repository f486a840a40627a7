----------------------------- MODULE TailProofs -----------------------------
(***************************************************************************)
(* Theorems about Tail: whatever others do to the file that is followed,   *)
(* what tail -f and tail -F show of it is in order and complete; and what  *)
(* forward() displays of an input is what the options ask for.             *)
(***************************************************************************)
EXTENDS Tail, TLAPS, FiniteSetTheorems, FunctionTheorems, SequenceTheorems, Induction
-----------------------------------------------------------------------------
(* The inductive invariant. *)

Followed == opt.fflag > 0 /\ opt.reg
Watching == pc \in {"follow", "read", "act", "freopen"}

\* The bytes there are: 0 is what mmap() shows beyond the end.
Top == opt.size + changes

Typed ==
    /\ opt \in Opts /\ changes \in Nat
    /\ content \in [Inodes -> Seq(1..Top)]
    /\ state \in [Inodes -> {"free", "named", "moved", "deleted"}]
    /\ pc \in {"open", "display", "follow", "read", "act", "freopen"} \cup Ended
    /\ sbp \in [ino : Inodes \cup {0}, size : Nat] /\ statbuf \in Inodes \cup {0}
    /\ fp \in [ino : Inodes, pos : Nat]
    /\ hist \in [first : Nat, shrunk : BOOLEAN, back : BOOLEAN, stale : BOOLEAN]
    /\ Followed /\ pc \notin Ended => out \in Seq(0..Top)

\* No byte of c is one of d.
Disjoint(c, d) == \A p \in 1..Len(c), q \in 1..Len(d) : c[p] # d[q]

\* One file has the name, and every byte is in one file.
FilesApart ==
    /\ \A i, j \in Inodes : state[i] = "named" /\ state[j] = "named" => i = j
    /\ \A i, j \in Inodes : i # j => Disjoint(content[i], content[j])

\* What the display starts from.
NothingShown ==
    /\ pc \in {"open", "display"} => out = <<>>
    /\ pc = "display" /\ ~hist.shrunk => sbp.size <= Len(content[fp.ino])

\* tail knows which file it has open, and it is not given to anybody else.
KnowsFile ==
    Open => /\ state[fp.ino] # "free"
            /\ ~hist.stale => sbp.ino = fp.ino
            /\ pc = "freopen" => statbuf # sbp.ino

\* Nothing of another file that has the name has been shown.
OtherUnseen ==
    Open /\ Followed /\ ~hist.back /\ ~hist.stale =>
        \A i \in Inodes : state[i] = "named" /\ i # fp.ino => Disjoint(out, content[i])

\* ShownInOrder, of the bytes c of a file and the output o.
Shown(c, o, first, pos) ==
    /\ first <= pos /\ pos <= Len(c) /\ Len(o) - (pos - first) >= 0
    /\ \A j \in 1..(Len(o) - (pos - first)) : \A p \in 1..Len(c) : o[j] # c[p]
    /\ \A j \in 1..(pos - first) : o[Len(o) - (pos - first) + j] = c[first + j]

FileShown ==
    Watching /\ Followed /\ ~hist.shrunk /\ ~hist.back /\ ~hist.stale =>
        Shown(content[fp.ino], out, hist.first, fp.pos)

FollowInv == Typed /\ FilesApart /\ NothingShown /\ KnowsFile /\ OtherUnseen /\ FileShown
-----------------------------------------------------------------------------
(* What the operators make. *)

LEMMA MinMaxOfTwo ==
    ASSUME NEW a \in Int, NEW b \in Int
    PROVE  /\ Min({a, b}) = IF a <= b THEN a ELSE b
           /\ Max({a, b}) = IF a >= b THEN a ELSE b
  BY DEF Min, Max

\* The elements of S from x on.
From(S, x) == {y \in S : y >= x}

\* A set that has k elements has a k-th last one, with k elements from it on.
LEMMA KthLastThere ==
    ASSUME NEW n \in Nat, NEW S, S \subseteq 1..n, NEW k \in 1..Cardinality(S)
    PROVE  KthLast(S, k) \in S /\ Cardinality(From(S, KthLast(S, k))) = k
  <1> DEFINE T == {m \in 0..Cardinality(S) : m = 0 \/ \E x \in S : Cardinality(From(S, x)) = m}
  <1>1. IsFiniteSet(S) /\ Cardinality(S) \in Nat
    <2>1. IsFiniteSet(1..n)
      BY FS_Interval
    <2> QED
      BY <2>1, FS_Subset, FS_CardinalityType, Zenon
  <1>2. 0 \in T
    BY <1>1
  <1>3. ASSUME NEW m \in 1..Cardinality(S), m - 1 \in T PROVE m \in T
    <2> DEFINE Rest == IF m = 1 THEN S ELSE S \ From(S, CHOOSE x \in S : Cardinality(From(S, x)) = m - 1)
    <2>1. /\ Rest \subseteq S /\ Rest # {} /\ Cardinality(S \ Rest) = m - 1
          /\ \A y \in Rest, z \in S \ Rest : y < z
      <3>1. CASE m = 1
        <4>1. Rest = S /\ S \ Rest = {} /\ Cardinality({}) = 0
          BY <3>1, FS_EmptySet
        <4>2. S # {}
          BY <1>1, FS_EmptySet
        <4> HIDE DEF Rest
        <4> QED
          BY <3>1, <4>1, <4>2
      <3>2. CASE m # 1
        <4>1. \E x \in S : Cardinality(From(S, x)) = m - 1
          <5>1. m - 1 # 0
            BY <1>1, <3>2
          <5> QED
            BY <1>3, <5>1, Zenon
        <4> DEFINE x == CHOOSE v \in S : Cardinality(From(S, v)) = m - 1
        <4>2. x \in S /\ Cardinality(From(S, x)) = m - 1
          <5> QED
            BY <4>1, Zenon
        <4>3. Rest = S \ From(S, x)
          BY <3>2, Zenon
        <4> HIDE DEF x, Rest
        <4>4. S \ Rest = From(S, x) /\ Rest \subseteq S
          BY <4>3 DEF From
        <4>5. Rest # {}
          <5>1. SUFFICES ASSUME Rest = {} PROVE FALSE
            OBVIOUS
          <5>2. S \ Rest = S
            BY <5>1
          <5>3. Cardinality(S) = m - 1
            BY <4>2, <4>4, <5>2, Zenon
          <5> QED
            BY <1>1, <5>3
        <4>6. \A y \in Rest, z \in S \ Rest : y < z
          BY <4>2, <4>3 DEF From
        <4> QED
          BY <4>2, <4>4, <4>5, <4>6, Zenon
      <3> QED
        BY <3>1, <3>2, Zenon
    <2> HIDE DEF Rest
    <2>2. Rest \subseteq 0..n
      BY <2>1
    <2>3. PICK x \in Rest : \A y \in Rest : y <= x
      BY <2>1, <2>2, Greatest, Zenon
    <2>4. From(S, x) = (S \ Rest) \cup {x} /\ x \notin S \ Rest /\ x \in S
      <3>1. \A y \in S : y >= x <=> y \in (S \ Rest) \cup {x}
        <4> TAKE y \in S
        <4>1. x \in Int /\ y \in Int
          BY <2>1, <2>3
        <4>2. CASE y \in Rest
          BY <2>3, <4>1, <4>2
        <4>3. CASE y \notin Rest
          <5>1. x < y
            BY <2>1, <2>3, <4>3
          <5> QED
            BY <4>1, <4>3, <5>1
        <4> QED
          BY <4>2, <4>3
      <3> QED
        BY <2>1, <2>3, <3>1, Zenon DEF From
    <2>5. IsFiniteSet(S \ Rest)
      BY <1>1, FS_Subset, Zenon
    <2>6. Cardinality((S \ Rest) \cup {x}) = Cardinality(S \ Rest) + 1
      BY <2>4, <2>5, FS_AddElement, Zenon
    <2>7. Cardinality(From(S, x)) = m
      <3>1. Cardinality(From(S, x)) = (m - 1) + 1
        BY <2>1, <2>4, <2>6, Zenon
      <3> QED
        BY <1>1, <3>1
    <2>8. \E v \in S : Cardinality(From(S, v)) = m
      BY <2>4, <2>7, Zenon
    <2>9. m \in 0..Cardinality(S)
      BY <1>1
    <2> QED
      BY <2>8, <2>9, Zenon
  <1> HIDE DEF T
  <1>4. \A m \in 0..Cardinality(S) : m \in T
    BY <1>1, <1>2, <1>3, UpTo, Zenon
  <1>5. k \in T /\ k # 0
    BY <1>1, <1>4
  <1>6. \E x \in S : Cardinality(From(S, x)) = k
    <2> QED
      BY <1>5, Zenon DEF T
  <1>7. KthLast(S, k) = CHOOSE x \in S : Cardinality(From(S, x)) = k
    BY Zenon DEF KthLast, From
  <1>8. KthLast(S, k) \in S /\ Cardinality(From(S, KthLast(S, k))) = k
    <2> QED
      BY <1>6, <1>7, Zenon
  <1> QED
    BY <1>8, Zenon

(* Where the search of rlines() is: it has found where to write from, or   *)
(* it goes on with what is left.                                           *)
Search(size) ==
    {s \in [rem : 1..size, off : Nat \ {0}, from : 0..size] : s.from <= s.rem}

LEMMA SearchChunkWithin ==
    ASSUME NEW size \in Nat, NEW nl, nl \subseteq 1..size, NEW s \in Search(size)
    PROVE  /\ SearchChunk(nl, s) \in Search(size)
           /\ s.from # 0 => SearchChunk(nl, s) = s
           /\ s.from = 0 => \/ SearchChunk(nl, s).from # 0
                            \/ SearchChunk(nl, s).rem < s.rem
  <1> DEFINE mmap_size == Min({MMAP_MAXSIZE, s.rem})
             Found == nl \cap ((s.rem - mmap_size + 1)..(s.rem - 1))
             f == Cardinality(Found)
             k == KthLast(Found, s.off) + 1
  <1>1. s = [rem |-> s.rem, off |-> s.off, from |-> s.from] /\ s.rem \in 1..size
        /\ s.off \in Nat \ {0} /\ s.from \in 0..size /\ s.from <= s.rem
    BY DEF Search
  <1>2. ASSUME NEW r \in 1..size, NEW o \in Nat \ {0}, NEW a \in 0..size, a <= r,
               SearchChunk(nl, s) = [rem |-> r, off |-> o, from |-> a]
        PROVE  /\ SearchChunk(nl, s) \in Search(size)
               /\ SearchChunk(nl, s).from = a /\ SearchChunk(nl, s).rem = r
    BY <1>2 DEF Search
  <1>3. mmap_size \in 1..s.rem
    BY <1>1, MinMaxOfTwo, TailDisplayAssumption
  <1>4. f \in Nat
    <2>1. Found \subseteq 1..size /\ IsFiniteSet(1..size)
      BY FS_Interval
    <2> HIDE DEF Found
    <2> QED
      BY <2>1, FS_Subset, FS_CardinalityType, Zenon
  <1>5. SearchChunk(nl, s) =
            CASE s.from # 0 -> s
              [] s.from = 0 /\ f >= s.off -> [s EXCEPT !.from = k]
              [] s.from = 0 /\ f < s.off ->
                    IF s.rem = mmap_size THEN [s EXCEPT !.from = 1]
                    ELSE [s EXCEPT !.rem = @ - mmap_size, !.off = @ - f]
    BY Zenon DEF SearchChunk
  <1>6. f >= s.off => k \in 1..s.rem
    <2>1. SUFFICES ASSUME f >= s.off PROVE k \in 1..s.rem
      OBVIOUS
    <2>2. Found \subseteq 1..size /\ s.off \in 1..Cardinality(Found)
      BY <1>1, <1>4, <2>1
    <2> HIDE DEF f
    <2>3. KthLast(Found, s.off) \in Found
      <3> HIDE DEF Found
      <3> QED
        BY <2>2, KthLastThere
    <2>4. KthLast(Found, s.off) \in (s.rem - mmap_size + 1)..(s.rem - 1)
      BY <2>3, Zenon
    <2> HIDE DEF Found, mmap_size
    <2> QED
      BY <1>1, <1>3, <2>4
  <1> HIDE DEF mmap_size, Found, f, k
  <1>7. CASE s.from # 0
    BY <1>5, <1>7
  <1>8. CASE s.from = 0 /\ f >= s.off
    <2>1. SearchChunk(nl, s) = [s EXCEPT !.from = k]
      BY <1>1, <1>4, <1>5, <1>8
    <2>2. SearchChunk(nl, s) = [rem |-> s.rem, off |-> s.off, from |-> k]
      BY <1>1, <2>1, Zenon
    <2> QED
      BY <1>1, <1>6, <1>8, <1>2, <2>2
  <1>9. CASE s.from = 0 /\ f < s.off /\ s.rem = mmap_size
    <2>1. SearchChunk(nl, s) = [rem |-> s.rem, off |-> s.off, from |-> 1]
      BY <1>1, <1>4, <1>5, <1>9
    <2> QED
      BY <1>1, <1>9, <1>2, <2>1
  <1>10. CASE s.from = 0 /\ f < s.off /\ s.rem # mmap_size
    <2>1. SearchChunk(nl, s) = [s EXCEPT !.rem = @ - mmap_size, !.off = @ - f]
      BY <1>1, <1>4, <1>5, <1>10
    <2>2. SearchChunk(nl, s) = [rem |-> s.rem - mmap_size, off |-> s.off - f, from |-> 0]
      BY <1>1, <1>10, <2>1
    <2> QED
      BY <1>1, <1>3, <1>4, <1>10, <1>2, <2>2
  <1> QED
    BY <1>1, <1>4, <1>7, <1>8, <1>9, <1>10

\* The chunks that rlines() goes through, and what it makes of the last one.
Scanned(nl, size, off, scan) ==
    /\ scan[0] = [rem |-> size, off |-> off, from |-> 0]
    /\ \A k \in 1..size : scan[k - 1] \in Search(size) /\ scan[k] = SearchChunk(nl, scan[k - 1])
    /\ scan[size] \in Search(size) /\ scan[size].from # 0
    /\ rlines(nl, size, off) = <<scan[size].from, scan[size].rem>>

LEMMA RlinesScan ==
    ASSUME NEW size \in Nat \ {0}, NEW off \in Nat \ {0}, NEW nl, nl \subseteq 1..size
    PROVE  \E scan : Scanned(nl, size, off, scan)
  <1> DEFINE X == Search(size)
             x0 == [rem |-> size, off |-> off, from |-> 0]
             g == [k \in 1..size |-> [s \in X |-> SearchChunk(nl, s)]]
             Def(f) == f = [n \in 0..size |-> IF n = 0 THEN x0 ELSE SearchChunk(nl, f[n - 1])]
             scan == CHOOSE f : Def(f)
  <1>1. size \in Nat /\ x0 \in X
    BY DEF Search
  <1>2. \A s \in X : SearchChunk(nl, s) \in X
    BY <1>1, SearchChunkWithin, Zenon
  <1>3. x0.rem = size /\ x0.from = 0
    OBVIOUS
  <1> HIDE DEF X, x0
  <1>4. g \in [1..size -> [X -> X]]
    BY <1>2
  <1>5. PICK h \in [0..size -> X] : Follows(h, size, x0, g)
    <2> HIDE DEF g
    <2> QED
      BY <1>1, <1>4, Recursion
  <1>6. h[0] = x0 /\ \A k \in 1..size : h[k] = SearchChunk(nl, h[k - 1])
    <2>1. ASSUME NEW k \in 1..size PROVE h[k] = SearchChunk(nl, h[k - 1])
      <3>1. k - 1 \in 0..size
        BY <1>1
      <3>2. h[k - 1] \in X /\ h[k] = g[k][h[k - 1]]
        BY <1>5, <3>1, Zenon DEF Follows
      <3> QED
        BY <3>2, Zenon
    <2> QED
      BY <1>5, <2>1, Zenon DEF Follows
  <1>7. Def(h)
    <2>1. \A k \in 0..size : h[k] = IF k = 0 THEN x0 ELSE SearchChunk(nl, h[k - 1])
      <3>1. \A k \in 0..size : k = 0 \/ k \in 1..size
        BY <1>1
      <3> QED
        BY <1>6, <3>1, Zenon
    <2> QED
      BY <2>1
  <1>8. Def(scan)
    <2> HIDE DEF Def
    <2> QED
      BY <1>7, Zenon
  <1>9. rlines(nl, size, off) = <<scan[size].from, scan[size].rem>>
    BY Zenon DEF rlines, x0
  <1> HIDE DEF scan
  <1>10. scan[0] = x0 /\ \A k \in 1..size : scan[k] = SearchChunk(nl, scan[k - 1])
    BY <1>1, <1>8
  <1> DEFINE T == {k \in 0..size : /\ scan[k] \in X
                                   /\ scan[k].from = 0 => scan[k].rem <= size - k}
  <1>11. 0 \in T
    BY <1>1, <1>10, <1>3
  <1>12. ASSUME NEW k \in 1..size, k - 1 \in T PROVE k \in T
    <2> DEFINE s == scan[k - 1]
               t == scan[k]
    <2>1. s \in X /\ (s.from = 0 => s.rem <= size - (k - 1)) /\ t = SearchChunk(nl, s)
      BY <1>10, <1>12
    <2> HIDE DEF s, t
    <2>2. t \in X /\ (s.from # 0 => t = s) /\ (s.from = 0 => t.from # 0 \/ t.rem < s.rem)
      BY <1>1, <2>1, SearchChunkWithin, Zenon DEF X
    <2>3. s.rem \in Int /\ t.rem \in Int
      BY <2>1, <2>2 DEF X, Search
    <2>4. t.from = 0 => t.rem <= size - k
      BY <2>1, <2>2, <2>3
    <2> QED
      BY <2>2, <2>4 DEF t
  <1> HIDE DEF T
  <1>13. \A k \in 0..size : k \in T
    BY <1>1, <1>11, <1>12, UpTo, Zenon
  <1>14. size \in T
    BY <1>1, <1>13
  <1> DEFINE e == scan[size]
  <1>15. e \in X /\ (e.from = 0 => e.rem <= size - size)
    BY <1>14 DEF T
  <1> HIDE DEF e
  <1>16. e \in X /\ e.from # 0
    BY <1>15 DEF X, Search
  <1>17. \A k \in 1..size : scan[k - 1] \in X
    <2> TAKE k \in 1..size
    <2>1. k - 1 \in T
      BY <1>13
    <2> QED
      BY <2>1 DEF T
  <1>18. Scanned(nl, size, off, scan)
    BY <1>9, <1>10, <1>16, <1>17, Zenon DEF Scanned, X, x0, e
  <1> QED
    BY <1>18, Zenon

\* rlines() writes from a byte of the file to one that is not before it.
LEMMA RlinesWithin ==
    ASSUME NEW size \in Nat \ {0}, NEW off \in Nat \ {0}, NEW nl, nl \subseteq 1..size
    PROVE  LET r == rlines(nl, size, off) IN
           r[1] \in 1..size /\ r[2] \in 1..size /\ r[1] <= r[2]
  <1>1. PICK scan : Scanned(nl, size, off, scan)
    BY RlinesScan
  <1> DEFINE e == scan[size]
  <1>2. e \in Search(size) /\ e.from # 0 /\ rlines(nl, size, off) = <<e.from, e.rem>>
    BY <1>1, Zenon DEF Scanned
  <1> HIDE DEF e
  <1>3. e.from \in 1..size /\ e.rem \in 1..size /\ e.from <= e.rem
    BY <1>2 DEF Search
  <1> QED
    BY <1>2, <1>3
-----------------------------------------------------------------------------
(* What is shown. *)

\* Nothing of the file has been shown yet.
LEMMA ShownNothing ==
    ASSUME NEW c, Len(c) \in Nat, NEW o, Len(o) \in Nat, Disjoint(o, c), NEW pos \in 0..Len(c)
    PROVE  Shown(c, o, pos, pos)
  BY DEF Shown, Disjoint

\* A part of the file has been written.
LEMMA ShownPart ==
    ASSUME NEW c, Len(c) \in Nat, NEW a \in 1..Len(c), NEW b \in a..Len(c), NEW o,
           o = [k \in 1..(b - a + 1) |-> c[a + k - 1]]
    PROVE  Shown(c, o, a - 1, b)
  <1>1. b - a + 1 \in Nat /\ b - (a - 1) = b - a + 1
    OBVIOUS
  <1>2. Len(o) = b - a + 1
    BY <1>1
  <1>3. \A j \in 1..(b - a + 1) : o[Len(o) - (b - (a - 1)) + j] = c[(a - 1) + j]
    <2> TAKE j \in 1..(b - a + 1)
    <2>1. Len(o) - (b - (a - 1)) + j = j /\ (a - 1) + j = a + j - 1
      BY <1>2
    <2>2. o[j] = c[a + j - 1]
      OBVIOUS
    <2> QED
      BY <2>1, <2>2
  <1> QED
    BY <1>1, <1>2, <1>3 DEF Shown

\* The rest of the file is written.
LEMMA ShownRest ==
    ASSUME NEW C, NEW c \in Seq(C), NEW o \in Seq(C), NEW first \in Nat, NEW pos \in Nat,
           Shown(c, o, first, pos)
    PROVE  Shown(c, o \o SubSeq(c, pos + 1, Len(c)), first, Len(c))
  <1> DEFINE l == Len(c)
             r == SubSeq(c, pos + 1, l)
             w == o \o r
             n == pos - first
             m == Len(o)
  <1>1. l \in Nat /\ m \in Nat /\ n \in Nat /\ pos <= l /\ m - n >= 0 /\ first + n = pos
    BY DEF Shown
  <1>2. r \in Seq(C) /\ Len(r) = l - pos /\ \A j \in 1..(l - pos) : r[j] = c[pos + j]
    <2>1. pos + 1 \in Int /\ l \in Int /\ \A i \in (pos + 1)..l : c[i] \in C
      BY <1>1
    <2> HIDE DEF l
    <2>2. /\ r \in Seq(C)
          /\ Len(r) = IF pos + 1 <= l THEN l - (pos + 1) + 1 ELSE 0
          /\ \A i \in 1..(l - (pos + 1) + 1) : r[i] = c[(pos + 1) + i - 1]
      BY <2>1, SubSeqProperties, SMTT(60)
    <2>3. \A j \in 1..(l - pos) : r[j] = c[pos + j]
      <3> TAKE j \in 1..(l - pos)
      <3>1. j \in 1..(l - (pos + 1) + 1) /\ (pos + 1) + j - 1 = pos + j
        BY <1>1
      <3>2. r[j] = c[(pos + 1) + j - 1]
        BY <2>2, <3>1, Zenon
      <3> QED
        BY <3>1, <3>2
    <2> QED
      BY <1>1, <2>2, <2>3, SMTT(60)
  <1> HIDE DEF r
  <1>3. /\ Len(w) = m + (l - pos)
        /\ \A j \in 1..(m + (l - pos)) : w[j] = IF j <= m THEN o[j] ELSE r[j - m]
    <2> HIDE DEF l
    <2>1. /\ Len(w) = Len(o) + Len(r)
          /\ \A j \in 1..(Len(o) + Len(r)) :
                w[j] = IF j <= Len(o) THEN o[j] ELSE r[j - Len(o)]
      BY <1>2, ConcatProperties
    <2> HIDE DEF w
    <2> QED
      BY <1>2, <2>1, Zenon
  <1>4. /\ \A j \in 1..(m - n) : \A p \in 1..l : o[j] # c[p]
        /\ \A j \in 1..n : o[m - n + j] = c[first + j]
    BY DEF Shown
  <1> HIDE DEF w, l, n, m
  <1>5. Len(w) - (l - first) = m - n
    BY <1>1, <1>3 DEF n
  <1>6. \A j \in 1..(m - n) : \A p \in 1..l : w[j] # c[p]
    <2> TAKE j \in 1..(m - n)
    <2>1. j \in 1..(m + (l - pos)) /\ j <= m
      BY <1>1
    <2> QED
      BY <1>3, <1>4, <2>1
  <1>7. \A j \in 1..(l - first) : w[m - n + j] = c[first + j]
    <2> TAKE j \in 1..(l - first)
    <2> DEFINE i == m - n + j
    <2>1. i \in 1..(m + (l - pos))
      BY <1>1
    <2>2. CASE j <= n
      <3>1. i <= m /\ j \in 1..n
        BY <1>1, <2>2
      <3> QED
        BY <1>3, <1>4, <2>1, <3>1
    <2>3. CASE j > n
      <3>1. ~(i <= m) /\ i - m \in 1..(l - pos) /\ pos + (i - m) = first + j
        BY <1>1, <2>3
      <3>2. w[i] = r[i - m] /\ r[i - m] = c[pos + (i - m)]
        BY <1>2, <1>3, <2>1, <3>1
      <3> HIDE DEF i
      <3> QED
        BY <3>1, <3>2 DEF i
    <2> QED
      BY <1>1, <2>2, <2>3
  <1>8. first <= l /\ Len(w) - (l - first) >= 0
    BY <1>1, <1>5
  <1>9. Shown(c, w, first, l)
    <2>1. l <= l
      BY <1>1
    <2>2. /\ \A j \in 1..(Len(w) - (l - first)) : \A p \in 1..l : w[j] # c[p]
          /\ \A j \in 1..(l - first) : w[Len(w) - (l - first) + j] = c[first + j]
      BY <1>5, <1>6, <1>7, Zenon
    <2> QED
      BY <1>8, <2>1, <2>2, Zenon DEF Shown, l
  <1> QED
    BY <1>9 DEF w, r, l

\* A new byte at the end of the file.
LEMMA ShownMore ==
    ASSUME NEW C, NEW c \in Seq(C), NEW b \in C, NEW o, Len(o) \in Nat,
           \A j \in 1..Len(o) : o[j] # b, NEW first \in Nat, NEW pos \in Nat,
           Shown(c, o, first, pos)
    PROVE  Shown(Append(c, b), o, first, pos)
  <1>1. /\ Len(c) \in Nat /\ Len(Append(c, b)) = Len(c) + 1 /\ Append(c, b)[Len(c) + 1] = b
        /\ \A p \in 1..Len(c) : Append(c, b)[p] = c[p]
    OBVIOUS
  <1> DEFINE d == Append(c, b)
             l == Len(c)
             m == Len(o) - (pos - first)
  <1>2. first <= pos /\ pos <= l /\ m >= 0 /\ m \in Int /\ m <= Len(o)
    BY <1>1 DEF Shown
  <1>3. /\ \A j \in 1..m : \A p \in 1..l : o[j] # c[p]
        /\ \A j \in 1..(pos - first) : o[m + j] = c[first + j]
    BY DEF Shown
  <1>4. /\ Len(d) = l + 1 /\ d[l + 1] = b /\ l \in Nat
        /\ \A p \in 1..l : d[p] = c[p]
    BY <1>1
  <1> HIDE DEF d, l, m
  <1>5. \A j \in 1..m : \A p \in 1..(l + 1) : o[j] # d[p]
    <2> TAKE j \in 1..m
    <2> TAKE p \in 1..(l + 1)
    <2>1. j \in 1..Len(o)
      BY <1>2
    <2>2. CASE p = l + 1
      BY <1>4, <2>1, <2>2
    <2>3. CASE p # l + 1
      <3>1. p \in 1..l
        BY <1>4, <2>3
      <3> QED
        BY <1>3, <1>4, <3>1
    <2> QED
      BY <2>2, <2>3
  <1>6. \A j \in 1..(pos - first) : o[m + j] = d[first + j]
    <2> TAKE j \in 1..(pos - first)
    <2>1. first + j \in 1..l
      BY <1>2, <1>4
    <2> QED
      BY <1>3, <1>4, <2>1
  <1>7. pos <= l + 1
    BY <1>2, <1>4
  <1>8. Shown(d, o, first, pos)
    BY <1>2, <1>4, <1>5, <1>6, <1>7 DEF Shown, m
  <1> QED
    BY <1>8 DEF d
-----------------------------------------------------------------------------
(* The steps of tail. *)

\* What the files and the output were, they still are.
Kept == UNCHANGED <<opt, content, state, changes, out>>

LEMMA TopNat == ASSUME Typed PROVE Top \in Nat
  <1>1. opt \in Opts /\ changes \in Nat
    BY Zenon DEF Typed
  <1>2. opt.size \in Nat
    BY <1>1, OptsAssumption
  <1> QED
    BY <1>1, <1>2 DEF Top

LEMMA StartFollow == ASSUME Init PROVE FollowInv
  <1>1. /\ opt \in Opts /\ pc = "open" /\ out = <<>> /\ changes = 0
        /\ content = [i \in Inodes |-> IF i = 1 THEN Span(1, opt.size) ELSE <<>>]
        /\ state = [i \in Inodes |-> IF i = 1 THEN "named" ELSE "free"]
        /\ sbp = [ino |-> 0, size |-> 0] /\ statbuf = 0 /\ fp = [ino |-> 1, pos |-> 0]
        /\ hist = [first |-> 0, shrunk |-> FALSE, back |-> FALSE, stale |-> FALSE]
    BY Zenon DEF Init
  <1>2. opt.size \in Nat /\ 1 \in Inodes
    BY <1>1, OptsAssumption, TailAssumption
  <1>3. Span(1, opt.size) \in Seq(1..opt.size) /\ Top = opt.size
    BY <1>1, <1>2 DEF Span, Top
  <1>4. content \in [Inodes -> Seq(1..Top)]
    <2>1. <<>> \in Seq(1..Top)
      OBVIOUS
    <2> QED
      BY <1>1, <1>3, <2>1, Zenon
  <1>5. out \in Seq(0..Top)
    BY <1>1
  <1>6. hist \in [first : Nat, shrunk : BOOLEAN, back : BOOLEAN, stale : BOOLEAN]
    BY <1>1
  <1>7. state \in [Inodes -> {"free", "named", "moved", "deleted"}]
    BY <1>1
  <1>8. sbp \in [ino : Inodes \cup {0}, size : Nat] /\ statbuf \in Inodes \cup {0}
        /\ fp \in [ino : Inodes, pos : Nat] /\ changes \in Nat
    BY <1>1, <1>2
  <1>9. Typed
    BY <1>1, <1>4, <1>5, <1>6, <1>7, <1>8, Zenon DEF Typed
  <1>10. FilesApart
    <2>1. \A i, j \in Inodes : i # j => Disjoint(content[i], content[j])
      <3> TAKE i, j \in Inodes
      <3> HAVE i # j
      <3>1. content[i] = <<>> \/ content[j] = <<>>
        BY <1>1
      <3> QED
        BY <3>1 DEF Disjoint
    <2>2. \A i, j \in Inodes : state[i] = "named" /\ state[j] = "named" => i = j
      BY <1>1
    <2> QED
      BY <2>1, <2>2, Zenon DEF FilesApart
  <1>11. NothingShown /\ KnowsFile /\ OtherUnseen /\ FileShown
    BY <1>1 DEF NothingShown, KnowsFile, OtherUnseen, FileShown, Open, Watching
  <1> QED
    BY <1>9, <1>10, <1>11, Zenon DEF FollowInv

\* A step of the loop that neither reads nor opens.
LEMMA QuietKeeps ==
    ASSUME FollowInv, Kept, UNCHANGED <<sbp, fp, hist>>, statbuf' \in Inodes \cup {0},
           Watching, Watching' \/ pc' = "error", pc' = "freopen" => statbuf' # sbp.ino
    PROVE  FollowInv'
  <1>1. Typed'
    <2>1. pc \notin Ended /\ pc' \in {"open", "display", "follow", "read", "act", "freopen"} \cup Ended
      BY DEF Watching, Ended
    <2> QED
      BY <2>1, Zenon DEF FollowInv, Typed, Kept, Top, Followed
  <1>2. FilesApart'
    BY Zenon DEF FollowInv, FilesApart, Kept
  <1>3. NothingShown'
    BY DEF NothingShown, Watching
  <1>4. Open
    BY DEF Open, Watching, Ended
  <1>5. KnowsFile'
    BY <1>4, Zenon DEF FollowInv, KnowsFile, Kept
  <1>6. OtherUnseen'
    BY <1>4, Zenon DEF FollowInv, OtherUnseen, Kept, Followed
  <1>7. FileShown'
    BY Zenon DEF FollowInv, FileShown, Kept, Followed
  <1> QED
    BY <1>1, <1>2, <1>3, <1>5, <1>6, <1>7, Zenon DEF FollowInv

\* tail ends.
LEMMA EndKeeps ==
    ASSUME FollowInv, UNCHANGED <<opt, content, state, changes, sbp, statbuf, fp, hist>>,
           pc' \in Ended
    PROVE  FollowInv'
  <1>1. Typed' /\ FilesApart'
    BY Zenon DEF FollowInv, Typed, Top, FilesApart
  <1>2. NothingShown' /\ KnowsFile' /\ OtherUnseen' /\ FileShown'
    BY DEF NothingShown, KnowsFile, OtherUnseen, FileShown, Open, Watching, Ended
  <1> QED
    BY <1>1, <1>2, Zenon DEF FollowInv

LEMMA OpenKeeps == ASSUME FollowInv, FopenFstat PROVE FollowInv'
  <1>1. /\ pc = "open" /\ UNCHANGED <<opt, content, state, changes, statbuf, out, hist>>
    BY Zenon DEF FopenFstat, world
  <1>2. CASE Named = {}
    <2>1. pc' \in Ended /\ UNCHANGED <<fp, sbp>>
      BY <1>2 DEF FopenFstat, Ended
    <2> QED
      BY <1>1, <2>1, EndKeeps
  <1>3. CASE Named # {}
    <2>1. PICK i \in Named : /\ fp' = [ino |-> i, pos |-> 0]
                             /\ sbp' = [ino |-> i, size |-> Len(content[i])]
                             /\ pc' = "display"
      BY <1>3, Zenon DEF FopenFstat
    <2>2. i \in Inodes /\ state[i] = "named"
      BY DEF Named
    <2>3. out = <<>> /\ content[i] \in Seq(1..Top) /\ Len(content[i]) \in Nat
      BY <1>1, <2>2 DEF FollowInv, NothingShown, Typed
    <2>4. /\ fp'.ino = i /\ sbp'.ino = i /\ sbp'.size = Len(content[i])
          /\ fp' \in [ino : Inodes, pos : Nat] /\ sbp' \in [ino : Inodes \cup {0}, size : Nat]
      BY <2>1, <2>2, <2>3
    <2>5. Typed'
      <3>1. out' \in Seq(0..Top) /\ pc' \in {"display"}
        BY <1>1, <2>1, <2>3
      <3> QED
        BY <1>1, <2>4, <3>1, Zenon DEF FollowInv, Typed, Top
    <2>6. FilesApart'
      BY <1>1, Zenon DEF FollowInv, FilesApart
    <2>7. NothingShown'
      <3>1. Len(content[i]) <= Len(content[i])
        BY <2>3
      <3> QED
        BY <1>1, <2>3, <2>4, <3>1, Zenon DEF NothingShown
    <2>8. KnowsFile'
      <3>1. "named" # "free" /\ "display" # "freopen"
        OBVIOUS
      <3> QED
        BY <1>1, <2>1, <2>2, <2>4, <3>1, Zenon DEF KnowsFile
    <2>9. OtherUnseen' /\ FileShown'
      <3>1. \A c : Disjoint(out', c)
        BY <1>1, <2>3 DEF Disjoint
      <3>2. ~Watching'
        BY <2>1 DEF Watching
      <3> QED
        BY <3>1, <3>2, Zenon DEF OtherUnseen, FileShown
    <2> QED
      BY <2>5, <2>6, <2>7, <2>8, <2>9, Zenon DEF FollowInv
  <1> QED
    BY <1>2, <1>3

(* The display: out is written, the rest is read from pos, and what is of  *)
(* the file in out is what comes after first.                              *)
LEMMA DisplayKeeps ==
    ASSUME FollowInv, pc = "display", pc' = "follow",
           UNCHANGED <<opt, content, state, changes, sbp, statbuf>>,
           NEW first \in Nat, NEW pos \in Nat,
           fp' = [fp EXCEPT !.pos = pos], hist' = [hist EXCEPT !.first = first],
           Followed => /\ out' \in Seq(0..Top)
                       /\ \A j \in 1..Len(out') :
                             \/ out'[j] = 0
                             \/ \E p \in 1..Len(content[fp.ino]) : out'[j] = content[fp.ino][p]
                       /\ ~hist.shrunk => Shown(content[fp.ino], out', first, pos)
    PROVE  FollowInv'
  <1>1. /\ fp \in [ino : Inodes, pos : Nat] /\ fp.ino \in Inodes
        /\ hist \in [first : Nat, shrunk : BOOLEAN, back : BOOLEAN, stale : BOOLEAN]
        /\ content \in [Inodes -> Seq(1..Top)]
    BY DEF FollowInv, Typed
  <1>2. fp' \in [ino : Inodes, pos : Nat] /\ fp'.ino = fp.ino /\ fp'.pos = pos
    BY <1>1
  <1>3. /\ hist' \in [first : Nat, shrunk : BOOLEAN, back : BOOLEAN, stale : BOOLEAN]
        /\ hist'.first = first /\ hist'.shrunk = hist.shrunk /\ hist'.back = hist.back
        /\ hist'.stale = hist.stale
    BY <1>1, Zenon
  <1>4. Top' = Top /\ (Followed' <=> Followed) /\ Open
    BY DEF Top, Followed, Open, Ended
  <1>5. Typed'
    <2>1. pc' \in {"follow"}
      OBVIOUS
    <2> QED
      BY <1>2, <1>3, <1>4, <2>1, Zenon DEF FollowInv, Typed
  <1>6. FilesApart'
    BY Zenon DEF FollowInv, FilesApart
  <1>7. NothingShown'
    BY DEF NothingShown
  <1>8. KnowsFile'
    <2>1. "follow" # "freopen"
      OBVIOUS
    <2> QED
      BY <1>2, <1>3, <1>4, <2>1, Zenon DEF FollowInv, KnowsFile
  <1>9. OtherUnseen'
    <2>1. ASSUME Followed, NEW i \in Inodes, i # fp.ino PROVE Disjoint(out', content[i])
      <3> DEFINE c == content[fp.ino]
                 d == content[i]
      <3>1. /\ Disjoint(c, d) /\ d \in Seq(1..Top)
        BY <1>1, <2>1, Zenon DEF FollowInv, FilesApart
      <3>2. \A q \in 1..Len(d) : d[q] # 0
        <4>1. Top \in Nat
          BY TopNat DEF FollowInv
        <4> HIDE DEF d
        <4> QED
          BY <3>1, <4>1
      <3>3. \A j \in 1..Len(out') : out'[j] = 0 \/ \E p \in 1..Len(c) : out'[j] = c[p]
        BY <2>1, Zenon
      <3> HIDE DEF c, d
      <3>4. Disjoint(out', d)
        <4>1. ASSUME NEW j \in 1..Len(out'), NEW q \in 1..Len(d) PROVE out'[j] # d[q]
          <5>1. CASE out'[j] = 0
            BY <3>2, <5>1, Zenon
          <5>2. CASE \E p \in 1..Len(c) : out'[j] = c[p]
            BY <3>1, <5>2, Zenon DEF Disjoint
          <5> QED
            BY <3>3, <5>1, <5>2, Zenon
        <4> QED
          BY <4>1, Zenon DEF Disjoint
      <3> QED
        BY <3>4 DEF d
    <2> QED
      BY <1>2, <1>4, <2>1, Zenon DEF OtherUnseen
  <1>10. FileShown'
    BY <1>2, <1>3, <1>4, Zenon DEF FileShown
  <1> QED
    BY <1>5, <1>6, <1>7, <1>8, <1>9, <1>10, Zenon DEF FollowInv

\* The display of a part of the file that is only read: out is empty.
LEMMA SeekKeeps ==
    ASSUME FollowInv, pc = "display", pc' = "follow",
           UNCHANGED <<opt, content, state, changes, sbp, statbuf>>,
           NEW pos \in Nat, At(pos), Followed => out' = out,
           Followed /\ ~hist.shrunk => pos <= Len(content[fp.ino])
    PROVE  FollowInv'
  <1>1. content[fp.ino] \in Seq(1..Top)
    BY DEF FollowInv, Typed
  <1>2. Followed => out' = <<>>
    BY Zenon DEF FollowInv, NothingShown
  <1>3. <<>> \in Seq(0..Top) /\ Len(<<>>) = 0 /\ \A j \in 1..0 : FALSE
    OBVIOUS
  <1>4. ASSUME Followed, ~hist.shrunk PROVE Shown(content[fp.ino], <<>>, pos, pos)
    <2> DEFINE c == content[fp.ino]
    <2>1. Len(c) \in Nat /\ pos \in 0..Len(c) /\ Disjoint(<<>>, c)
      BY <1>1, <1>4 DEF Disjoint
    <2> HIDE DEF c
    <2>2. Shown(c, <<>>, pos, pos)
      BY <2>1, <1>3, ShownNothing
    <2> QED
      BY <2>2 DEF c
  <1>5. Followed => /\ out' \in Seq(0..Top)
                    /\ \A j \in 1..Len(out') :
                          \/ out'[j] = 0
                          \/ \E p \in 1..Len(content[fp.ino]) : out'[j] = content[fp.ino][p]
                    /\ ~hist.shrunk => Shown(content[fp.ino], out', pos, pos)
    BY <1>2, <1>3, <1>4, Zenon
  <1> QED
    BY <1>5, DisplayKeeps, Zenon DEF At

\* Where the skipped lines end.
LEMMA SkipWithin ==
    ASSUME Typed, opt.off # 0
    PROVE  SkipLines \in 0..Len(content[fp.ino])
  <1> DEFINE c == content[fp.ino]
             S == {p \in 1..Len(c) : c[p] \in opt.nl}
             k == Cardinality(S) - opt.off + 1
  <1>1. Len(c) \in Nat /\ opt.off \in Nat
    <2>1. opt \in Opts
      BY Zenon DEF Typed
    <2>2. opt.off \in Nat
      BY <2>1, OptsAssumption
    <2>3. c \in Seq(1..Top)
      BY DEF Typed
    <2> HIDE DEF c
    <2> QED
      BY <2>2, <2>3
  <1>2. S \subseteq 1..Len(c) /\ Cardinality(S) \in Nat
    <2> HIDE DEF c
    <2>1. S \subseteq 1..Len(c) /\ IsFiniteSet(1..Len(c))
      BY <1>1, FS_Interval, SMTT(60)
    <2> HIDE DEF S
    <2> QED
      BY <2>1, FS_Subset, FS_CardinalityType, Zenon
  <1>3. SkipLines = IF Cardinality(S) < opt.off THEN Len(c) ELSE KthLast(S, k)
    BY Zenon DEF SkipLines
  <1> HIDE DEF c, S
  <1>4. CASE Cardinality(S) < opt.off
    BY <1>1, <1>3, <1>4 DEF c
  <1>5. CASE ~(Cardinality(S) < opt.off)
    <2>1. k \in 1..Cardinality(S)
      BY <1>1, <1>2, <1>5
    <2> HIDE DEF k
    <2>2. KthLast(S, k) \in S
      BY <1>1, <1>2, <2>1, KthLastThere
    <2>3. SkipLines \in 1..Len(c)
      BY <1>2, <1>3, <1>5, <2>2
    <2> QED
      BY <1>1, <2>3 DEF c
  <1> QED
    BY <1>4, <1>5

\* The lines that rlines() writes, as the file is mapped.
LEMMA RlinesKeeps ==
    ASSUME FollowInv, pc = "display", pc' = "follow",
           UNCHANGED <<opt, content, state, changes, sbp, statbuf>>,
           opt.off \in Nat \ {0}, sbp.size \in Nat \ {0}, NEW r,
           r = rlines({p \in 1..sbp.size : Mapped(p) \in opt.nl}, sbp.size, opt.off),
           out' = [k \in 1..(r[2] - r[1] + 1) |-> Mapped(r[1] + k - 1)],
           fp' = [fp EXCEPT !.pos = r[2]], hist' = [hist EXCEPT !.first = r[1] - 1]
    PROVE  FollowInv'
  <1> DEFINE c == content[fp.ino]
             a == r[1]
             b == r[2]
             w == [k \in 1..(b - a + 1) |-> Mapped(a + k - 1)]
  <1>1. a \in 1..sbp.size /\ b \in 1..sbp.size /\ a <= b
    <2> DEFINE nl == {p \in 1..sbp.size : Mapped(p) \in opt.nl}
    <2>1. nl \subseteq 1..sbp.size
      OBVIOUS
    <2> HIDE DEF nl
    <2>2. r = rlines(nl, sbp.size, opt.off)
      BY DEF nl
    <2> QED
      BY <2>1, <2>2, RlinesWithin, Zenon
  <1>2. Top \in Nat /\ c \in Seq(1..Top) /\ (~hist.shrunk => sbp.size <= Len(c))
    <2>1. Top \in Nat
      BY TopNat DEF FollowInv
    <2>2. c \in Seq(1..Top)
      BY DEF FollowInv, Typed
    <2> QED
      BY <2>1, <2>2, Zenon DEF FollowInv, NothingShown
  <1>3. \A p : Mapped(p) = IF p <= Len(c) THEN c[p] ELSE 0
    BY Zenon DEF Mapped
  <1>4. out' = w
    OBVIOUS
  <1> HIDE DEF c, a, b
  <1>5. ASSUME NEW p \in Nat \ {0}
        PROVE  /\ Mapped(p) \in 0..Top
               /\ Mapped(p) = 0 \/ \E q \in 1..Len(c) : Mapped(p) = c[q]
    <2>1. Len(c) \in Nat
      BY <1>2
    <2>2. CASE p <= Len(c)
      <3>1. p \in 1..Len(c) /\ Mapped(p) = c[p]
        BY <1>3, <2>1, <2>2
      <3>2. c[p] \in 1..Top
        BY <1>2, <3>1
      <3>3. c[p] \in 0..Top
        BY <1>2, <3>2
      <3> QED
        BY <3>1, <3>3, Zenon
    <2>3. CASE ~(p <= Len(c))
      <3>1. Mapped(p) = 0
        BY <1>3, <2>3, Zenon
      <3> QED
        BY <1>2, <3>1
    <2> QED
      BY <2>2, <2>3
  <1>6. \A k \in 1..(b - a + 1) : a + k - 1 \in Nat \ {0}
    BY <1>1
  <1>7. b - a + 1 \in Nat
    BY <1>1
  <1>8. w \in Seq(0..Top) /\ Len(w) = b - a + 1 /\ \A j \in 1..(b - a + 1) : w[j] = Mapped(a + j - 1)
    <2>1. \A k \in 1..(b - a + 1) : Mapped(a + k - 1) \in 0..Top
      BY <1>5, <1>6, Zenon
    <2> DEFINE m == b - a + 1
    <2>2. m \in Nat /\ \A k \in 1..m : Mapped(a + k - 1) \in 0..Top
      BY <1>7, <2>1
    <2> DEFINE M(k) == Mapped(a + k - 1)
    <2>3. w = [k \in 1..m |-> M(k)]
      OBVIOUS
    <2>4. \A k \in 1..m : M(k) \in 0..Top
      BY <2>2
    <2> HIDE DEF m, w, M
    <2>5. w \in Seq(0..Top) /\ Len(w) = m /\ \A j \in 1..m : w[j] = M(j)
      <3>1. w \in [1..m -> 0..Top] /\ \A j \in 1..m : w[j] = M(j)
        BY <2>3, <2>4, Zenon
      <3>2. w \in Seq(0..Top)
        BY <2>2, <3>1, SeqDef, Zenon
      <3>3. DOMAIN w = 1..m
        BY <3>1, Zenon
      <3> QED
        BY <2>2, <3>1, <3>2, <3>3, LenProperties
    <2> QED
      BY <2>5, Zenon DEF m, M
  <1>9. \A j \in 1..Len(w) : w[j] = 0 \/ \E p \in 1..Len(c) : w[j] = c[p]
    <2> HIDE DEF w
    <2> QED
      BY <1>5, <1>6, <1>8, Zenon
  <1>10. ASSUME ~hist.shrunk PROVE Shown(c, w, a - 1, b)
    <2>1. Len(c) \in Nat /\ a \in 1..Len(c) /\ b \in a..Len(c)
      BY <1>1, <1>2, <1>10
    <2>2. \A k \in 1..(b - a + 1) : Mapped(a + k - 1) = c[a + k - 1]
      <3> TAKE k \in 1..(b - a + 1)
      <3>1. a + k - 1 <= Len(c)
        BY <2>1
      <3> QED
        BY <1>3, <3>1, Zenon
    <2>3. w = [k \in 1..(b - a + 1) |-> c[a + k - 1]]
      BY <2>2, Zenon
    <2> HIDE DEF w
    <2> QED
      BY <2>1, <2>3, ShownPart
  <1>11. /\ out' \in Seq(0..Top)
         /\ \A j \in 1..Len(out') : out'[j] = 0 \/ \E p \in 1..Len(c) : out'[j] = c[p]
         /\ ~hist.shrunk => Shown(c, out', a - 1, b)
    <2> HIDE DEF w
    <2> QED
      BY <1>4, <1>8, <1>9, <1>10, Zenon
  <1>12. a - 1 \in Nat /\ b \in Nat
    BY <1>1
  <1> QED
    BY <1>11, <1>12, DisplayKeeps, Zenon DEF a, b, c

LEMMA DisplayForwardKeeps == ASSUME FollowInv, DisplayForward PROVE FollowInv'
  <1> DEFINE now == Len(content[fp.ino])
  <1>1. pc = "display" /\ UNCHANGED <<opt, content, state, changes, sbp, statbuf>>
    BY Zenon DEF DisplayForward, world
  <1>2. opt.off \in Nat /\ opt.size \in Nat /\ now \in Nat /\ sbp.size \in Nat
    <2>1. opt \in Opts /\ content[fp.ino] \in Seq(1..Top) /\ sbp.size \in Nat
      BY DEF FollowInv, Typed
    <2>2. opt.off \in Nat /\ opt.size \in Nat
      BY <2>1, OptsAssumption
    <2> QED
      BY <2>1, <2>2
  <1>3. ~hist.shrunk => sbp.size <= now
    BY <1>1, Zenon DEF FollowInv, NothingShown
  <1>4. Followed => opt.reg
    BY Zenon DEF Followed
  <1>5. ASSUME NEW pos \in Nat, At(pos), pc' = "follow", Followed => out' = out,
               Followed /\ ~hist.shrunk => pos <= now
        PROVE  FollowInv'
    BY <1>1, <1>5, SeekKeeps, Zenon
  <1>6. ASSUME pc' \in {"error", "sigbus"}, UNCHANGED <<fp, hist>> PROVE FollowInv'
    <2>1. pc' \in Ended
      BY <1>6 DEF Ended
    <2> QED
      BY <1>1, <1>6, <2>1, EndKeeps
  <1>7. CASE /\ opt.style = "FBYTES"
             /\ At(IF opt.reg THEN Min({opt.off, sbp.size}) ELSE Min({opt.off, now}))
             /\ pc' = "follow" /\ UNCHANGED out
    <2> DEFINE pos == IF opt.reg THEN Min({opt.off, sbp.size}) ELSE Min({opt.off, now})
    <2>1. pos \in Nat /\ (opt.reg => pos <= sbp.size)
      <3>1. /\ Min({opt.off, sbp.size}) = IF opt.off <= sbp.size THEN opt.off ELSE sbp.size
            /\ Min({opt.off, now}) = IF opt.off <= now THEN opt.off ELSE now
        BY <1>2, MinMaxOfTwo, SMTT(60)
      <3>2. /\ Min({opt.off, sbp.size}) \in Nat /\ Min({opt.off, sbp.size}) <= sbp.size
            /\ Min({opt.off, now}) \in Nat
        <4> HIDE DEF now
        <4> QED
          BY <1>2, <3>1
      <3> QED
        BY <3>2, Zenon
    <2>2. At(pos)
      BY <1>7, Zenon
    <2> HIDE DEF pos, now
    <2>3. opt.reg /\ ~hist.shrunk => pos <= now
      BY <1>2, <1>3, <2>1
    <2> QED
      BY <1>4, <1>5, <1>7, <2>1, <2>2, <2>3, Zenon
  <1>8. CASE /\ opt.style = "FLINES"
             /\ At(IF opt.off = 0 THEN 0 ELSE SkipLines)
             /\ pc' = "follow" /\ UNCHANGED out
    <2> DEFINE pos == IF opt.off = 0 THEN 0 ELSE SkipLines
    <2>1. opt.off # 0 => SkipLines \in 0..now
      BY SkipWithin, Zenon DEF FollowInv
    <2>2. At(pos)
      BY <1>8, Zenon
    <2> HIDE DEF now
    <2>3. pos \in Nat /\ pos <= now
      BY <1>2, <2>1
    <2> HIDE DEF pos
    <2> QED
      BY <1>5, <1>8, <2>2, <2>3, Zenon
  <1>9. CASE /\ opt.style = "RBYTES" /\ opt.reg
             /\ IF sbp.size >= opt.off /\ now < opt.off
                THEN pc' = "error" /\ UNCHANGED <<fp, hist>>
                ELSE At(IF sbp.size >= opt.off THEN now - opt.off ELSE 0) /\ pc' = "follow"
             /\ UNCHANGED out
    <2>1. CASE sbp.size >= opt.off /\ now < opt.off
      BY <1>6, <1>9, <2>1, Zenon
    <2>2. CASE ~(sbp.size >= opt.off /\ now < opt.off)
      <3> DEFINE pos == IF sbp.size >= opt.off THEN now - opt.off ELSE 0
      <3>1. At(pos) /\ pc' = "follow"
        BY <1>9, <2>2, Zenon
      <3> HIDE DEF now
      <3>2. pos \in Nat /\ pos <= now
        BY <1>2, <2>2
      <3> HIDE DEF pos
      <3> QED
        BY <1>5, <1>9, <3>1, <3>2, Zenon
    <2> QED
      BY <2>1, <2>2, Zenon
  <1>10. CASE /\ opt.style = "RLINES" /\ opt.reg /\ (opt.off = 0 \/ sbp.size = 0)
              /\ At(IF opt.off = 0 THEN now ELSE 0)
              /\ pc' = "follow" /\ UNCHANGED out
    <2> DEFINE pos == IF opt.off = 0 THEN now ELSE 0
    <2>1. At(pos)
      BY <1>10, Zenon
    <2> HIDE DEF now
    <2>2. pos \in Nat /\ pos <= now
      BY <1>2
    <2> HIDE DEF pos
    <2> QED
      BY <1>5, <1>10, <2>1, <2>2, Zenon
  <1>11. CASE /\ opt.style = "RLINES" /\ opt.reg /\ opt.off > 0 /\ MmapFails(sbp.size)
              /\ pc' = "error" /\ UNCHANGED <<fp, out, hist>>
    BY <1>6, <1>11, Zenon
  <1>12. CASE /\ opt.style = "RLINES" /\ opt.reg /\ opt.off > 0 /\ sbp.size > 0
              /\ ~MmapFails(sbp.size)
              /\ IF now = 0
                 THEN pc' = "sigbus" /\ UNCHANGED <<fp, out, hist>>
                 ELSE LET r == rlines({p \in 1..sbp.size : Mapped(p) \in opt.nl}, sbp.size, opt.off)
                      IN  /\ out' = [k \in 1..(r[2] - r[1] + 1) |-> Mapped(r[1] + k - 1)]
                          /\ fp' = [fp EXCEPT !.pos = r[2]]
                          /\ hist' = [hist EXCEPT !.first = r[1] - 1]
                          /\ pc' = "follow"
    <2>1. CASE now = 0
      BY <1>6, <1>12, <2>1, Zenon
    <2>2. CASE now # 0
      <3> DEFINE r == rlines({p \in 1..sbp.size : Mapped(p) \in opt.nl}, sbp.size, opt.off)
      <3>1. /\ out' = [k \in 1..(r[2] - r[1] + 1) |-> Mapped(r[1] + k - 1)]
            /\ fp' = [fp EXCEPT !.pos = r[2]]
            /\ hist' = [hist EXCEPT !.first = r[1] - 1]
            /\ pc' = "follow"
        BY <1>12, <2>2, Zenon
      <3>2. opt.off \in Nat \ {0} /\ sbp.size \in Nat \ {0}
        BY <1>2, <1>12
      <3>3. r = rlines({p \in 1..sbp.size : Mapped(p) \in opt.nl}, sbp.size, opt.off)
        OBVIOUS
      <3> HIDE DEF r
      <3> QED
        BY <1>1, <3>1, <3>2, <3>3, RlinesKeeps, Zenon
    <2> QED
      BY <2>1, <2>2, Zenon
  <1>13. CASE /\ opt.style \in {"RBYTES", "RLINES"} /\ ~opt.reg
              /\ At(opt.size) /\ pc' = "follow" /\ out' = Displayed
    BY <1>2, <1>4, <1>5, <1>13, Zenon
  <1> QED
    BY <1>7, <1>8, <1>9, <1>10, <1>11, <1>12, <1>13, Zenon DEF DisplayForward

\* The rest of the file, from any offset.
LEMMA RestFacts ==
    ASSUME NEW C, NEW c \in Seq(C), NEW o \in Seq(C), NEW pos \in Nat
    PROVE  LET w == o \o SubSeq(c, pos + 1, Len(c)) IN
           /\ w \in Seq(C)
           /\ \A d : Disjoint(o, d) /\ Disjoint(c, d) => Disjoint(w, d)
  <1> DEFINE l == Len(c)
             r == SubSeq(c, pos + 1, l)
             w == o \o r
  <1>1. l \in Nat /\ Len(o) \in Nat
    OBVIOUS
  <1>2. /\ r \in Seq(C) /\ Len(r) \in Nat
        /\ \A i \in 1..Len(r) : \E p \in 1..l : r[i] = c[p]
    <2>1. pos + 1 \in Int /\ l \in Int /\ \A i \in (pos + 1)..l : c[i] \in C
      BY <1>1
    <2> HIDE DEF l
    <2>2. /\ r \in Seq(C)
          /\ Len(r) = IF pos + 1 <= l THEN l - (pos + 1) + 1 ELSE 0
          /\ \A i \in 1..(l - (pos + 1) + 1) : r[i] = c[(pos + 1) + i - 1]
      BY <2>1, SubSeqProperties, SMTT(60)
    <2> HIDE DEF r
    <2>3. ASSUME NEW i \in 1..Len(r) PROVE \E p \in 1..l : r[i] = c[p]
      <3>1. i \in 1..(l - (pos + 1) + 1) /\ (pos + 1) + i - 1 \in 1..l
        BY <1>1, <2>2
      <3> QED
        BY <2>2, <3>1, Zenon
    <2>4. Len(r) \in Nat
      BY <2>2
    <2> QED
      BY <2>2, <2>3, <2>4, Zenon
  <1> HIDE DEF r
  <1>3. /\ w \in Seq(C) /\ Len(w) = Len(o) + Len(r)
        /\ \A j \in 1..(Len(o) + Len(r)) : w[j] = IF j <= Len(o) THEN o[j] ELSE r[j - Len(o)]
    BY <1>2, ConcatProperties
  <1> HIDE DEF w, l
  <1>4. ASSUME NEW d, Disjoint(o, d), Disjoint(c, d) PROVE Disjoint(w, d)
    <2>1. SUFFICES ASSUME NEW j \in 1..Len(w), NEW q \in 1..Len(d) PROVE w[j] # d[q]
      BY Zenon DEF Disjoint
    <2>2. CASE j <= Len(o)
      <3>1. j \in 1..Len(o) /\ j \in 1..(Len(o) + Len(r))
        BY <1>1, <1>2, <1>3, <2>2
      <3> QED
        BY <1>3, <1>4, <2>2, <3>1, Zenon DEF Disjoint
    <2>3. CASE ~(j <= Len(o))
      <3>1. j - Len(o) \in 1..Len(r) /\ j \in 1..(Len(o) + Len(r))
        BY <1>1, <1>2, <1>3, <2>3
      <3>2. PICK p \in 1..l : r[j - Len(o)] = c[p]
        BY <1>2, <3>1, Zenon
      <3> QED
        BY <1>3, <1>4, <2>3, <3>1, <3>2, Zenon DEF Disjoint, l
    <2> QED
      BY <2>2, <2>3
  <1> QED
    BY <1>3, <1>4, Zenon DEF w, r, l

LEMMA ReadKeeps == ASSUME FollowInv, Read PROVE FollowInv'
  <1> DEFINE c == content[fp.ino]
             w == out \o SubSeq(c, fp.pos + 1, Len(c))
  <1>1. /\ pc = "read" /\ UNCHANGED <<opt, content, state, changes, sbp, statbuf, hist>>
        /\ out' = w /\ fp' = [fp EXCEPT !.pos = Max({@, Len(c)})]
        /\ pc' = IF opt.fflag > 0 THEN "act" ELSE "exit"
    BY Zenon DEF Read, world
  <1>2. /\ fp \in [ino : Inodes, pos : Nat] /\ fp.ino \in Inodes /\ fp.pos \in Nat
        /\ hist.first \in Nat /\ c \in Seq(1..Top) /\ Len(c) \in Nat
    BY DEF FollowInv, Typed
  <1>3. /\ fp' \in [ino : Inodes, pos : Nat] /\ fp'.ino = fp.ino
        /\ fp'.pos = IF fp.pos >= Len(c) THEN fp.pos ELSE Len(c)
    <2> DEFINE m == Max({fp.pos, Len(c)})
    <2>1. m = IF fp.pos >= Len(c) THEN fp.pos ELSE Len(c)
      <3>1. fp.pos \in Int /\ Len(c) \in Int
        BY <1>2
      <3> HIDE DEF c
      <3> QED
        BY <3>1, MinMaxOfTwo, Zenon
    <2>2. fp' = [fp EXCEPT !.pos = m]
      BY <1>1, Zenon
    <2> HIDE DEF m, c
    <2>3. m \in Nat
      BY <1>2, <2>1
    <2>4. fp'.ino = fp.ino /\ fp'.pos = m /\ fp' \in [ino : Inodes, pos : Nat]
      BY <1>2, <2>2, <2>3
    <2> QED
      BY <2>1, <2>4, Zenon
  <1>4. Top' = Top /\ (Followed' <=> Followed) /\ Open /\ Watching /\ pc \notin Ended
        /\ pc' \in {"act", "exit"}
    BY <1>1 DEF Top, Followed, Open, Ended, Watching
  <1>5. ASSUME Followed
        PROVE  /\ out \in Seq(0..Top) /\ c \in Seq(0..Top) /\ w \in Seq(0..Top)
               /\ \A d : Disjoint(out, d) /\ Disjoint(c, d) => Disjoint(w, d)
    <2>1. out \in Seq(0..Top)
      BY <1>4, <1>5, Zenon DEF FollowInv, Typed
    <2>2. c \in Seq(0..Top)
      <3>1. Top \in Nat
        BY TopNat DEF FollowInv
      <3>2. 1..Top \subseteq 0..Top
        BY <3>1
      <3> HIDE DEF c
      <3> QED
        BY <1>2, <3>2, SeqMonotonic, Zenon
    <2> HIDE DEF c
    <2> QED
      BY <1>2, <2>1, <2>2, RestFacts, Zenon
  <1>6. Typed'
    <2>1. {"act", "exit"} \subseteq {"open", "display", "follow", "read", "act", "freopen"} \cup Ended
      BY DEF Ended
    <2> HIDE DEF w, c
    <2> QED
      BY <1>1, <1>3, <1>4, <1>5, <2>1, Zenon DEF FollowInv, Typed
  <1>7. FilesApart'
    BY <1>1, Zenon DEF FollowInv, FilesApart
  <1>8. NothingShown'
    BY <1>4 DEF NothingShown
  <1>9. KnowsFile'
    <2>1. pc' # "freopen"
      BY <1>4
    <2> QED
      BY <1>1, <1>3, <1>4, <2>1, Zenon DEF FollowInv, KnowsFile
  <1>10. OtherUnseen'
    <2>1. ASSUME Followed, ~hist.back, ~hist.stale,
                 NEW i \in Inodes, state[i] = "named", i # fp.ino
          PROVE  Disjoint(w, content[i])
      <3>1. Disjoint(out, content[i])
        BY <1>4, <2>1, Zenon DEF FollowInv, OtherUnseen
      <3>2. Disjoint(c, content[i])
        BY <1>2, <2>1, Zenon DEF FollowInv, FilesApart
      <3> HIDE DEF w, c
      <3> QED
        BY <1>5, <2>1, <3>1, <3>2, Zenon
    <2> HIDE DEF w, c
    <2> QED
      BY <1>1, <1>3, <1>4, <2>1, Zenon DEF OtherUnseen
  <1>11. FileShown'
    <2>1. ASSUME Followed, ~hist.shrunk, ~hist.back, ~hist.stale
          PROVE  Shown(c, w, hist.first, Len(c)) /\ fp'.pos = Len(c)
      <3>1. Shown(c, out, hist.first, fp.pos)
        BY <1>4, <2>1, Zenon DEF FollowInv, FileShown
      <3> HIDE DEF c
      <3>2. fp.pos <= Len(c)
        BY <3>1 DEF Shown
      <3>3. fp'.pos = Len(c)
        BY <1>2, <1>3, <3>2
      <3>4. Shown(c, w, hist.first, Len(c))
        <4>1. out \in Seq(0..Top) /\ c \in Seq(0..Top)
          BY <1>5, <2>1, Zenon
        <4> QED
          BY <1>2, <3>1, <4>1, ShownRest, Zenon
      <3> QED
        BY <3>3, <3>4
    <2> HIDE DEF w
    <2> QED
      BY <1>1, <1>3, <1>4, <2>1, Zenon DEF FileShown
  <1> QED
    BY <1>6, <1>7, <1>8, <1>9, <1>10, <1>11, Zenon DEF FollowInv

(* Another file is opened.  If it is the one that stat() saw, it is not    *)
(* the one that was open, so that nothing of it has been shown.            *)
LEMMA FreopenKeeps == ASSUME FollowInv, Freopen PROVE FollowInv'
  <1>1. pc = "freopen" /\ UNCHANGED <<opt, content, state, changes, statbuf, out>>
    BY Zenon DEF Freopen, world
  <1>2. CASE Named = {} /\ pc' = "error" /\ UNCHANGED <<fp, sbp, action, hist>>
    <2>1. pc' \in Ended
      BY <1>2 DEF Ended
    <2> QED
      BY <1>1, <1>2, <2>1, EndKeeps
  <1>3. ASSUME NEW i \in Named,
               fp' = [ino |-> i, pos |-> 0], sbp' = [sbp EXCEPT !.ino = statbuf],
               hist' = [hist EXCEPT !.first = 0, !.shrunk = FALSE, !.stale = @ \/ i # statbuf],
               pc' = "read"
        PROVE  FollowInv'
    <2>1. i \in Inodes /\ state[i] = "named"
      BY DEF Named
    <2>2. /\ sbp \in [ino : Inodes \cup {0}, size : Nat] /\ statbuf \in Inodes \cup {0}
          /\ hist \in [first : Nat, shrunk : BOOLEAN, back : BOOLEAN, stale : BOOLEAN]
          /\ content \in [Inodes -> Seq(1..Top)] /\ content[i] \in Seq(1..Top)
          /\ Len(content[i]) \in Nat
      BY <2>1 DEF FollowInv, Typed
    <2>3. /\ fp' \in [ino : Inodes, pos : Nat] /\ fp'.ino = i /\ fp'.pos = 0
          /\ sbp' \in [ino : Inodes \cup {0}, size : Nat] /\ sbp'.ino = statbuf
      BY <1>3, <2>1, <2>2
    <2>4. /\ hist'.first = 0 /\ hist'.shrunk = FALSE /\ hist'.back = hist.back
          /\ hist'.stale = (hist.stale \/ i # statbuf)
          /\ hist' \in [first : Nat, shrunk : BOOLEAN, back : BOOLEAN, stale : BOOLEAN]
      <3>1. 0 \in Nat
        OBVIOUS
      <3> QED
        BY <1>3, <2>2, <3>1, Zenon
    <2>5. Top' = Top /\ (Followed' <=> Followed) /\ Open /\ pc \notin Ended /\ Open'
      BY <1>1, <1>3 DEF Top, Followed, Open, Ended
    <2>6. Typed'
      <3>1. pc' \in {"read"}
        BY <1>3
      <3> QED
        BY <1>1, <2>3, <2>4, <2>5, <3>1, Zenon DEF FollowInv, Typed
    <2>7. FilesApart'
      BY <1>1, Zenon DEF FollowInv, FilesApart
    <2>8. NothingShown'
      BY <1>3 DEF NothingShown
    <2>9. KnowsFile'
      <3>1. "named" # "free" /\ "read" # "freopen"
        OBVIOUS
      <3> QED
        BY <1>1, <1>3, <2>1, <2>3, <2>4, <3>1, Zenon DEF KnowsFile
    <2>10. OtherUnseen'
      BY <1>1, <2>1, <2>3, Zenon DEF FollowInv, FilesApart, OtherUnseen
    <2>11. FileShown'
      <3>1. ASSUME Followed, ~hist.back, ~hist.stale, i = statbuf
            PROVE  Shown(content[i], out, 0, 0)
        <4>1. i # fp.ino
          BY <1>1, <2>5, <3>1, Zenon DEF FollowInv, KnowsFile
        <4>2. Disjoint(out, content[i])
          BY <2>1, <2>5, <3>1, <4>1, Zenon DEF FollowInv, OtherUnseen
        <4>3. out \in Seq(0..Top)
          BY <2>5, <3>1, Zenon DEF FollowInv, Typed
        <4>4. Len(out) \in Nat /\ 0 \in 0..Len(content[i])
          BY <2>2, <4>3
        <4> QED
          BY <2>2, <4>2, <4>4, ShownNothing, Zenon
      <3> QED
        BY <1>1, <2>3, <2>4, <2>5, <3>1, Zenon DEF FileShown
    <2> QED
      BY <2>6, <2>7, <2>8, <2>9, <2>10, <2>11, Zenon DEF FollowInv
  <1> QED
    BY <1>2, <1>3, Zenon DEF Freopen
-----------------------------------------------------------------------------
(* The steps of the others. *)

\* What tail has read, and where it is.
TailKept == UNCHANGED <<opt, pc, sbp, statbuf, fp, out>>

\* A change makes at most one new byte.
LEMMA TopStep ==
    ASSUME Typed, opt' = opt, changes' \in {changes, changes + 1}
    PROVE  /\ Top \in Nat /\ opt.size + changes + 1 = Top + 1 /\ changes' \in Nat
           /\ 1..Top \subseteq 1..Top' /\ 0..Top \subseteq 0..Top'
           /\ changes' = changes + 1 => Top + 1 \in 1..Top'
  <1>1. opt \in Opts /\ changes \in Nat /\ Top \in Nat
    BY TopNat, Zenon DEF Typed
  <1>2. opt.size \in Nat
    BY <1>1, OptsAssumption
  <1>3. Top' = opt.size + changes' /\ Top = opt.size + changes
    BY DEF Top
  <1> QED
    BY <1>1, <1>2, <1>3

\* The name is taken away, or comes back.
LEMMA NameKeeps ==
    ASSUME FollowInv, TailKept, content' = content, changes' \in {changes, changes + 1},
           NEW i \in Inodes, NEW s \in {"named", "moved", "deleted"},
           state' = [state EXCEPT ![i] = s], s = "named" => Named = {},
           \/ s # "named" /\ hist' = hist
           \/ hist' = [hist EXCEPT !.back = TRUE]
    PROVE  FollowInv'
  <1>1. /\ state \in [Inodes -> {"free", "named", "moved", "deleted"}]
        /\ hist \in [first : Nat, shrunk : BOOLEAN, back : BOOLEAN, stale : BOOLEAN]
        /\ content \in [Inodes -> Seq(1..Top)] /\ changes \in Nat /\ fp.ino \in Inodes
    BY DEF FollowInv, Typed
  <1>2. /\ hist' \in [first : Nat, shrunk : BOOLEAN, back : BOOLEAN, stale : BOOLEAN]
        /\ hist'.first = hist.first /\ hist'.shrunk = hist.shrunk /\ hist'.stale = hist.stale
        /\ (hist.back => hist'.back) /\ (s = "named" => hist'.back)
    BY <1>1, Zenon
  <1>3. /\ state' \in [Inodes -> {"free", "named", "moved", "deleted"}]
        /\ \A j \in Inodes : state'[j] = IF j = i THEN s ELSE state[j]
    BY <1>1
  <1>4. 1..Top \subseteq 1..Top' /\ 0..Top \subseteq 0..Top'
    BY TopStep, Zenon DEF FollowInv, TailKept
  <1>5. (Followed' <=> Followed) /\ (Open' <=> Open) /\ (Watching' <=> Watching)
    BY Zenon DEF TailKept, Followed, Open, Watching, Ended
  <1>6. Typed'
    <2>1. \A j \in Inodes : content[j] \in Seq(1..Top')
      BY <1>1, <1>4, SeqMonotonic, Zenon
    <2>2. content' \in [Inodes -> Seq(1..Top')]
      BY <1>1, <2>1, Zenon
    <2>3. Followed /\ pc \notin Ended => out \in Seq(0..Top')
      BY <1>4, SeqMonotonic, Zenon DEF FollowInv, Typed
    <2>4. changes' \in Nat
      BY <1>1
    <2> QED
      BY <1>2, <1>3, <1>5, <2>2, <2>3, <2>4, Zenon DEF FollowInv, Typed, TailKept
  <1>7. FilesApart'
    <2>1. \A j \in Inodes : s = "named" => state[j] # "named"
      BY Zenon DEF Named
    <2>2. \A j, k \in Inodes : state'[j] = "named" /\ state'[k] = "named" => j = k
      BY <1>3, <2>1, Zenon DEF FollowInv, FilesApart
    <2> QED
      BY <2>2, Zenon DEF FollowInv, FilesApart
  <1>8. NothingShown'
    BY <1>2, Zenon DEF FollowInv, NothingShown, TailKept
  <1>9. KnowsFile'
    <2>1. s # "free"
      OBVIOUS
    <2> QED
      BY <1>1, <1>2, <1>3, <1>5, <2>1, Zenon DEF FollowInv, KnowsFile, TailKept
  <1>10. OtherUnseen'
    BY <1>1, <1>2, <1>3, <1>5, Zenon DEF FollowInv, OtherUnseen, TailKept
  <1>11. FileShown'
    BY <1>2, <1>5, Zenon DEF FollowInv, FileShown, TailKept
  <1> QED
    BY <1>6, <1>7, <1>8, <1>9, <1>10, <1>11, Zenon DEF FollowInv

\* A byte at the end of a file.
LEMMA AppendBytes ==
    ASSUME NEW S, NEW s \in Seq(S), NEW b \in S
    PROVE  /\ Append(s, b) \in Seq(S) /\ Len(Append(s, b)) \in Nat
           /\ \A q \in 1..Len(Append(s, b)) :
                 Append(s, b)[q] = b \/ (q \in 1..Len(s) /\ Append(s, b)[q] = s[q])
  <1> DEFINE c == Append(s, b)
  <1>1. Len(s) \in Nat
    BY LenProperties, Zenon
  <1>2. /\ c \in Seq(S) /\ Len(c) = Len(s) + 1 /\ c[Len(s) + 1] = b
        /\ \A q \in 1..Len(s) : c[q] = s[q]
    OBVIOUS
  <1> HIDE DEF c
  <1>3. ASSUME NEW q \in 1..Len(c) PROVE c[q] = b \/ (q \in 1..Len(s) /\ c[q] = s[q])
    <2>1. q = Len(s) + 1 \/ q \in 1..Len(s)
      BY <1>1, <1>2
    <2> QED
      BY <1>2, <2>1, Zenon
  <1>4. Len(c) \in Nat
    BY <1>1, <1>2
  <1> QED
    BY <1>2, <1>3, <1>4, Zenon DEF c

(* The contents of one file are replaced, by nothing or by the same with a *)
(* new byte at the end: the files are still apart.                         *)
LEMMA ContentKeeps ==
    ASSUME FollowInv, opt' = opt, changes' \in {changes, changes + 1},
           NEW i \in Inodes, NEW c, content' = [content EXCEPT ![i] = c],
           \/ c = <<>>
           \/ changes' = changes + 1 /\ c = Append(content[i], opt.size + changes + 1)
    PROVE  /\ changes' \in Nat /\ content' \in [Inodes -> Seq(1..Top')] /\ c \in Seq(1..Top')
           /\ \A j \in Inodes : content'[j] = IF j = i THEN c ELSE content[j]
           /\ \A j, k \in Inodes : j # k => Disjoint(content'[j], content'[k])
           /\ \A o \in Seq(0..Top) : Disjoint(o, content[i]) => Disjoint(o, c)
           /\ \A o \in Seq(0..Top) : o \in Seq(0..Top')
  <1> DEFINE b == opt.size + changes + 1
  <1>1. /\ content \in [Inodes -> Seq(1..Top)] /\ changes \in Nat /\ opt \in Opts
        /\ content[i] \in Seq(1..Top) /\ Top \in Nat
    BY TopNat DEF FollowInv, Typed
  <1>2. /\ b = Top + 1 /\ changes' \in Nat /\ 1..Top \subseteq 1..Top' /\ 0..Top \subseteq 0..Top'
        /\ changes' = changes + 1 => b \in 1..Top'
    BY TopStep, Zenon DEF FollowInv
  <1> HIDE DEF b
  <1>3. \A o \in Seq(0..Top) : o \in Seq(0..Top')
    BY <1>2, SeqMonotonic, Zenon
  <1>4. \A j \in Inodes : content[j] \in Seq(1..Top) /\ content[j] \in Seq(1..Top')
    BY <1>1, <1>2, SeqMonotonic, Zenon
  <1> DEFINE old == content[i]
             t == Top'
  <1>5. /\ c \in Seq(1..t) /\ Len(c) \in Nat
        /\ \A q \in 1..Len(c) : c[q] = Top + 1 \/ (q \in 1..Len(old) /\ c[q] = old[q])
    <2>1. CASE c = <<>>
      BY <2>1
    <2>2. CASE changes' = changes + 1 /\ c = Append(old, b)
      <3>1. old \in Seq(1..t) /\ b \in 1..t
        BY <1>2, <1>4, <2>2, Zenon
      <3> HIDE DEF old, t
      <3> QED
        <4> DEFINE d == Append(old, b)
        <4>1. /\ d \in Seq(1..t) /\ Len(d) \in Nat
              /\ \A q \in 1..Len(d) : d[q] = b \/ (q \in 1..Len(old) /\ d[q] = old[q])
          BY <3>1, AppendBytes
        <4>2. c = d
          BY <2>2
        <4> HIDE DEF d
        <4> QED
          BY <1>2, <4>1, <4>2, Zenon
    <2> QED
      BY <2>1, <2>2, Zenon DEF b
  <1> HIDE DEF t
  <1>6. ASSUME NEW n \in Int, n <= Top, NEW o \in Seq(n..Top), Disjoint(o, old)
        PROVE  Disjoint(o, c)
    <2>1. SUFFICES ASSUME NEW j \in 1..Len(o), NEW q \in 1..Len(c) PROVE o[j] # c[q]
      BY Zenon DEF Disjoint
    <2>2. o[j] \in n..Top
      BY ElementOfSeq, Zenon
    <2>3. o[j] # Top + 1
      BY <1>1, <2>2
    <2> HIDE DEF old
    <2> QED
      BY <1>5, <1>6, <2>3, Zenon DEF Disjoint
  <1>7. ASSUME NEW o \in Seq(0..Top), Disjoint(o, old) PROVE Disjoint(o, c)
    BY <1>1, <1>6, <1>7
  <1>8. \A j \in Inodes : content'[j] = IF j = i THEN c ELSE content[j]
    BY <1>1, Zenon
  <1>9. content' \in [Inodes -> Seq(1..t)]
    BY <1>1, <1>4, <1>5, <1>8, Zenon DEF t
  <1>10. ASSUME NEW j \in Inodes, j # i PROVE Disjoint(content[j], c) /\ Disjoint(c, content[j])
    <2>1. Disjoint(content[j], old)
      BY <1>10, Zenon DEF FollowInv, FilesApart
    <2>2. content[j] \in Seq(0..Top)
      <3>1. 1..Top \subseteq 0..Top
        <4> HIDE DEF Top
        <4> QED
          BY <1>1
      <3> QED
        BY <1>4, <3>1, SeqMonotonic, Zenon
    <2>3. Disjoint(content[j], c)
      BY <1>7, <2>1, <2>2, Zenon
    <2> QED
      BY <2>3, Zenon DEF Disjoint
  <1>11. \A j, k \in Inodes : j # k => Disjoint(content'[j], content'[k])
    BY <1>8, <1>10, Zenon DEF FollowInv, FilesApart
  <1> QED
    BY <1>2, <1>3, <1>5, <1>7, <1>8, <1>9, <1>11, Zenon DEF t, old

(* The contents and the state of one file change; a file is emptied only   *)
(* if tail has it not open, or is then known to be shrunk.                 *)
LEMMA FileKeeps ==
    ASSUME FollowInv, TailKept, changes' \in {changes, changes + 1},
           NEW i \in Inodes, NEW c, content' = [content EXCEPT ![i] = c],
           NEW s \in {"named", "moved", "deleted"}, state' = [state EXCEPT ![i] = s],
           NEW x \in BOOLEAN, hist' = [hist EXCEPT !.shrunk = x], hist.shrunk => x,
           \/ c = <<>> /\ (Open /\ fp.ino = i => x)
           \/ changes' = changes + 1 /\ c = Append(content[i], opt.size + changes + 1),
           s = "named" => state[i] = "named" \/ (Named = {} /\ c = <<>>)
    PROVE  FollowInv'
  <1> DEFINE old == content[i]
             b == opt.size + changes + 1
  <1>1. /\ state \in [Inodes -> {"free", "named", "moved", "deleted"}]
        /\ hist \in [first : Nat, shrunk : BOOLEAN, back : BOOLEAN, stale : BOOLEAN]
        /\ hist.first \in Nat /\ fp.pos \in Nat /\ sbp.size \in Nat
        /\ content \in [Inodes -> Seq(1..Top)] /\ changes \in Nat /\ fp.ino \in Inodes
    BY DEF FollowInv, Typed
  <1>2. /\ hist' \in [first : Nat, shrunk : BOOLEAN, back : BOOLEAN, stale : BOOLEAN]
        /\ hist'.first = hist.first /\ hist'.shrunk = x /\ hist'.stale = hist.stale
        /\ hist'.back = hist.back
    BY <1>1, Zenon
  <1>3. /\ state' \in [Inodes -> {"free", "named", "moved", "deleted"}]
        /\ \A j \in Inodes : state'[j] = IF j = i THEN s ELSE state[j]
    BY <1>1
  <1>4. (Followed' <=> Followed) /\ (Open' <=> Open) /\ (Watching' <=> Watching)
        /\ (Watching => Open) /\ (Open => pc \notin Ended) /\ opt' = opt
    BY DEF TailKept, Followed, Open, Watching, Ended
  <1>5. /\ changes' \in Nat /\ content' \in [Inodes -> Seq(1..Top')] /\ c \in Seq(1..Top')
        /\ \A j \in Inodes : content'[j] = IF j = i THEN c ELSE content[j]
        /\ \A j, k \in Inodes : j # k => Disjoint(content'[j], content'[k])
        /\ \A o \in Seq(0..Top) : Disjoint(o, content[i]) => Disjoint(o, c)
        /\ \A o \in Seq(0..Top) : o \in Seq(0..Top')
    BY <1>4, ContentKeeps, Zenon
  <1>6. Followed /\ pc \notin Ended => out \in Seq(0..Top)
    BY Zenon DEF FollowInv, Typed
  <1>7. Typed'
    BY <1>2, <1>3, <1>4, <1>5, <1>6, Zenon DEF FollowInv, Typed, TailKept
  <1>8. FilesApart'
    <2>1. \A j \in Inodes : s = "named" /\ state[i] # "named" => state[j] # "named"
      BY Zenon DEF Named
    <2>2. \A j, k \in Inodes : state'[j] = "named" /\ state'[k] = "named" => j = k
      BY <1>3, <2>1, Zenon DEF FollowInv, FilesApart
    <2> QED
      BY <1>5, <2>2, Zenon DEF FilesApart
  \* A file that tail has open and that is not shrunk has grown, or is as it was.
  <1>9. ASSUME Open, ~x
        PROVE  \/ content'[fp.ino] = content[fp.ino]
               \/ fp.ino = i /\ content'[fp.ino] = Append(old, b) /\ b = Top + 1
                  /\ old \in Seq(1..Top') /\ b \in 1..Top'
    <2>1. CASE fp.ino # i
      BY <1>1, <1>5, <2>1, Zenon
    <2>2. CASE fp.ino = i
      <3>1. changes' = changes + 1 /\ c = Append(old, b)
        BY <1>9, <2>2, Zenon
      <3>2. b = Top + 1 /\ b \in 1..Top' /\ 1..Top \subseteq 1..Top'
        <4>1. /\ b = Top + 1 /\ 1..Top \subseteq 1..Top'
              /\ changes' = changes + 1 => Top + 1 \in 1..Top'
          BY <1>4, TopStep, Zenon DEF FollowInv
        <4> HIDE DEF b
        <4> QED
          BY <3>1, <4>1, Zenon
      <3>3. old \in Seq(1..Top')
        BY <1>1, <3>2, SeqMonotonic, Zenon
      <3> HIDE DEF b, old
      <3> QED
        BY <1>5, <2>2, <3>1, <3>2, <3>3, Zenon
    <2> QED
      BY <2>1, <2>2
  <1> HIDE DEF b
  <1>10. NothingShown'
    <2>1. pc \in {"open", "display"} => out = <<>>
      BY Zenon DEF FollowInv, NothingShown
    <2>2. ASSUME pc = "display", ~x PROVE sbp.size <= Len(content'[fp.ino])
      <3>1. Open
        BY <2>2 DEF Open, Ended
      <3>2. sbp.size <= Len(content[fp.ino])
        BY <2>2, Zenon DEF FollowInv, NothingShown
      <3>3. CASE content'[fp.ino] = content[fp.ino]
        BY <3>2, <3>3, Zenon
      <3>4. CASE fp.ino = i /\ content'[fp.ino] = Append(old, b) /\ old \in Seq(1..Top') /\ b \in 1..Top'
        <4>1. sbp.size <= Len(old)
          BY <3>2, <3>4, Zenon
        <4> HIDE DEF old
        <4>2. Len(Append(old, b)) = Len(old) + 1 /\ Len(old) \in Nat
          BY <3>4
        <4>3. sbp.size <= Len(old) + 1
          BY <1>1, <4>1, <4>2
        <4> QED
          BY <3>4, <4>2, <4>3, Zenon
      <3> QED
        BY <1>9, <2>2, <3>1, <3>3, <3>4, Zenon
    <2> QED
      BY <1>2, <2>1, <2>2, Zenon DEF NothingShown, TailKept
  <1>11. KnowsFile'
    <2>1. s # "free"
      OBVIOUS
    <2> QED
      BY <1>1, <1>2, <1>3, <1>4, <2>1, Zenon DEF FollowInv, KnowsFile, TailKept
  <1>12. OtherUnseen'
    <2>1. ASSUME Open, Followed, ~hist.back, ~hist.stale,
                 NEW j \in Inodes, state'[j] = "named", j # fp.ino
          PROVE  Disjoint(out, content'[j])
      <3>1. out \in Seq(0..Top)
        BY <1>4, <1>6, <2>1, Zenon
      <3>2. CASE state[j] = "named"
        <4>1. Disjoint(out, content[j])
          BY <2>1, <3>2, Zenon DEF FollowInv, OtherUnseen
        <4> QED
          BY <1>5, <3>1, <4>1, Zenon
      <3>3. CASE state[j] # "named"
        <4>1. content'[j] = <<>>
          BY <1>3, <1>5, <2>1, <3>3, Zenon
        <4> QED
          BY <4>1 DEF Disjoint
      <3> QED
        BY <3>2, <3>3
    <2> QED
      BY <1>2, <1>4, <2>1, Zenon DEF OtherUnseen, TailKept
  <1>13. FileShown'
    <2>1. ASSUME Watching, Followed, ~x, ~hist.back, ~hist.stale
          PROVE  Shown(content'[fp.ino], out, hist.first, fp.pos)
      <3>1. Shown(content[fp.ino], out, hist.first, fp.pos)
        BY <2>1, Zenon DEF FollowInv, FileShown
      <3>2. CASE content'[fp.ino] = content[fp.ino]
        BY <3>1, <3>2, Zenon
      <3>3. CASE fp.ino = i /\ content'[fp.ino] = Append(old, b) /\ b = Top + 1
                 /\ old \in Seq(1..Top') /\ b \in 1..Top'
        <4>1. Shown(old, out, hist.first, fp.pos)
          BY <3>1, <3>3, Zenon
        <4>2. Len(out) \in Nat /\ \A j \in 1..Len(out) : out[j] # b
          <5>1. out \in Seq(0..Top) /\ Top \in Nat
            BY <1>4, <1>6, <2>1, TopNat, Zenon DEF FollowInv
          <5> QED
            BY <3>3, <5>1
        <4> HIDE DEF old
        <4>3. Shown(Append(old, b), out, hist.first, fp.pos)
          BY <1>1, <3>3, <4>1, <4>2, ShownMore, Zenon
        <4> QED
          BY <3>3, <4>3, Zenon
      <3> QED
        BY <1>4, <1>9, <2>1, <3>2, <3>3, Zenon
    <2> QED
      BY <1>2, <1>4, <2>1, Zenon DEF FileShown, TailKept
  <1> QED
    BY <1>7, <1>8, <1>10, <1>11, <1>12, <1>13, Zenon DEF FollowInv

LEMMA OthersKeep == ASSUME FollowInv, Others PROVE FollowInv'
  <1>1. PICK i \in Inodes : \/ AppendByte(i) \/ Truncate(i) \/ Unname(i, "moved")
                            \/ Unname(i, "deleted") \/ Create(i) \/ GiveBack(i)
    BY Zenon DEF Others
  <1>2. /\ state \in [Inodes -> {"free", "named", "moved", "deleted"}]
        /\ hist \in [first : Nat, shrunk : BOOLEAN, back : BOOLEAN, stale : BOOLEAN]
        /\ state[i] \in {"free", "named", "moved", "deleted"} /\ hist.shrunk \in BOOLEAN
    BY DEF FollowInv, Typed
  <1>3. hist = [hist EXCEPT !.shrunk = hist.shrunk] /\ state = [state EXCEPT ![i] = state[i]]
    BY <1>2, Zenon
  <1>4. changes' = changes => changes' \in {changes, changes + 1}
    BY Zenon
  <1>5. CASE AppendByte(i)
    <2>1. state[i] \in {"named", "moved", "deleted"}
      BY <1>2, <1>5 DEF AppendByte, Free
    <2> DEFINE c == Append(content[i], opt.size + changes + 1)
    <2>2. /\ content' = [content EXCEPT ![i] = c] /\ changes' = changes + 1
          /\ state' = state /\ hist' = hist /\ TailKept
      BY <1>5, Zenon DEF AppendByte, TailKept
    <2>3. c = Append(content[i], opt.size + changes + 1)
      OBVIOUS
    <2> DEFINE s == state[i]
               x == hist.shrunk
    <2>4. /\ s \in {"named", "moved", "deleted"} /\ x \in BOOLEAN /\ (hist.shrunk => x)
          /\ state' = [state EXCEPT ![i] = s] /\ hist' = [hist EXCEPT !.shrunk = x]
          /\ (s = "named" => state[i] = "named")
      BY <1>2, <1>3, <2>1, <2>2, Zenon
    <2>5. changes' \in {changes, changes + 1}
      BY <2>2
    <2> HIDE DEF c, s, x
    <2> QED
      BY <2>2, <2>3, <2>4, <2>5, FileKeeps, Zenon
  <1>6. CASE Truncate(i)
    <2> DEFINE x == hist.shrunk \/ (Open /\ fp.ino = i)
    <2>1. /\ state[i] = "named" /\ content' = [content EXCEPT ![i] = <<>>] /\ state' = state
          /\ changes' = changes + 1 /\ hist' = [hist EXCEPT !.shrunk = x] /\ TailKept
      BY <1>2, <1>6, Zenon DEF Truncate, TailKept
    <2>2. x \in BOOLEAN /\ (hist.shrunk => x) /\ (Open /\ fp.ino = i => x)
      BY Zenon
    <2> HIDE DEF x
    <2> QED
      BY <1>3, <2>1, <2>2, FileKeeps, Zenon
  <1>7. CASE Unname(i, "moved") \/ Unname(i, "deleted")
    <2>1. PICK s \in {"moved", "deleted"} : Unname(i, s)
      BY <1>7, Zenon
    <2>2. s # "named" /\ s \in {"named", "moved", "deleted"}
      OBVIOUS
    <2> QED
      BY <2>1, <2>2, NameKeeps, Zenon DEF Unname, TailKept
  <1>8. CASE Create(i)
    <2>1. ~(Open /\ fp.ino = i)
      BY <1>8, Zenon DEF Create, Free, FollowInv, KnowsFile
    <2> QED
      BY <1>2, <1>3, <1>4, <1>8, <2>1, FileKeeps, Zenon DEF Create, TailKept
  <1>9. CASE GiveBack(i)
    BY <1>4, <1>9, NameKeeps, Zenon DEF GiveBack, TailKept
  <1> QED
    BY <1>1, <1>5, <1>6, <1>7, <1>8, <1>9, Zenon

LEMMA NextFollow == ASSUME FollowInv, [Next]_vars PROVE FollowInv'
  <1>1. CASE Kqueue \/ AddEvents \/ Kevent \/ SleepStat \/ ReadFails
    <2>1. /\ UNCHANGED <<opt, content, state, changes, sbp, fp, out, hist>>
          /\ pc \in {"follow", "act", "read"}
      BY <1>1 DEF Kqueue, AddEvents, Kevent, SleepStat, ReadFails, world
    <2>2. statbuf \in Inodes \cup {0}
      BY Zenon DEF FollowInv, Typed
    <2>3. CASE Kqueue \/ AddEvents \/ Kevent \/ ReadFails
      <3>1. statbuf' = statbuf /\ pc' \in {"read", "error"}
        BY <2>3 DEF Kqueue, AddEvents, Kevent, ReadFails
      <3>2. Watching /\ (Watching' \/ pc' = "error") /\ pc' # "freopen"
        BY <2>1, <3>1 DEF Watching
      <3> QED
        BY <2>1, <2>2, <3>1, <3>2, QuietKeeps, Zenon DEF Kept
    <2>4. CASE SleepStat
      <3>1. \/ statbuf' = statbuf /\ pc' = "read"
            \/ \E i \in Named : statbuf' = i /\ pc' = IF i # sbp.ino THEN "freopen" ELSE "read"
        BY <2>4, Zenon DEF SleepStat
      <3>2. Named \subseteq Inodes
        BY DEF Named
      <3>3. statbuf' \in Inodes \cup {0} /\ (pc' = "freopen" => statbuf' # sbp.ino)
            /\ pc' \in {"freopen", "read"}
        BY <2>2, <3>1, <3>2
      <3>4. Watching /\ Watching'
        BY <2>1, <3>3 DEF Watching
      <3> QED
        BY <2>1, <3>3, <3>4, QuietKeeps, Zenon DEF Kept
    <2> QED
      BY <1>1, <2>3, <2>4, Zenon
  <1>2. CASE DisplayReverse
    <2>1. pc' \in Ended
      BY <1>2 DEF DisplayReverse, Ended
    <2> QED
      BY <1>2, <2>1, EndKeeps, Zenon DEF DisplayReverse, world
  <1>3. CASE UNCHANGED vars
    <2>1. UNCHANGED <<opt, content, state, changes, pc, sbp, statbuf, fp, out, hist>>
      BY <1>3, Zenon DEF vars, world
    <2>2. Typed' /\ FilesApart'
      BY <2>1, Zenon DEF FollowInv, Typed, FilesApart, Top, Followed
    <2>3. NothingShown' /\ KnowsFile'
      BY <2>1, Zenon DEF FollowInv, NothingShown, KnowsFile, Open
    <2>4. OtherUnseen' /\ FileShown'
      BY <2>1, Zenon DEF FollowInv, OtherUnseen, FileShown, Open, Followed, Watching
    <2> QED
      BY <2>2, <2>3, <2>4, Zenon DEF FollowInv
  <1> QED
    BY <1>1, <1>2, <1>3, OpenKeeps, DisplayForwardKeeps, ReadKeeps, FreopenKeeps, OthersKeep, Zenon
       DEF Next, Step
-----------------------------------------------------------------------------
(* Whatever others do to the files, whenever they do it, what tail -f and  *)
(* tail -F have written of the file that is open is all of it from where   *)
(* the display started to the offset, in order, and each byte once;        *)
(* unless the file was truncated, got its name back, or was exchanged      *)
(* between stat() and freopen().                                           *)
THEOREM InOrder == Spec => []ShownInOrder
  <1>1. FollowInv => ShownInOrder
    BY Zenon DEF FollowInv, FileShown, ShownInOrder, Shown, Watching, Followed
  <1> QED
    BY <1>1, StartFollow, NextFollow, PTL DEF Spec
-----------------------------------------------------------------------------
(* Counting newlines and lines. *)

LEMMA PartOfInterval ==
    ASSUME NEW n \in Nat, NEW S, S \subseteq 1..n
    PROVE  IsFiniteSet(S) /\ Cardinality(S) \in Nat
  <1>1. IsFiniteSet(1..n)
    BY FS_Interval
  <1> QED
    BY <1>1, FS_Subset, FS_CardinalityType, Zenon

\* Sets without a common element.
LEMMA CountTwo ==
    ASSUME NEW n \in Nat, NEW S, S \subseteq 1..n, NEW T, T \subseteq 1..n, S \cap T = {}
    PROVE  Cardinality(S \cup T) = Cardinality(S) + Cardinality(T)
  <1>1. /\ IsFiniteSet(S) /\ Cardinality(S) \in Nat
        /\ IsFiniteSet(T) /\ Cardinality(T) \in Nat
    BY PartOfInterval, Zenon
  <1>2. Cardinality(S \cup T) = Cardinality(S) + Cardinality(T) - Cardinality({})
    BY <1>1, FS_Union, Zenon
  <1>3. Cardinality({}) = 0
    BY FS_EmptySet
  <1> QED
    BY <1>1, <1>2, <1>3

\* The k-th last element is the one with k elements from it on.
LEMMA KthLastIs ==
    ASSUME NEW n \in Nat, NEW S, S \subseteq 1..n, NEW x \in S
    PROVE  KthLast(S, Cardinality(From(S, x))) = x
  <1> DEFINE k == Cardinality(From(S, x))
  <1>1. ASSUME NEW u \in S, NEW v \in S, u < v PROVE Cardinality(From(S, u)) # Cardinality(From(S, v))
    <2>1. IsFiniteSet(From(S, u))
      <3>1. From(S, u) \subseteq 1..n
        BY DEF From
      <3> QED
        BY <3>1, PartOfInterval, Zenon
    <2>2. From(S, v) \subseteq From(S, u) /\ From(S, v) # From(S, u)
      <3>1. u \in From(S, u) /\ u \notin From(S, v) /\ From(S, v) \subseteq From(S, u)
        <4>1. u \in Int /\ v \in Int /\ \A y \in S : y \in Int
          OBVIOUS
        <4>2. u \in From(S, u) /\ u \notin From(S, v)
          BY <1>1, <4>1 DEF From
        <4>3. \A y \in S : y >= v => y >= u
          BY <1>1, <4>1
        <4> QED
          BY <4>2, <4>3, Zenon DEF From
      <3> QED
        BY <3>1, Zenon
    <2> QED
      BY <2>1, <2>2, FS_Subset, Zenon
  <1>2. ASSUME NEW u \in S, NEW v \in S, Cardinality(From(S, u)) = Cardinality(From(S, v)) PROVE u = v
    <2>1. u \in Int /\ v \in Int
      OBVIOUS
    <2>2. u < v \/ v < u \/ u = v
      BY <2>1
    <2> QED
      BY <1>1, <1>2, <2>2, Zenon
  <1>3. Cardinality(From(S, x)) = k
    OBVIOUS
  <1>4. KthLast(S, k) = CHOOSE v \in S : Cardinality(From(S, v)) = k
    BY Zenon DEF KthLast, From
  <1> QED
    BY <1>2, <1>3, <1>4, Zenon

\* The positions after those of N.
After(N) == {q + 1 : q \in N}

LEMMA CountNext ==
    ASSUME NEW n \in Nat, NEW N, N \subseteq 1..n
    PROVE  Cardinality(After(N)) = Cardinality(N)
  <1> DEFINE f == [q \in N |-> q + 1]
  <1>1. f \in [N -> After(N)]
    BY DEF After
  <1>2. \A a, b \in N : f[a] = f[b] => a = b
    OBVIOUS
  <1>3. \A t \in After(N) : \E s \in N : f[s] = t
    BY DEF After
  <1>4. IsFiniteSet(N)
    BY PartOfInterval, Zenon
  <1> HIDE DEF f
  <1>5. f \in Bijection(N, After(N))
    BY <1>1, <1>2, <1>3, Fun_IsBij
  <1>6. ExistsBijection(N, After(N))
    BY <1>5, Fun_ExistsBij
  <1> QED
    BY <1>4, <1>6, FS_Bijection

\* Lines start at 1 and after the newlines but the one that ends the input.
LEMMA StartsCount ==
    ASSUME NEW size \in Nat \ {0}, NEW nl, nl \subseteq 1..size, NEW N, N = nl \ {size}
    PROVE  /\ Starts(nl, size) \subseteq 1..size /\ 1 \in Starts(nl, size)
           /\ Cardinality(Starts(nl, size)) = Cardinality(N) + 1
           /\ \A p \in N : /\ p + 1 \in Starts(nl, size)
                           /\ Cardinality(From(Starts(nl, size), p + 1)) = Cardinality(From(N, p))
  <1> DEFINE S == Starts(nl, size)
  <1>1. N \subseteq 1..size /\ \A q \in N : q \in 1..(size - 1) /\ q + 1 \in 2..size
    OBVIOUS
  <1>2. S = {1} \cup After(N)
    <2>1. \A p : p \in S <=> p \in 1..size /\ (p = 1 \/ p - 1 \in nl)
      BY DEF Starts
    <2>2. \A p : p \in After(N) <=> p \in 2..size /\ p - 1 \in nl
      <3>1. ASSUME NEW p \in After(N) PROVE p \in 2..size /\ p - 1 \in nl
        <4>1. PICK q \in N : p = q + 1
          BY DEF After
        <4> QED
          BY <1>1, <4>1
      <3>2. ASSUME NEW p \in 2..size, p - 1 \in nl PROVE p \in After(N)
        <4>1. p - 1 \in N /\ p = (p - 1) + 1
          BY <3>2
        <4> QED
          BY <4>1 DEF After
      <3> QED
        BY <3>1, <3>2
    <2> HIDE DEF S
    <2>3. \A p : p \in S <=> p = 1 \/ p \in After(N)
      BY <2>1, <2>2
    <2> QED
      BY <2>3
  <1> HIDE DEF S
  <1>3. After(N) \subseteq 2..size
    BY <1>1 DEF After
  <1>4. Cardinality(S) = Cardinality(N) + 1 /\ S \subseteq 1..size /\ 1 \in S
    <2>1. After(N) \subseteq 1..size /\ 1 \notin After(N)
      BY <1>3
    <2>2. Cardinality(After(N)) = Cardinality(N) /\ IsFiniteSet(After(N))
      BY <1>1, <2>1, CountNext, PartOfInterval
    <2>3. Cardinality(After(N) \cup {1}) = Cardinality(After(N)) + 1
      BY <2>1, <2>2, FS_AddElement, Zenon
    <2>4. S = After(N) \cup {1} /\ 1 \in 1..size
      BY <1>2
    <2> QED
      BY <2>1, <2>2, <2>3, <2>4, Zenon
  <1>5. ASSUME NEW p \in N
        PROVE  /\ p + 1 \in S
               /\ Cardinality(From(S, p + 1)) = Cardinality(From(N, p))
    <2> DEFINE Nl == From(N, p)
    <2>1. p + 1 \in After(N)
      BY DEF After
    <2>2. From(S, p + 1) = After(Nl)
      <3>1. \A y : y \in After(Nl) <=> y \in After(N) /\ y >= p + 1
        BY <1>1 DEF After, From
      <3>2. ~(1 >= p + 1)
        BY <1>1
      <3> HIDE DEF Nl
      <3> QED
        BY <1>2, <3>1, <3>2 DEF From
    <2>3. Nl \subseteq 1..size
      BY <1>1 DEF From
    <2> HIDE DEF Nl
    <2>4. Cardinality(After(Nl)) = Cardinality(Nl)
      BY <2>3, CountNext
    <2> QED
      BY <1>2, <2>1, <2>2, <2>4, Zenon DEF Nl
  <1> QED
    BY <1>4, <1>5, Zenon DEF S

(* How far the search has come after k chunks, N being the newlines but    *)
(* the one that ends the file: it is where it should be, and has counted   *)
(* the newlines behind it; or it has found where the off-th last line      *)
(* starts, or 1 if there are fewer lines.                                  *)
LineStart(N, off) == IF Cardinality(N) < off THEN 1 ELSE KthLast(N, off) + 1

Right(N, size, off, k, s) ==
    IF s.from = 0
    THEN /\ s.rem = size - k * MMAP_MAXSIZE
         /\ s.off + Cardinality(N \cap (s.rem..size)) = off
    ELSE s.from = LineStart(N, off)

LEMMA ChunkRight ==
    ASSUME NEW size \in Nat \ {0}, NEW nl, nl \subseteq 1..size, NEW N, N = nl \ {size},
           \A p \in N : (size - p) % MMAP_MAXSIZE # 0,
           NEW s \in Search(size), NEW off \in Nat \ {0}, NEW k \in Nat, s.from = 0,
           Right(N, size, off, k, s)
    PROVE  Right(N, size, off, k + 1, SearchChunk(nl, s))
  <1> DEFINE M == MMAP_MAXSIZE
             m == Min({M, s.rem})
             rem == s.rem
             o == s.off
             Found == nl \cap ((s.rem - m + 1)..(s.rem - 1))
             f == Cardinality(Found)
             B == N \cap (rem..size)
  <1>1. /\ s = [rem |-> rem, off |-> o, from |-> 0] /\ rem \in 1..size /\ o \in Nat \ {0}
        /\ size \in Nat
    BY DEF Search
  <1>2. M \in Nat \ {0} /\ m \in 1..rem /\ (m # rem => m = M)
    BY <1>1, MinMaxOfTwo, TailDisplayAssumption
  <1>3. rem = size - k * M /\ o + Cardinality(B) = off
    BY DEF Right
  <1>4. SearchChunk(nl, s) =
            CASE s.from # 0 -> s
              [] s.from = 0 /\ f >= o -> [s EXCEPT !.from = KthLast(Found, o) + 1]
              [] s.from = 0 /\ f < o ->
                    IF rem = m THEN [s EXCEPT !.from = 1]
                    ELSE [s EXCEPT !.rem = @ - m, !.off = @ - f]
    BY Zenon DEF SearchChunk
  <1> HIDE DEF M, m, rem, o
  <1>5. /\ Found = N \cap ((rem - m + 1)..(rem - 1)) /\ Found \subseteq 1..size
        /\ B \subseteq 1..size /\ Found \cap B = {} /\ N \subseteq 1..size
    BY <1>1, <1>2 DEF rem
  <1>6. f \in Nat /\ Cardinality(B) \in Nat /\ Cardinality(N) \in Nat
    BY <1>5, PartOfInterval
  <1>7. Cardinality(Found \cup B) = f + Cardinality(B)
    BY <1>5, CountTwo
  <1> HIDE DEF Found, f
  <1>8. CASE f >= o
    <2> DEFINE p == KthLast(Found, o)
    <2>1. o \in 1..Cardinality(Found)
      BY <1>1, <1>6, <1>8 DEF f
    <2>2. p \in Found /\ Cardinality(From(Found, p)) = o
      BY <1>5, <2>1, KthLastThere
    <2>3. SearchChunk(nl, s) = [s EXCEPT !.from = p + 1]
      BY <1>1, <1>4, <1>6, <1>8
    <2>4. SearchChunk(nl, s).from = p + 1
      BY <1>1, <2>3
    <2> HIDE DEF p
    <2>5. p \in N /\ p \in (rem - m + 1)..(rem - 1) /\ p \in Nat
      BY <1>5, <2>2
    <2> DEFINE F == From(Found, p)
    <2>6. From(N, p) = F \cup B
      <3>1. ASSUME NEW q \in N, q >= p PROVE q \in Found \/ q \in B
        <4>1. q \in 1..size
          BY <1>5
        <4>2. q \in (rem - m + 1)..(rem - 1) \/ q \in rem..size
          BY <1>1, <1>2, <2>5, <3>1, <4>1
        <4> QED
          BY <1>5, <4>2, Zenon
      <3>2. ASSUME NEW q \in F \cup B PROVE q \in N /\ q >= p
        <4>1. q \in F => q \in N /\ q >= p
          BY <1>5 DEF From
        <4>2. q \in B => q \in N /\ q >= p
          BY <1>1, <1>2, <2>5
        <4> QED
          BY <3>2, <4>1, <4>2, Zenon
      <3> QED
        BY <3>1, <3>2 DEF From
    <2>7. F \subseteq 1..size /\ F \cap B = {}
      BY <1>5 DEF From
    <2>8. Cardinality(From(N, p)) = off
      <3>1. Cardinality(F \cup B) = o + Cardinality(B)
        BY <1>5, <2>2, <2>7, CountTwo DEF From
      <3> QED
        BY <1>3, <2>6, <3>1, Zenon
    <2>9. KthLast(N, off) = p
      <3>1. KthLast(N, Cardinality(From(N, p))) = p
        BY <1>5, <2>5, KthLastIs
      <3> QED
        BY <2>8, <3>1, Zenon
    <2>10. ~(Cardinality(N) < off)
      <3>1. IsFiniteSet(N)
        BY <1>5, PartOfInterval, Zenon
      <3>2. Cardinality(From(N, p)) <= Cardinality(N)
        BY <3>1, FS_Subset DEF From
      <3> QED
        BY <1>6, <2>8, <3>2
    <2>11. p + 1 # 0
      BY <2>5
    <2> QED
      BY <2>4, <2>9, <2>10, <2>11, Zenon DEF Right, LineStart
  <1>9. CASE f < o /\ rem = m
    <2>1. SearchChunk(nl, s) = [s EXCEPT !.from = 1]
      BY <1>1, <1>4, <1>6, <1>9
    <2>2. SearchChunk(nl, s).from = 1
      BY <1>1, <2>1
    <2>3. N = Found \cup B
      <3>1. ASSUME NEW q \in N PROVE q \in Found \/ q \in B
        <4>1. q \in 1..size
          BY <1>5
        <4>2. q \in (rem - m + 1)..(rem - 1) \/ q \in rem..size
          BY <1>1, <1>2, <1>9, <4>1
        <4> QED
          BY <1>5, <4>2, Zenon
      <3> QED
        BY <1>5, <3>1
    <2>4. Cardinality(N) < off
      <3> HIDE DEF B
      <3>1. Cardinality(N) = f + Cardinality(B)
        BY <1>7, <2>3, Zenon
      <3> QED
        BY <1>1, <1>3, <1>6, <1>9, <3>1
    <2>5. 1 # 0
      OBVIOUS
    <2> QED
      BY <2>2, <2>4, <2>5, Zenon DEF Right, LineStart
  <1>10. CASE f < o /\ rem # m
    <2>1. SearchChunk(nl, s) = [s EXCEPT !.rem = @ - m, !.off = @ - f]
      BY <1>1, <1>4, <1>6, <1>10
    <2>2. SearchChunk(nl, s).from = 0 /\ SearchChunk(nl, s).rem = rem - m
          /\ SearchChunk(nl, s).off = o - f
      BY <1>1, <2>1 DEF rem, o
    <2>3. rem - m = size - (k + 1) * M /\ m = M /\ rem - m \in 1..size
      BY <1>1, <1>2, <1>3, <1>10
    <2>4. rem - m \notin N
      <3>1. size - (rem - m) = (k + 1) * M
        BY <1>2, <2>3
      <3>2. ((k + 1) * M) % M = 0
        BY <1>2
      <3>3. (size - (rem - m)) % MMAP_MAXSIZE = 0
        BY <3>1, <3>2 DEF M
      <3> QED
        BY <3>3
    <2>5. N \cap ((rem - m)..size) = Found \cup B
      <3>1. ASSUME NEW q \in N, q \in (rem - m)..size PROVE q \in Found \/ q \in B
        <4>1. q # rem - m
          BY <2>4
        <4>2. q \in (rem - m + 1)..(rem - 1) \/ q \in rem..size
          BY <1>1, <1>2, <3>1, <4>1
        <4> QED
          BY <1>5, <4>2, Zenon
      <3>2. ASSUME NEW q \in Found \cup B PROVE q \in N /\ q \in (rem - m)..size
        <4>1. q \in Found => q \in N /\ q \in (rem - m)..size
          BY <1>1, <1>2, <1>5
        <4>2. q \in B => q \in N /\ q \in (rem - m)..size
          BY <1>1, <1>2
        <4> QED
          BY <3>2, <4>1, <4>2, Zenon
      <3> QED
        BY <3>1, <3>2
    <2>6. (o - f) + Cardinality(N \cap ((rem - m)..size)) = off
      <3> HIDE DEF B
      <3>1. Cardinality(N \cap ((rem - m)..size)) = f + Cardinality(B)
        BY <1>7, <2>5, Zenon
      <3> QED
        BY <1>1, <1>3, <1>6, <3>1
    <2> QED
      BY <2>2, <2>3, <2>6, Zenon DEF Right, M
  <1> QED
    BY <1>1, <1>6, <1>8, <1>9, <1>10

(* Without a newline at the end of a chunk, rlines() writes from where the *)
(* off-th last line starts.                                                *)
LEMMA RlinesStart ==
    ASSUME NEW size \in Nat \ {0}, NEW off \in Nat \ {0}, NEW nl, nl \subseteq 1..size,
           NEW N, N = nl \ {size}, \A p \in N : (size - p) % MMAP_MAXSIZE # 0
    PROVE  rlines(nl, size, off)[1] = LineStart(N, off)
  <1>1. PICK scan : Scanned(nl, size, off, scan)
    BY RlinesScan
  <1> DEFINE T == {k \in 0..size : Right(N, size, off, k, scan[k])}
  <1>2. 0 \in T
    <2> DEFINE x == [rem |-> size, off |-> off, from |-> 0]
    <2>1. scan[0] = x
      BY <1>1, Zenon DEF Scanned
    <2>2. x.rem = size /\ x.off = off /\ x.from = 0
      OBVIOUS
    <2>3. N \cap (size..size) = {} /\ Cardinality({}) = 0
      BY FS_EmptySet
    <2>4. size = size - 0 * MMAP_MAXSIZE /\ off + 0 = off
      BY TailDisplayAssumption
    <2> HIDE DEF x
    <2>5. Right(N, size, off, 0, x)
      BY <2>2, <2>3, <2>4, Zenon DEF Right
    <2> QED
      BY <2>1, <2>5
  <1>3. ASSUME NEW k \in 1..size, k - 1 \in T PROVE k \in T
    <2> DEFINE s == scan[k - 1]
               t == scan[k]
    <2>1. s \in Search(size) /\ t = SearchChunk(nl, s)
      BY <1>1, Zenon DEF Scanned
    <2>2. Right(N, size, off, k - 1, s) /\ k - 1 \in Nat /\ (k - 1) + 1 = k
      BY <1>3
    <2> HIDE DEF s, t
    <2>3. CASE s.from = 0
      <3>1. Right(N, size, off, (k - 1) + 1, t)
        BY <2>1, <2>2, <2>3, ChunkRight, Zenon
      <3>2. Right(N, size, off, k, t)
        BY <2>2, <3>1
      <3> QED
        BY <3>2 DEF t
    <2>4. CASE s.from # 0
      <3>1. t = s
        BY <2>1, <2>4, SearchChunkWithin
      <3>2. Right(N, size, off, k, t)
        BY <2>2, <2>4, <3>1, Zenon DEF Right
      <3> QED
        BY <3>2 DEF t
    <2> QED
      BY <2>3, <2>4
  <1> HIDE DEF T
  <1>4. size \in T
    <2>1. \A k \in 0..size : k \in T
      BY <1>2, <1>3, UpTo
    <2> QED
      BY <2>1
  <1>5. Right(N, size, off, size, scan[size])
    BY <1>4 DEF T
  <1>6. scan[size].from = LineStart(N, off)
    BY <1>1, <1>5, Zenon DEF Right, Scanned
  <1>7. rlines(nl, size, off) = <<scan[size].from, scan[size].rem>>
    BY <1>1, Zenon DEF Scanned
  <1> QED
    BY <1>6, <1>7

\* The reference: the last lines, and what comes after the first ones.
LEMMA LastLinesStart ==
    ASSUME NEW size \in Nat \ {0}, NEW off \in Nat \ {0}, NEW nl, nl \subseteq 1..size
    PROVE  LastLines(nl, size, off) = Span(LineStart(nl \ {size}, off), size)
  <1> DEFINE S == Starts(nl, size)
             N == nl \ {size}
  <1>1. /\ S \subseteq 1..size /\ Cardinality(S) = Cardinality(N) + 1
        /\ \A p \in N : p + 1 \in S /\ Cardinality(From(S, p + 1)) = Cardinality(From(N, p))
    BY StartsCount, Zenon
  <1>2. N \subseteq 1..size /\ Cardinality(N) \in Nat
    <2>1. N \subseteq 1..size
      OBVIOUS
    <2> QED
      BY <2>1, PartOfInterval
  <1>3. LastLines(nl, size, off) =
            Span(IF Cardinality(S) <= off THEN 1 ELSE IF off = 0 THEN size + 1 ELSE KthLast(S, off),
                 size)
    BY Zenon DEF LastLines
  <1> HIDE DEF S
  <1>4. CASE Cardinality(N) < off
    <2>1. Cardinality(S) <= off
      BY <1>1, <1>2, <1>4
    <2> QED
      BY <1>3, <1>4, <2>1, Zenon DEF LineStart
  <1>5. CASE ~(Cardinality(N) < off)
    <2> DEFINE p == KthLast(N, off)
    <2>1. ~(Cardinality(S) <= off) /\ off # 0 /\ off \in 1..Cardinality(N)
      BY <1>1, <1>2, <1>5
    <2>2. p \in N /\ Cardinality(From(N, p)) = off
      BY <1>2, <2>1, KthLastThere
    <2> HIDE DEF p
    <2>3. p + 1 \in S /\ Cardinality(From(S, p + 1)) = off
      BY <1>1, <2>2, Zenon
    <2>4. KthLast(S, Cardinality(From(S, p + 1))) = p + 1
      BY <1>1, <2>3, KthLastIs
    <2>5. KthLast(S, off) = p + 1
      BY <2>3, <2>4, Zenon
    <2> QED
      BY <1>3, <1>5, <2>1, <2>5, Zenon DEF LineStart, p
  <1> QED
    BY <1>4, <1>5

SkipTo(nl, size, off) ==
    IF off = 0 THEN 0
    ELSE IF Cardinality(nl) < off THEN size
    ELSE KthLast(nl, Cardinality(nl) - off + 1)

LEMMA AfterLinesStart ==
    ASSUME NEW size \in Nat, NEW off \in Nat, NEW nl, nl \subseteq 1..size
    PROVE  AfterLines(nl, size, off) = Span(SkipTo(nl, size, off) + 1, size)
  <1> DEFINE S == Starts(nl, size)
             c == Cardinality(nl)
  <1>1. AfterLines(nl, size, off) =
            Span(IF Cardinality(S) <= off THEN size + 1 ELSE KthLast(S, Cardinality(S) - off), size)
    BY Zenon DEF AfterLines
  <1>2. c \in Nat /\ IsFiniteSet(nl)
    BY PartOfInterval
  <1>3. CASE size = 0
    <2>1. S = {} /\ nl = {} /\ Cardinality({}) = 0
      BY <1>3, FS_EmptySet DEF Starts
    <2>2. Cardinality(S) <= off
      BY <2>1
    <2>3. SkipTo(nl, size, off) = 0
      BY <1>3, <2>1 DEF SkipTo
    <2>4. size + 1 = 0 + 1
      BY <1>3
    <2> HIDE DEF S
    <2> QED
      BY <1>1, <2>2, <2>3, <2>4, Zenon
  <1>4. CASE size # 0
    <2> DEFINE N == nl \ {size}
    <2>1. /\ S \subseteq 1..size /\ 1 \in S /\ Cardinality(S) = Cardinality(N) + 1
          /\ \A p \in N : p + 1 \in S /\ Cardinality(From(S, p + 1)) = Cardinality(From(N, p))
      <3>1. size \in Nat \ {0}
        BY <1>4
      <3> QED
        BY <3>1, StartsCount, Zenon
    <2>2. /\ N \subseteq 1..size /\ Cardinality(N) = IF size \in nl THEN c - 1 ELSE c
      BY <1>2, FS_RemoveElement
    <2>3. Cardinality(N) \in Nat
      BY <2>2, PartOfInterval
    <2> HIDE DEF S
    <2>4. CASE off = 0
      <3>1. From(S, 1) = S
        <4>1. \A y \in S : y >= 1
          BY <2>1
        <4> QED
          BY <4>1, Zenon DEF From
      <3>2. KthLast(S, Cardinality(From(S, 1))) = 1
        BY <2>1, KthLastIs
      <3>3. ~(Cardinality(S) <= off) /\ Cardinality(S) - off = Cardinality(S)
        BY <2>1, <2>3, <2>4
      <3>4. SkipTo(nl, size, off) + 1 = 1
        BY <2>4 DEF SkipTo
      <3> QED
        BY <1>1, <3>1, <3>2, <3>3, <3>4, Zenon
    <2>5. CASE off # 0 /\ c < off
      <3>1. Cardinality(S) <= off
        BY <1>2, <2>1, <2>2, <2>5
      <3> QED
        BY <1>1, <2>5, <3>1, Zenon DEF SkipTo
    <2>6. CASE off # 0 /\ ~(c < off)
      <3> DEFINE k == c - off + 1
                 p == KthLast(nl, k)
      <3>1. k \in 1..Cardinality(nl)
        BY <1>2, <2>6
      <3>2. p \in nl /\ Cardinality(From(nl, p)) = k
        BY <3>1, KthLastThere
      <3>3. SkipTo(nl, size, off) = p
        BY <2>6, Zenon DEF SkipTo
      <3> HIDE DEF p
      <3>4. p \in 1..size
        BY <3>2
      <3>5. From(N, p) = From(nl, p) \ {size}
        BY DEF From
      <3>6. IsFiniteSet(From(nl, p))
        <4>1. From(nl, p) \subseteq nl
          BY DEF From
        <4> QED
          BY <1>2, <4>1, FS_Subset
      <3>7. Cardinality(From(N, p)) = IF size \in nl THEN k - 1 ELSE k
        <4>1. size \in From(nl, p) <=> size \in nl
          BY <3>4 DEF From
        <4>2. Cardinality(From(nl, p) \ {size}) = IF size \in From(nl, p) THEN k - 1 ELSE k
          BY <3>2, <3>6, FS_RemoveElement
        <4> QED
          BY <3>5, <4>1, <4>2, Zenon
      <3>8. CASE p = size
        <4>1. From(N, p) = {}
          <5>1. \A y \in N : ~(y >= p)
            BY <3>8
          <5> QED
            BY <5>1, Zenon DEF From
        <4>2. k - 1 = 0
          BY <3>2, <3>7, <3>8, <4>1, FS_EmptySet
        <4>3. Cardinality(S) <= off
          BY <1>2, <2>1, <2>2, <3>2, <3>8, <4>2
        <4> QED
          BY <1>1, <3>3, <3>8, <4>3, Zenon
      <3>9. CASE p # size
        <4>1. p \in N
          BY <3>2, <3>9
        <4>2. p + 1 \in S /\ Cardinality(From(S, p + 1)) = Cardinality(From(N, p))
          BY <2>1, <4>1, Zenon
        <4>3. KthLast(S, Cardinality(From(S, p + 1))) = p + 1
          BY <2>1, <4>2, KthLastIs
        <4>4. Cardinality(S) - off = Cardinality(From(N, p))
          BY <1>2, <2>1, <2>2, <3>7
        <4>5. ~(Cardinality(S) <= off)
          <5>1. Cardinality(From(N, p)) # 0
            <6>1. p \in From(N, p)
              BY <3>4, <4>1 DEF From
            <6>2. From(N, p) \subseteq 1..size
              BY <2>2 DEF From
            <6> QED
              BY <6>1, <6>2, PartOfInterval, FS_EmptySet
          <5>2. Cardinality(From(N, p)) \in Nat
            BY <1>2, <3>1, <3>7
          <5> HIDE DEF N, c, k
          <5> QED
            BY <2>1, <2>3, <4>4, <5>1, <5>2
        <4> QED
          BY <1>1, <3>3, <4>2, <4>3, <4>4, <4>5, Zenon
      <3> QED
        BY <3>8, <3>9
    <2> QED
      BY <2>4, <2>5, <2>6
  <1> QED
    BY <1>3, <1>4
-----------------------------------------------------------------------------
(* What is displayed. *)

LEMMA SpanIs ==
    ASSUME NEW a \in Nat \ {0}, NEW n \in Nat
    PROVE  /\ Span(a, n) \in Seq(Nat)
           /\ Len(Span(a, n)) = IF a <= n THEN n - a + 1 ELSE 0
           /\ \A i \in 1..(n - a + 1) : Span(a, n)[i] = a + i - 1
  <1> DEFINE m == n - a + 1
             f == [i \in 1..m |-> a + i - 1]
  <1>1. Span(a, n) = f
    BY Zenon DEF Span
  <1>2. CASE a <= n
    <2>1. m \in Nat
      BY <1>2
    <2>2. f \in Seq(Nat) /\ Len(f) = m /\ \A i \in 1..m : f[i] = a + i - 1
      <3> HIDE DEF m
      <3> QED
        BY <2>1
    <2> HIDE DEF f
    <2> QED
      BY <1>1, <1>2, <2>2
  <1>3. CASE ~(a <= n)
    <2>1. 1..m = {} /\ 1..0 = {}
      BY <1>3
    <2>2. f = <<>>
      <3> HIDE DEF m
      <3> QED
        BY <2>1
    <2>3. <<>> \in Seq(Nat) /\ Len(<<>>) = 0
      OBVIOUS
    <2> HIDE DEF f
    <2> QED
      BY <1>1, <1>3, <2>1, <2>2, <2>3
  <1> QED
    BY <1>2, <1>3

\* The rest of the input after its first a bytes.
LEMMA SpanRest ==
    ASSUME NEW a \in Nat, NEW n \in Nat
    PROVE  SubSeq(Span(1, n), a + 1, n) = Span(a + 1, n)
  <1> DEFINE w == Span(1, n)
  <1>1. w \in Seq(Nat) /\ Len(w) = n /\ \A i \in 1..n : w[i] = i
    BY DEF Span
  <1> HIDE DEF w
  <1>2. /\ SubSeq(w, a + 1, n) \in Seq(Nat)
        /\ Len(SubSeq(w, a + 1, n)) = IF a + 1 <= n THEN n - (a + 1) + 1 ELSE 0
        /\ \A i \in 1..(n - (a + 1) + 1) : SubSeq(w, a + 1, n)[i] = w[(a + 1) + i - 1]
    <2>1. a + 1 \in Int /\ n \in Int /\ \A i \in (a + 1)..n : w[i] \in Nat
      BY <1>1
    <2> QED
      BY <2>1, SubSeqProperties
  <1>3. /\ Span(a + 1, n) \in Seq(Nat)
        /\ Len(Span(a + 1, n)) = IF a + 1 <= n THEN n - (a + 1) + 1 ELSE 0
        /\ \A i \in 1..(n - (a + 1) + 1) : Span(a + 1, n)[i] = (a + 1) + i - 1
    <2>1. a + 1 \in Nat \ {0}
      OBVIOUS
    <2> QED
      BY <2>1, SpanIs, Zenon
  <1> DEFINE s == SubSeq(w, a + 1, n)
             t == Span(a + 1, n)
  <1> HIDE DEF s, t
  <1>4. Len(s) = Len(t) /\ \A i \in 1..Len(s) : s[i] = t[i]
    BY <1>1, <1>2, <1>3 DEF s, t
  <1>5. s \in Seq(Nat) /\ t \in Seq(Nat)
    BY <1>2, <1>3, Zenon DEF s, t
  <1>6. s = t
    BY ONLY <1>4, <1>5, SeqEqual, Zenon
  <1> QED
    BY <1>6 DEF s, t, w

\* An input in two parts.
LEMMA SpanJoin ==
    ASSUME NEW n \in Nat, NEW a \in 1..n, NEW b \in a..n
    PROVE  Span(a, b) \o Span(b + 1, n) = Span(a, n)
  <1> DEFINE s == Span(a, b)
             r == Span(b + 1, n)
             w == s \o r
             t == Span(a, n)
  <1>1. /\ s \in Seq(Nat) /\ Len(s) = b - a + 1 /\ \A i \in 1..(b - a + 1) : s[i] = a + i - 1
        /\ r \in Seq(Nat) /\ Len(r) = n - b /\ \A i \in 1..(n - b) : r[i] = b + i
        /\ t \in Seq(Nat) /\ Len(t) = n - a + 1 /\ \A i \in 1..(n - a + 1) : t[i] = a + i - 1
    <2>1. a \in Nat \ {0} /\ b \in Nat /\ b + 1 \in Nat \ {0}
      OBVIOUS
    <2>2. /\ s \in Seq(Nat) /\ Len(s) = IF a <= b THEN b - a + 1 ELSE 0
          /\ \A i \in 1..(b - a + 1) : s[i] = a + i - 1
      BY <2>1, SpanIs
    <2>3. /\ r \in Seq(Nat) /\ Len(r) = IF b + 1 <= n THEN n - (b + 1) + 1 ELSE 0
          /\ \A i \in 1..(n - (b + 1) + 1) : r[i] = (b + 1) + i - 1
      BY <2>1, SpanIs
    <2>4. /\ t \in Seq(Nat) /\ Len(t) = IF a <= n THEN n - a + 1 ELSE 0
          /\ \A i \in 1..(n - a + 1) : t[i] = a + i - 1
      BY <2>1, SpanIs
    <2> HIDE DEF s, r, t
    <2> QED
      BY <2>2, <2>3, <2>4
  <1> HIDE DEF s, r, t
  <1>2. /\ w \in Seq(Nat) /\ Len(w) = Len(s) + Len(r)
        /\ \A j \in 1..(Len(s) + Len(r)) : w[j] = IF j <= Len(s) THEN s[j] ELSE r[j - Len(s)]
    BY <1>1, ConcatProperties
  <1> HIDE DEF w
  <1>3. ASSUME NEW j \in 1..Len(w) PROVE w[j] = t[j]
    <2>1. j \in 1..(Len(s) + Len(r)) /\ j \in 1..(n - a + 1) /\ t[j] = a + j - 1
      BY <1>1, <1>2
    <2>2. CASE j <= Len(s)
      <3>1. j \in 1..(b - a + 1)
        BY <1>1, <2>1, <2>2
      <3>2. w[j] = s[j] /\ s[j] = a + j - 1
        BY <1>1, <1>2, <2>1, <2>2, <3>1, Zenon
      <3> QED
        BY <2>1, <3>2
    <2>3. CASE ~(j <= Len(s))
      <3>1. j - Len(s) \in 1..(n - b)
        BY <1>1, <2>1, <2>3
      <3>2. w[j] = r[j - Len(s)] /\ r[j - Len(s)] = b + (j - Len(s))
        BY <1>1, <1>2, <2>1, <2>3, <3>1, Zenon
      <3> QED
        BY <1>1, <2>1, <3>2
    <2> QED
      BY <2>2, <2>3
  <1>4. Len(w) = Len(t)
    BY <1>1, <1>2
  <1>5. w = t
    BY ONLY <1>1, <1>2, <1>3, <1>4, SeqEqual, Zenon
  <1> QED
    BY <1>5 DEF s, r, w, t

(* What is read from offset p on is what is asked for. *)

LEMMA BytesFrom ==
    ASSUME NEW size \in Nat, NEW off \in Nat
    PROVE  SubSeq(Span(1, size), Min({off, size}) + 1, size) = SubSeq(Span(1, size), off + 1, size)
  <1>1. Min({off, size}) = IF off <= size THEN off ELSE size
    BY MinMaxOfTwo
  <1>2. CASE off <= size
    <2>1. Min({off, size}) = off
      BY <1>1, <1>2, Zenon
    <2> QED
      BY <2>1, Zenon
  <1>3. CASE ~(off <= size)
    <2>1. Min({off, size}) = size
      BY <1>1, <1>3, Zenon
    <2>2. SubSeq(Span(1, size), size + 1, size) = Span(size + 1, size)
      BY SpanRest
    <2>3. SubSeq(Span(1, size), off + 1, size) = Span(off + 1, size)
      BY SpanRest
    <2>4. 1..(size - (size + 1) + 1) = {} /\ 1..(size - (off + 1) + 1) = {}
      BY <1>3
    <2>5. Span(size + 1, size) = Span(off + 1, size)
      BY <2>4 DEF Span
    <2> QED
      BY <2>1, <2>2, <2>3, <2>5, Zenon
  <1> QED
    BY <1>2, <1>3

LEMMA LastBytesFrom ==
    ASSUME NEW size \in Nat, NEW off \in Nat,
           NEW p, p = IF size >= off THEN size - off ELSE 0
    PROVE  p \in Nat /\ SubSeq(Span(1, size), p + 1, size) = LastBytes(size, off)
  <1>1. Max({1, size - off + 1}) = IF 1 >= size - off + 1 THEN 1 ELSE size - off + 1
    <2>1. 1 \in Int /\ size - off + 1 \in Int
      OBVIOUS
    <2> QED
      BY <2>1, MinMaxOfTwo, Zenon
  <1>2. p \in Nat /\ Max({1, size - off + 1}) = p + 1
    BY <1>1
  <1>3. SubSeq(Span(1, size), p + 1, size) = Span(p + 1, size)
    BY <1>2, SpanRest, Zenon
  <1> QED
    BY <1>2, <1>3, Zenon DEF LastBytes

\* No lines, or none to take them from.
LEMMA NoLinesFrom ==
    ASSUME NEW size \in Nat, NEW off \in Nat, NEW nl, nl \subseteq 1..size, off = 0 \/ size = 0,
           NEW p, p = IF off = 0 THEN size ELSE 0
    PROVE  p \in Nat /\ SubSeq(Span(1, size), p + 1, size) = LastLines(nl, size, off)
  <1> DEFINE S == Starts(nl, size)
  <1>1. p = size /\ p \in Nat
    OBVIOUS
  <1>2. SubSeq(Span(1, size), size + 1, size) = Span(size + 1, size)
    BY SpanRest
  <1>3. LastLines(nl, size, off) =
            Span(IF Cardinality(S) <= off THEN 1 ELSE IF off = 0 THEN size + 1 ELSE KthLast(S, off),
                 size)
    BY Zenon DEF LastLines
  <1>4. CASE size = 0
    <2>1. S = {} /\ Cardinality({}) = 0 /\ size + 1 = 1
      BY <1>4, FS_EmptySet DEF Starts
    <2>2. Cardinality(S) <= off
      BY <2>1
    <2> HIDE DEF S
    <2> QED
      BY <1>1, <1>2, <1>3, <2>1, <2>2, Zenon
  <1>5. CASE size # 0
    <2> DEFINE N == nl \ {size}
    <2>1. off = 0 /\ size \in Nat \ {0}
      BY <1>5
    <2>2. S \subseteq 1..size /\ 1 \in S /\ Cardinality(S) = Cardinality(N) + 1
      BY <2>1, StartsCount, Zenon
    <2>3. Cardinality(N) \in Nat
      <3>1. N \subseteq 1..size
        OBVIOUS
      <3> QED
        BY <3>1, PartOfInterval
    <2> HIDE DEF S, N
    <2>4. ~(Cardinality(S) <= off)
      BY <2>1, <2>2, <2>3
    <2> QED
      BY <1>1, <1>2, <1>3, <2>1, <2>4, Zenon
  <1> QED
    BY <1>4, <1>5

LEMMA LinesFrom ==
    ASSUME NEW size \in Nat \ {0}, NEW off \in Nat \ {0}, NEW nl, nl \subseteq 1..size,
           \A p \in nl \ {size} : (size - p) % MMAP_MAXSIZE # 0,
           NEW r, r = rlines(nl, size, off)
    PROVE  /\ r[1] \in 1..size /\ r[2] \in r[1]..size
           /\ Span(r[1], r[2]) \o SubSeq(Span(1, size), r[2] + 1, size) = LastLines(nl, size, off)
  <1>1. r[1] \in 1..size /\ r[2] \in 1..size /\ r[1] <= r[2]
    BY RlinesWithin
  <1>2. r[1] = LineStart(nl \ {size}, off)
    BY RlinesStart, Zenon
  <1>3. LastLines(nl, size, off) = Span(LineStart(nl \ {size}, off), size)
    BY LastLinesStart
  <1>4. r[2] \in r[1]..size /\ r[2] \in Nat /\ size \in Nat
    BY <1>1
  <1>5. SubSeq(Span(1, size), r[2] + 1, size) = Span(r[2] + 1, size)
    BY <1>4, SpanRest
  <1>6. Span(r[1], r[2]) \o Span(r[2] + 1, size) = Span(r[1], size)
    BY <1>1, <1>4, SpanJoin
  <1> QED
    BY <1>1, <1>2, <1>3, <1>4, <1>5, <1>6, Zenon

LEMMA AfterLinesFrom ==
    ASSUME NEW size \in Nat, NEW off \in Nat, NEW nl, nl \subseteq 1..size
    PROVE  /\ SkipTo(nl, size, off) \in Nat
           /\ SubSeq(Span(1, size), SkipTo(nl, size, off) + 1, size) = AfterLines(nl, size, off)
  <1> DEFINE p == SkipTo(nl, size, off)
             k == Cardinality(nl) - off + 1
  <1>1. p \in Nat
    <2>1. Cardinality(nl) \in Nat
      BY PartOfInterval
    <2>2. CASE off # 0 /\ ~(Cardinality(nl) < off)
      <3>1. k \in 1..Cardinality(nl)
        BY <2>1, <2>2
      <3>2. KthLast(nl, k) \in nl
        BY <3>1, KthLastThere
      <3>3. p = KthLast(nl, k)
        BY <2>2, Zenon DEF SkipTo
      <3>4. \A q \in nl : q \in Nat
        OBVIOUS
      <3> QED
        BY <3>2, <3>3, <3>4, Zenon
    <2> QED
      BY <2>1, <2>2 DEF SkipTo
  <1>2. SubSeq(Span(1, size), p + 1, size) = Span(p + 1, size)
    BY <1>1, SpanRest
  <1> QED
    BY <1>1, <1>2, AfterLinesStart, Zenon
-----------------------------------------------------------------------------
(* The display of an input that is not followed: forward() on a file, and  *)
(* on a pipe with +.                                                       *)

Forwards == ~opt.rflag /\ (opt.reg \/ opt.style \in {"FBYTES", "FLINES"})

\* What has been written, and what will be read.
Written == out \o SubSeq(Span(1, opt.size), fp.pos + 1, opt.size)

OneFile ==
    /\ content[1] = Span(1, opt.size) /\ fp.ino = 1
    /\ \A i \in Inodes : state[i] = "named" <=> i = 1
    /\ pc \in {"open", "display", "follow", "read"} \cup Ended

AsAsked ==
    /\ pc \in {"open", "display"} => out = <<>>
    /\ pc = "display" => sbp.size = opt.size
    /\ pc \in {"follow", "read"} /\ ~ChunkEndsLine => Written = Asked
    /\ pc = "exit" /\ ~ChunkEndsLine => out = Asked

DisplayInv ==
    /\ pc = "exit" => opt.rflag \/ opt.fflag = 0
    /\ Forwards /\ opt.fflag = 0 => OneFile /\ AsAsked

LEMMA AskedIs ==
    ASSUME ~opt.rflag
    PROVE  /\ opt.style = "FBYTES" => Asked = SubSeq(Span(1, opt.size), opt.off + 1, opt.size)
           /\ opt.style = "FLINES" => Asked = AfterLines(opt.nl, opt.size, opt.off)
           /\ opt.style = "RBYTES" => Asked = LastBytes(opt.size, opt.off)
           /\ opt.style = "RLINES" => Asked = LastLines(opt.nl, opt.size, opt.off)
  BY DEF Asked

LEMMA OptFacts ==
    ASSUME Typed
    PROVE  /\ opt.size \in Nat /\ opt.off \in Nat /\ opt.fflag \in Nat /\ opt.nl \subseteq 1..opt.size
           /\ opt.rflag \in BOOLEAN /\ opt.reg \in BOOLEAN
  <1>1. opt \in Opts
    BY Zenon DEF Typed
  <1> QED
    BY <1>1, OptsAssumption

LEMMA StartDisplay == ASSUME Init PROVE DisplayInv
  <1>1. /\ pc = "open" /\ out = <<>> /\ fp = [ino |-> 1, pos |-> 0]
        /\ content = [i \in Inodes |-> IF i = 1 THEN Span(1, opt.size) ELSE <<>>]
        /\ state = [i \in Inodes |-> IF i = 1 THEN "named" ELSE "free"] /\ 1 \in Inodes
    BY TailAssumption, Zenon DEF Init
  <1>2. content[1] = Span(1, opt.size) /\ \A i \in Inodes : state[i] = "named" <=> i = 1
    BY <1>1
  <1>3. fp.ino = 1 /\ pc \in {"open", "display", "follow", "read"} \cup Ended
    BY <1>1
  <1>4. OneFile
    BY <1>2, <1>3, Zenon DEF OneFile
  <1>5. AsAsked /\ pc # "exit"
    BY <1>1 DEF AsAsked
  <1> QED
    BY <1>4, <1>5, Zenon DEF DisplayInv

\* The display is all in the file.
LEMMA SeekShows ==
    ASSUME Typed, out = <<>>, out' = out, opt' = opt, NEW p \in Nat, At(p),
           SubSeq(Span(1, opt.size), p + 1, opt.size) = Asked
    PROVE  Written' = Asked'
  <1> DEFINE w == SubSeq(Span(1, opt.size), p + 1, opt.size)
  <1>1. fp'.pos = p
    <2>1. fp \in [ino : Inodes, pos : Nat] /\ fp' = [fp EXCEPT !.pos = p]
      BY Zenon DEF Typed, At
    <2> QED
      BY <2>1
  <1>2. w \in Seq(Nat)
    <2>1. opt.size \in Nat /\ p + 1 \in Nat \ {0}
      BY OptFacts
    <2>2. w = Span(p + 1, opt.size) /\ Span(p + 1, opt.size) \in Seq(Nat)
      BY <2>1, SpanRest, SpanIs, Zenon
    <2> QED
      BY <2>2, Zenon
  <1>3. Written' = <<>> \o w
    BY <1>1, Zenon DEF Written
  <1>4. <<>> \o w = w
    BY <1>2, ConcatEmptySeq, Zenon
  <1>5. Asked' = Asked
    BY Zenon DEF Asked
  <1> QED
    BY <1>3, <1>4, <1>5, Zenon

\* forward() gets to where what is asked for is, or starts, in the input.
LEMMA ForwardShows ==
    ASSUME Typed, OneFile, AsAsked, Forwards, DisplayForward
    PROVE  /\ fp'.ino = 1
           /\ \/ pc' \in {"error", "sigbus"}
              \/ pc' = "follow" /\ (~ChunkEndsLine => Written' = Asked')
  <1> DEFINE size == opt.size
             off == opt.off
             nl == opt.nl
             now == Len(content[fp.ino])
             Goal == pc' = "follow" /\ (~ChunkEndsLine => Written' = Asked')
             Rest(p) == SubSeq(Span(1, size), p + 1, size)
  <1>1. pc = "display" /\ opt' = opt /\ out = <<>> /\ sbp.size = size /\ ~opt.rflag
    BY Zenon DEF DisplayForward, AsAsked, Forwards
  <1>2. size \in Nat /\ off \in Nat /\ nl \subseteq 1..size
    BY OptFacts
  <1>3. content[fp.ino] = Span(1, size) /\ now = size /\ \A p \in 1..size : content[fp.ino][p] = p
    <2>1. content[fp.ino] = Span(1, size)
      BY Zenon DEF OneFile
    <2>2. 1 \in Nat \ {0}
      OBVIOUS
    <2>3. /\ Len(Span(1, size)) = IF 1 <= size THEN size - 1 + 1 ELSE 0
          /\ \A i \in 1..(size - 1 + 1) : Span(1, size)[i] = 1 + i - 1
      BY <1>2, <2>2, SpanIs, Zenon
    <2>4. Len(Span(1, size)) = size /\ \A i \in 1..size : Span(1, size)[i] = i
      <3> HIDE DEF size
      <3> QED
        BY <1>2, <2>3
    <2> QED
      BY <2>1, <2>4, Zenon
  <1>4. fp'.ino = 1
    <2>1. fp \in [ino : Inodes, pos : Nat] /\ fp.ino = 1
      BY Zenon DEF Typed, OneFile
    <2>2. fp' = fp \/ \E p : fp' = [fp EXCEPT !.pos = p]
      BY Zenon DEF DisplayForward, At
    <2> QED
      BY <2>1, <2>2
  <1>5. ASSUME NEW p \in Nat, At(p), pc' = "follow", UNCHANGED out, Rest(p) = Asked PROVE Goal
    BY <1>1, <1>5, SeekShows, Zenon
  <1> HIDE DEF now, Goal
  <1>6. CASE /\ opt.style = "FBYTES"
             /\ At(IF opt.reg THEN Min({opt.off, sbp.size}) ELSE Min({opt.off, now}))
             /\ pc' = "follow" /\ UNCHANGED out
    <2> DEFINE p == Min({off, size})
    <2>1. At(p)
      BY <1>1, <1>3, <1>6, Zenon
    <2>2. p \in Nat
      <3>1. Min({off, size}) = IF off <= size THEN off ELSE size
        BY <1>2, MinMaxOfTwo
      <3> QED
        BY <1>2, <3>1
    <2>3. Rest(p) = Asked
      BY <1>1, <1>2, <1>6, BytesFrom, AskedIs, Zenon
    <2> QED
      BY <1>4, <1>5, <1>6, <2>1, <2>2, <2>3, Zenon DEF Goal
  <1>7. CASE /\ opt.style = "FLINES"
             /\ At(IF opt.off = 0 THEN 0 ELSE SkipLines)
             /\ pc' = "follow" /\ UNCHANGED out
    <2> DEFINE p == SkipTo(nl, size, off)
    <2>1. At(p)
      <3> DEFINE S == {q \in 1..now : content[fp.ino][q] \in nl}
      <3>1. S = nl
        <4> HIDE DEF size, nl
        <4> QED
          BY <1>2, <1>3
      <3>2. SkipLines = IF Cardinality(S) < off THEN now ELSE KthLast(S, Cardinality(S) - off + 1)
        BY Zenon DEF SkipLines, now
      <3>3. SkipLines = IF Cardinality(nl) < off THEN size ELSE KthLast(nl, Cardinality(nl) - off + 1)
        BY <1>3, <3>1, <3>2, Zenon
      <3> QED
        BY <1>7, <3>3, Zenon DEF SkipTo
    <2>2. p \in Nat /\ Rest(p) = AfterLines(nl, size, off)
      BY <1>2, AfterLinesFrom, Zenon
    <2>3. Asked = AfterLines(nl, size, off)
      BY <1>1, <1>7, AskedIs, Zenon
    <2> HIDE DEF p
    <2> QED
      BY <1>4, <1>5, <1>7, <2>1, <2>2, <2>3, Zenon DEF Goal
  <1>8. CASE /\ opt.style = "RBYTES" /\ opt.reg
             /\ IF sbp.size >= opt.off /\ now < opt.off
                THEN pc' = "error" /\ UNCHANGED <<fp, hist>>
                ELSE At(IF sbp.size >= opt.off THEN now - opt.off ELSE 0) /\ pc' = "follow"
             /\ UNCHANGED out
    <2> DEFINE p == IF size >= off THEN size - off ELSE 0
    <2>1. ~(size >= off /\ size < off)
      BY <1>2
    <2>2. At(p) /\ pc' = "follow"
      BY <1>1, <1>3, <1>8, <2>1, Zenon
    <2>3. p = IF size >= off THEN size - off ELSE 0
      OBVIOUS
    <2> HIDE DEF p
    <2>4. p \in Nat /\ Rest(p) = LastBytes(size, off)
      BY <1>2, <2>3, LastBytesFrom, Zenon
    <2>5. Asked = LastBytes(size, off)
      BY <1>1, <1>8, AskedIs, Zenon
    <2> QED
      BY <1>4, <1>5, <1>8, <2>2, <2>4, <2>5, Zenon DEF Goal
  <1>9. CASE /\ opt.style = "RLINES" /\ opt.reg /\ (opt.off = 0 \/ sbp.size = 0)
             /\ At(IF opt.off = 0 THEN now ELSE 0)
             /\ pc' = "follow" /\ UNCHANGED out
    <2> DEFINE p == IF off = 0 THEN size ELSE 0
    <2>1. At(p) /\ (off = 0 \/ size = 0) /\ p = IF off = 0 THEN size ELSE 0
      BY <1>1, <1>3, <1>9, Zenon
    <2> HIDE DEF p
    <2>2. p \in Nat /\ Rest(p) = LastLines(nl, size, off)
      BY <1>2, <2>1, NoLinesFrom, ZenonT(60)
    <2>3. Asked = LastLines(nl, size, off)
      BY <1>1, <1>9, AskedIs, Zenon
    <2> QED
      BY <1>4, <1>5, <1>9, <2>1, <2>2, <2>3, Zenon DEF Goal
  <1>10. CASE /\ opt.style = "RLINES" /\ opt.reg /\ opt.off > 0 /\ MmapFails(sbp.size)
              /\ pc' = "error" /\ UNCHANGED <<fp, out, hist>>
    BY <1>4, <1>10
  <1>11. CASE /\ opt.style = "RLINES" /\ opt.reg /\ opt.off > 0 /\ sbp.size > 0
              /\ ~MmapFails(sbp.size)
              /\ IF now = 0
                 THEN pc' = "sigbus" /\ UNCHANGED <<fp, out, hist>>
                 ELSE LET r == rlines({p \in 1..sbp.size : Mapped(p) \in opt.nl}, sbp.size, opt.off)
                      IN  /\ out' = [k \in 1..(r[2] - r[1] + 1) |-> Mapped(r[1] + k - 1)]
                          /\ fp' = [fp EXCEPT !.pos = r[2]]
                          /\ hist' = [hist EXCEPT !.first = r[1] - 1]
                          /\ pc' = "follow"
    <2> DEFINE r == rlines(nl, size, off)
    <2>1. size \in Nat \ {0} /\ off \in Nat \ {0} /\ size # 0
      BY <1>1, <1>2, <1>11
    <2>2. \A p \in 1..size : Mapped(p) = p
      <3>1. \A p \in 1..size : p <= now
        <4> HIDE DEF size
        <4> QED
          BY <1>2, <1>3
      <3> QED
        BY <1>3, <3>1, Zenon DEF Mapped, now
    <2>3. rlines({p \in 1..sbp.size : Mapped(p) \in opt.nl}, sbp.size, opt.off) = r
      <3> DEFINE S == {p \in 1..sbp.size : Mapped(p) \in opt.nl}
      <3>1. S = nl
        <4>1. S = {p \in 1..size : Mapped(p) \in nl}
          BY <1>1
        <4> HIDE DEF S, size, nl
        <4> QED
          BY <1>2, <2>2, <4>1
      <3> HIDE DEF S
      <3>2. rlines(S, sbp.size, opt.off) = r
        BY <1>1, <3>1, Zenon
      <3> QED
        BY <3>2, Zenon DEF S
    <2>4. /\ out' = [k \in 1..(r[2] - r[1] + 1) |-> Mapped(r[1] + k - 1)]
          /\ fp' = [fp EXCEPT !.pos = r[2]] /\ pc' = "follow"
      <3>1. now # 0
        BY <1>3, <2>1, Zenon
      <3> HIDE DEF r
      <3> QED
        BY <1>11, <2>3, <3>1, Zenon
    <2>5. r[1] \in 1..size /\ r[2] \in 1..size /\ r[1] <= r[2] /\ r = rlines(nl, size, off)
      BY <1>2, <2>1, RlinesWithin
    <2> HIDE DEF r
    <2>6. out' = Span(r[1], r[2])
      <3>1. \A k \in 1..(r[2] - r[1] + 1) : Mapped(r[1] + k - 1) = r[1] + k - 1
        <4> HIDE DEF size
        <4>1. \A k \in 1..(r[2] - r[1] + 1) : r[1] + k - 1 \in 1..size
          BY <1>2, <2>5
        <4> QED
          BY <2>2, <4>1, Zenon
      <3> QED
        BY <2>4, <3>1, Zenon DEF Span
    <2>7. fp'.pos = r[2]
      <3>1. fp \in [ino : Inodes, pos : Nat]
        BY Zenon DEF Typed
      <3> QED
        BY <2>4, <3>1
    <2>8. ASSUME ~ChunkEndsLine PROVE Written' = Asked'
      <3>1. \A p \in nl \ {size} : (size - p) % MMAP_MAXSIZE # 0
        <4>1. \A p \in nl : p < opt.size => (opt.size - p) % MMAP_MAXSIZE # 0
          BY <1>1, <1>11, <2>8, Zenon DEF ChunkEndsLine
        <4>2. \A p \in nl \ {size} : p < size
          <5> HIDE DEF size, nl
          <5> QED
            BY <1>2
        <4> QED
          BY <4>1, <4>2, Zenon
      <3>2. Span(r[1], r[2]) \o Rest(r[2]) = LastLines(nl, size, off)
        BY <1>2, <2>1, <2>5, <3>1, LinesFrom, Zenon
      <3>3. Asked = LastLines(nl, size, off) /\ Asked' = Asked
        BY <1>1, <1>11, AskedIs, Zenon DEF Asked
      <3>4. Written' = out' \o Rest(r[2])
        BY <1>1, <2>7, Zenon DEF Written
      <3> QED
        BY <2>6, <3>2, <3>3, <3>4, Zenon
    <2> QED
      BY <1>4, <2>4, <2>8, Zenon
  <1>12. ~(opt.style \in {"RBYTES", "RLINES"} /\ ~opt.reg)
    BY DEF Forwards
  <1> QED
    BY <1>4, <1>6, <1>7, <1>8, <1>9, <1>10, <1>11, <1>12, Zenon DEF DisplayForward, Goal, now

LEMMA NextDisplay == ASSUME Typed, DisplayInv, [Next]_vars PROVE DisplayInv'
  <1>1. /\ (Forwards /\ opt.fflag = 0)' <=> Forwards /\ opt.fflag = 0
        /\ ChunkEndsLine' <=> ChunkEndsLine
        /\ Asked' = Asked /\ opt' = opt
    <2>1. opt' = opt
      <3>1. Step \/ ReadFails => opt' = opt
        BY Zenon DEF Step, FopenFstat, DisplayReverse, DisplayForward, Kqueue, Read, AddEvents, Kevent,
              SleepStat, Freopen, ReadFails
      <3>2. Others => opt' = opt
        BY Zenon DEF Others, AppendByte, Truncate, Unname, Create, GiveBack
      <3> QED
        BY <3>1, <3>2, Zenon DEF Next, vars
    <2>2. (Forwards /\ opt.fflag = 0)' <=> Forwards /\ opt.fflag = 0
      BY <2>1, Zenon DEF Forwards
    <2>3. ChunkEndsLine' <=> ChunkEndsLine
      BY <2>1 DEF ChunkEndsLine
    <2>4. Asked' = Asked
      BY ONLY <2>1 DEF Asked
    <2> QED
      BY <2>1, <2>2, <2>3, <2>4, Zenon
  <1>2. pc' = "exit" => pc = "exit" \/ opt.rflag \/ opt.fflag = 0
    <2>1. CASE Next
      <3>1. CASE DisplayReverse
        BY <3>1, Zenon DEF DisplayReverse
      <3>2. CASE Read
        <4>1. opt.fflag \in Nat
          BY OptFacts
        <4>2. opt.fflag > 0 \/ opt.fflag = 0
          BY <4>1
        <4>3. opt.fflag > 0 => pc' = "act"
          BY <3>2, Zenon DEF Read
        <4> QED
          BY <4>2, <4>3
      <3>3. CASE FopenFstat \/ DisplayForward \/ Kqueue \/ AddEvents \/ Kevent \/ SleepStat \/ Freopen
                 \/ ReadFails
        BY <3>3 DEF FopenFstat, DisplayForward, Kqueue, AddEvents, Kevent, SleepStat, Freopen, ReadFails
      <3>4. CASE Others
        BY <3>4, Zenon DEF Others, AppendByte, Truncate, Unname, Create, GiveBack
      <3> QED
        BY <2>1, <3>1, <3>2, <3>3, <3>4, Zenon DEF Next, Step
    <2> QED
      BY <2>1, Zenon DEF vars
  <1>3. ASSUME Forwards, opt.fflag = 0 PROVE (OneFile /\ AsAsked)'
    <2>1. OneFile /\ AsAsked /\ ~opt.rflag /\ ~(opt.fflag > 0)
      BY <1>3 DEF DisplayInv, Forwards
    <2>2. pc \notin {"act", "freopen"} /\ Named = {1}
      BY <2>1, TailAssumption DEF OneFile, Ended, Named
    <2>3. ASSUME UNCHANGED <<content, state>>, fp'.ino = fp.ino,
                 pc' \in {"open", "display", "follow", "read"} \cup Ended
          PROVE  OneFile'
      BY <1>1, <2>1, <2>3, Zenon DEF OneFile
    <2>4. CASE FopenFstat
      <3>1. /\ UNCHANGED <<content, state, out>> /\ fp' = [ino |-> 1, pos |-> 0] /\ pc' = "display"
            /\ sbp' = [ino |-> 1, size |-> Len(content[1])] /\ pc = "open"
        BY <2>2, <2>4 DEF FopenFstat, world
      <3>2. fp'.ino = fp.ino /\ sbp'.size = Len(content[1])
            /\ pc' \in {"open", "display", "follow", "read"} \cup Ended
        <4>1. fp.ino = 1
          BY <2>1, Zenon DEF OneFile
        <4> QED
          BY <3>1, <4>1
      <3>3. Len(content[1]) = opt.size
        <4>1. content[1] = Span(1, opt.size) /\ opt.size \in Nat
          BY <2>1, OptFacts, Zenon DEF OneFile
        <4>2. Len(Span(1, opt.size)) = IF 1 <= opt.size THEN opt.size - 1 + 1 ELSE 0
          <5>1. 1 \in Nat \ {0}
            OBVIOUS
          <5> QED
            BY <4>1, <5>1, SpanIs, Zenon
        <4> QED
          BY <4>1, <4>2
      <3>4. out = <<>>
        BY <2>1, <3>1, Zenon DEF AsAsked
      <3>5. AsAsked'
        BY <1>1, <3>1, <3>2, <3>3, <3>4 DEF AsAsked
      <3> QED
        BY <2>3, <3>1, <3>2, <3>5, Zenon
    <2>5. CASE DisplayForward
      <3>1. /\ fp'.ino = 1
            /\ \/ pc' \in {"error", "sigbus"}
               \/ pc' = "follow" /\ (~ChunkEndsLine => Written' = Asked')
        BY <1>3, <2>1, <2>5, ForwardShows, Zenon
      <3>2. UNCHANGED <<content, state>> /\ fp.ino = 1
        BY <2>1, <2>5, Zenon DEF DisplayForward, world, OneFile
      <3>3. pc' \in {"open", "display", "follow", "read"} \cup Ended
        BY <3>1 DEF Ended
      <3>4. AsAsked'
        <4>1. CASE pc' \in {"error", "sigbus"}
          BY <4>1 DEF AsAsked
        <4>2. CASE pc' = "follow" /\ (~ChunkEndsLine => Written' = Asked')
          <5>1. pc' \notin {"open", "display", "exit"}
            BY <4>2
          <5> QED
            BY <1>1, <4>2, <5>1, Zenon DEF AsAsked
        <4> QED
          BY <3>1, <4>1, <4>2, Zenon
      <3> QED
        BY <2>3, <3>1, <3>2, <3>3, <3>4, Zenon
    <2>6. CASE Kqueue
      <3>1. UNCHANGED <<content, state, fp, out>> /\ pc = "follow" /\ pc' = "read"
        BY <2>6, Zenon DEF Kqueue, world
      <3>2. Written' = Written
        BY <1>1, <3>1, Zenon DEF Written
      <3>3. AsAsked'
        <4>1. /\ pc' \notin {"open", "display", "exit"}
              /\ pc \in {"follow", "read"} /\ pc' \in {"open", "display", "follow", "read"} \cup Ended
          BY <3>1
        <4> QED
          BY <1>1, <2>1, <3>2, <4>1, Zenon DEF AsAsked
      <3> QED
        BY <2>3, <3>1, <3>3
    <2>7. CASE Read
      <3>1. /\ out' = out \o SubSeq(content[fp.ino], fp.pos + 1, Len(content[fp.ino]))
            /\ fp' = [fp EXCEPT !.pos = Max({@, Len(content[fp.ino])})]
            /\ pc = "read" /\ pc' = "exit" /\ UNCHANGED <<content, state>>
        BY <2>1, <2>7, Zenon DEF Read, world
      <3>2. content[fp.ino] = Span(1, opt.size) /\ Len(Span(1, opt.size)) = opt.size
        <4>1. content[fp.ino] = Span(1, opt.size) /\ opt.size \in Nat
          BY <2>1, OptFacts, Zenon DEF OneFile
        <4>2. Len(Span(1, opt.size)) = IF 1 <= opt.size THEN opt.size - 1 + 1 ELSE 0
          <5>1. 1 \in Nat \ {0}
            OBVIOUS
          <5> QED
            BY <4>1, <5>1, SpanIs, Zenon
        <4> QED
          BY <4>1, <4>2
      <3>3. out' = Written
        BY <3>1, <3>2, Zenon DEF Written
      <3>4. fp'.ino = fp.ino
        <4>1. fp \in [ino : Inodes, pos : Nat]
          BY Zenon DEF Typed
        <4> QED
          BY <3>1, <4>1
      <3>5. AsAsked'
        <4>1. pc' \notin {"open", "display", "follow", "read"} /\ pc \in {"follow", "read"}
          BY <3>1
        <4> QED
          BY <1>1, <2>1, <3>3, <4>1, Zenon DEF AsAsked
      <3>6. pc' \in {"open", "display", "follow", "read"} \cup Ended
        BY <3>1 DEF Ended
      <3> QED
        BY <2>3, <3>1, <3>4, <3>5, <3>6, Zenon
    <2>8. CASE UNCHANGED vars
      <3>1. UNCHANGED <<opt, content, state, pc, sbp, fp, out>>
        BY <2>8, Zenon DEF vars, world
      <3>2. pc \in {"open", "display", "follow", "read"} \cup Ended /\ Written' = Written
        BY <2>1, <3>1, Zenon DEF OneFile, Written
      <3> QED
        BY <1>1, <2>1, <2>3, <3>1, <3>2, Zenon DEF AsAsked
    <2>9. ~(DisplayReverse \/ AddEvents \/ Kevent \/ SleepStat \/ Freopen \/ ReadFails \/ Others)
      <3>1. ~(DisplayReverse \/ ReadFails \/ Others)
        BY <2>1, Zenon DEF DisplayReverse, ReadFails, Others, AppendByte, Truncate, Unname, Create,
              GiveBack
      <3>2. pc # "act" /\ pc # "freopen"
        BY <2>2
      <3> QED
        BY <3>1, <3>2, Zenon DEF AddEvents, Kevent, SleepStat, Freopen
    <2> QED
      BY <2>4, <2>5, <2>6, <2>7, <2>8, <2>9, Zenon DEF Next, Step
  <1>4. pc' = "exit" => opt'.rflag \/ opt'.fflag = 0
    BY <1>1, <1>2, Zenon DEF DisplayInv
  <1>5. Forwards' /\ opt'.fflag = 0 => (OneFile /\ AsAsked)'
    BY <1>1, <1>3, Zenon
  <1> QED
    BY <1>4, <1>5, Zenon DEF DisplayInv

(* Whatever the size of the input and of the chunks it is mapped in, and   *)
(* wherever newlines are, forward() displays what the options ask for, of  *)
(* a file or, with +, of a pipe; unless a newline ends a chunk.            *)
THEOREM DisplaysForward == Spec => [](Forwards => DisplaysAskedUsually)
  <1>1. DisplayInv => (Forwards => DisplaysAskedUsually)
    BY Zenon DEF DisplayInv, Forwards, AsAsked, DisplaysAskedUsually
  <1>2. FollowInv => Typed
    BY Zenon DEF FollowInv
  <1> QED
    BY <1>1, <1>2, StartFollow, NextFollow, StartDisplay, NextDisplay, PTL DEF Spec
=============================================================================
