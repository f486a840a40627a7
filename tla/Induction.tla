------------------------------ MODULE Induction ------------------------------
(***************************************************************************)
(* Induction over the numbers 0..n, for sets instead of predicates: what   *)
(* proofs about sequences and functions defined on an interval rest on.    *)
(***************************************************************************)
EXTENDS Integers, TLAPS, WellFoundedInduction

\* A non-empty set of numbers has a least one.
LEMMA Least ==
    ASSUME NEW T, T \subseteq Nat, T # {}
    PROVE  \E x \in T : \A y \in T : x <= y
  <1> DEFINE R == OpToRel(<, Nat)
  <1>1. IsWellFoundedOn(R, Nat)
    BY NatLessThanWellFounded, Zenon
  <1>2. \A x \in Nat, y \in Nat : <<x, y>> \in R <=> x < y
    BY DEF OpToRel
  <1> HIDE DEF R
  <1>3. PICK x \in T : \A y \in T : ~ (<<y, x>> \in R)
    BY <1>1, WFMin, Zenon
  <1>4. x \in Nat /\ \A y \in T : y \in Nat /\ ~(y < x)
    BY <1>2, <1>3
  <1>5. \A y \in T : x <= y
    BY <1>4
  <1> QED
    BY <1>5

\* A set that holds 0, and with each number the next one, holds all up to n.
LEMMA UpTo ==
    ASSUME NEW n \in Nat, NEW T, 0 \in T, \A k \in 1..n : k - 1 \in T => k \in T
    PROVE  \A k \in 0..n : k \in T
  <1> DEFINE F == {k \in 0..n : k \notin T}
  <1>1. SUFFICES ASSUME F # {} PROVE FALSE
    OBVIOUS
  <1>2. F \subseteq Nat
    OBVIOUS
  <1>3. PICK x \in F : \A y \in F : x <= y
    BY <1>1, <1>2, Least, Zenon
  <1>4. x \in 1..n /\ x - 1 \notin F
    BY <1>3
  <1> QED
    BY <1>4


\* f is what the steps g[1], ..., g[n] make of x0.
Follows(f, n, x0, g) == f[0] = x0 /\ \A k \in 1..n : f[k] = g[k][f[k - 1]]

(* What is defined by recursion from x0 with the step functions g[1], ..., *)
(* g[n] exists.                                                            *)
LEMMA Recursion ==
    ASSUME NEW n \in Nat, NEW X, NEW x0 \in X, NEW g \in [1..n -> [X -> X]]
    PROVE  \E f \in [0..n -> X] : Follows(f, n, x0, g)
  <1> DEFINE Good(m, f) == f[0] = x0 /\ \A k \in 1..m : f[k] = g[k][f[k - 1]]
             T == {m \in 0..n : \E f \in [0..m -> X] : Good(m, f)}
  <1>1. 0 \in T
    <2> DEFINE f == [k \in 0..0 |-> x0]
    <2>1. f \in [0..0 -> X] /\ Good(0, f)
      OBVIOUS
    <2> HIDE DEF f, Good
    <2> QED
      BY <2>1
  <1>2. ASSUME NEW m \in 1..n, m - 1 \in T PROVE m \in T
    <2>1. PICK f \in [0..(m - 1) -> X] : Good(m - 1, f)
      BY <1>2
    <2> DEFINE h == [k \in 0..m |-> IF k = m THEN g[m][f[m - 1]] ELSE f[k]]
    <2>2. g[m][f[m - 1]] \in X
      OBVIOUS
    <2>3. h \in [0..m -> X]
      BY <2>2
    <2>4. h[0] = x0 /\ h[m] = g[m][h[m - 1]]
      BY <2>1
    <2>5. \A k \in 1..m : h[k] = g[k][h[k - 1]]
      <3> TAKE k \in 1..m
      <3>1. CASE k = m
        BY <2>4, <3>1
      <3>2. CASE k # m
        <4>1. k \in 1..(m - 1) /\ k \in 0..m /\ k - 1 \in 0..m /\ k - 1 # m
          BY <3>2
        <4>2. h[k] = f[k] /\ h[k - 1] = f[k - 1]
          BY <3>2, <4>1
        <4> HIDE DEF h
        <4> QED
          BY <2>1, <4>1, <4>2
      <3> QED
        BY <3>1, <3>2
    <2>6. Good(m, h)
      BY <2>4, <2>5
    <2> HIDE DEF h, Good
    <2> QED
      BY <2>3, <2>6
  <1>3. \A k \in 1..n : k - 1 \in T => k \in T
    BY <1>2
  <1> HIDE DEF T
  <1>4. \A k \in 0..n : k \in T
    BY <1>1, <1>3, UpTo
  <1>5. n \in T
    BY <1>4
  <1> QED
    BY <1>5 DEF T, Follows


\* A non-empty set of numbers up to n has a greatest one.
LEMMA Greatest ==
    ASSUME NEW n \in Nat, NEW T, T \subseteq 0..n, T # {}
    PROVE  \E x \in T : \A y \in T : y <= x
  <1> DEFINE F == {k \in 0..n : n - k \in T}
  <1>1. F # {} /\ F \subseteq Nat
    <2>1. PICK y \in T : TRUE
      OBVIOUS
    <2>2. y \in 0..n /\ n - y \in 0..n /\ n - (n - y) = y
      BY <2>1
    <2>3. n - y \in F
      BY <2>1, <2>2
    <2>4. F \subseteq Nat
      OBVIOUS
    <2> HIDE DEF F
    <2> QED
      BY <2>3, <2>4, Zenon
  <1>2. PICK k \in F : \A l \in F : k <= l
    BY <1>1, Least, Zenon
  <1>3. k \in 0..n /\ n - k \in T
    OBVIOUS
  <1>4. \A y \in T : y <= n - k
    <2> TAKE y \in T
    <2>1. y \in 0..n /\ n - y \in 0..n /\ n - (n - y) = y
      OBVIOUS
    <2>2. n - y \in F
      BY <2>1
    <2>3. k <= n - y
      BY <1>2, <2>2
    <2> QED
      BY <1>3, <2>1, <2>3
  <1> QED
    BY <1>3, <1>4
=============================================================================
