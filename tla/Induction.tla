------------------------------ MODULE Induction ------------------------------
(***************************************************************************)
(* Induction over the natural numbers in a form without an operator for    *)
(* the property: a set that holds 0 and each successor holds them all.     *)
(* From it, folds over sequences, and functions defined by recursion: a    *)
(* function that looks only at arguments of lower rank exists.             *)
(***************************************************************************)
EXTENDS Integers, FiniteSetsExt, TLAPS, WellFoundedInduction

\* By the least number that is missing.
LEMMA SetInduction ==
    ASSUME NEW T, 0 \in T, \A k \in Nat : k \in T => k + 1 \in T
    PROVE  Nat \subseteq T
<1> DEFINE D == Nat \ T
           less == OpToRel(<, Nat)
<1> SUFFICES ASSUME D # {} PROVE FALSE
  OBVIOUS
<1>1. IsWellFoundedOn(less, Nat)
  BY NatLessThanWellFounded
<1>2. D \subseteq Nat
  OBVIOUS
<1>3. \A x, y \in Nat : x < y => <<x, y>> \in less
  BY DEF OpToRel
<1> HIDE DEF D, less
<1>4. PICK x \in D : \A y \in D : ~(<<y, x>> \in less)
  BY <1>1, <1>2, WFMin
<1>5. x \in Nat /\ x \notin T /\ x # 0
  BY <1>4 DEF D
<1>6. x - 1 \in Nat /\ x - 1 < x /\ (x - 1) + 1 = x
  BY <1>5
<1>7. x - 1 \in T
  BY <1>3, <1>4, <1>5, <1>6 DEF D
<1> QED
  BY <1>5, <1>6, <1>7

\* A set of natural numbers that is not empty has a least.
LEMMA LeastFacts ==
    ASSUME NEW I, I \subseteq Nat, I # {}
    PROVE  Min(I) \in I /\ \A j \in I : Min(I) <= j
<1> DEFINE less == OpToRel(<, Nat)
<1>1. IsWellFoundedOn(less, Nat)
  BY NatLessThanWellFounded
<1>2. \A x, y \in Nat : ~(x <= y) => <<y, x>> \in less
  BY DEF OpToRel
<1> HIDE DEF less
<1>3. PICK m \in I : \A j \in I : ~(<<j, m>> \in less)
  BY <1>1, WFMin
<1>4. m \in I /\ \A j \in I : m <= j
  BY <1>2, <1>3
<1> QED
  BY <1>4 DEF Min

-----------------------------------------------------------------------------
(* Folds over sequences.  A fold of length n is a function f of the sets   *)
(* of places, which takes the greatest place off a set that is not empty.  *)

\* The greatest of the first k places.
LEMMA PlaceFacts ==
    ASSUME NEW n \in Nat, NEW k \in 1 .. n
    PROVE  /\ 1 .. k # {} /\ 1 .. k \in SUBSET (1 .. n) /\ 1 .. k - 1 \in SUBSET (1 .. n)
           /\ Max(1 .. k) = k /\ (1 .. k) \ {k} = 1 .. k - 1
<1>1. k \in 1 .. k /\ \A y \in 1 .. k : k >= y
  OBVIOUS
<1>2. \A x \in 1 .. k : (\A y \in 1 .. k : x >= y) => x = k
  OBVIOUS
<1>3. Max(1 .. k) = k
  BY <1>1, <1>2 DEF Max
<1> QED
  BY <1>3

\* Each set of places that is not empty has a greatest.
LEMMA GreatestFacts ==
    ASSUME NEW n \in Nat
    PROVE  \A s \in SUBSET (1 .. n) : s # {} => Max(s) \in s
<1> DEFINE T == {m \in Nat : \A s \in SUBSET (1 .. m) : s # {} => \E x \in s : \A y \in s : x >= y}
<1>1. 0 \in T
  <2>1. \A s \in SUBSET (1 .. 0) : s = {}
    OBVIOUS
  <2> QED
    BY <2>1
<1>2. ASSUME NEW m \in Nat, m \in T PROVE m + 1 \in T
  <2>1. ASSUME NEW s \in SUBSET (1 .. m + 1), s # {}
        PROVE  \E x \in s : \A y \in s : x >= y
    <3>1. CASE m + 1 \in s
      BY <2>1, <3>1
    <3>2. CASE m + 1 \notin s
      <4>1. s \in SUBSET (1 .. m)
        BY <2>1, <3>2
      <4> QED
        BY <1>2, <2>1, <4>1
    <3> QED
      BY <3>1, <3>2
  <2> QED
    BY <2>1
<1> HIDE DEF T
<1>3. Nat \subseteq T
  BY <1>1, <1>2, SetInduction
<1>4. \A s \in SUBSET (1 .. n) : s # {} => \E x \in s : \A y \in s : x >= y
  BY <1>3 DEF T
<1> QED
  BY <1>4 DEF Max

\* f folds the places up to n with the steps G, from base.
Folds(f, n, base, G) ==
    \A s \in SUBSET (1 .. n) :
        f[s] = IF s = {} THEN base ELSE G[<<f[s \ {Max(s)}], Max(s)>>]

\* There is such a function where the steps stay within a set.
LEMMA FoldExists ==
    ASSUME NEW n \in Nat, NEW A, NEW base \in A, NEW G,
           \A a \in A : \A i \in 1 .. n : G[<<a, i>>] \in A
    PROVE  \E f \in [SUBSET (1 .. n) -> A] : Folds(f, n, base, G)
<1> DEFINE Solved(m) == \E f \in [SUBSET (1 .. m) -> A] : Folds(f, m, base, G)
           T == {m \in Nat : m <= n => Solved(m)}
<1>1. 0 \in T
  <2> DEFINE g == [s \in SUBSET (1 .. 0) |-> base]
  <2>1. g \in [SUBSET (1 .. 0) -> A]
    OBVIOUS
  <2>2. \A s \in SUBSET (1 .. 0) : s = {}
    OBVIOUS
  <2>3. Folds(g, 0, base, G)
    BY <2>2 DEF Folds
  <2>4. Solved(0)
    BY <2>1, <2>3
  <2> HIDE DEF Solved
  <2> QED
    BY <2>4
<1>2. ASSUME NEW m \in Nat, m \in T PROVE m + 1 \in T
  <2>s. SUFFICES ASSUME m + 1 <= n PROVE Solved(m + 1)
    <3> HIDE DEF Solved
    <3> QED
      OBVIOUS
  <2>m. Solved(m)
    <3>1. m <= n
      BY <2>s
    <3> HIDE DEF Solved
    <3> QED
      BY <1>2, <3>1
  <2>1. PICK f \in [SUBSET (1 .. m) -> A] : Folds(f, m, base, G)
    BY <2>m
  <2> DEFINE g == [s \in SUBSET (1 .. m + 1) |->
                     IF m + 1 \in s THEN G[<<f[s \ {m + 1}], m + 1>>] ELSE f[s]]
  <2>2. ASSUME NEW s \in SUBSET (1 .. m + 1)
        PROVE  /\ g[s] \in A
               /\ g[s] = IF s = {} THEN base ELSE G[<<g[s \ {Max(s)}], Max(s)>>]
    <3>1. CASE m + 1 \in s
      <4>1. s \ {m + 1} \in SUBSET (1 .. m) /\ s # {} /\ m + 1 \notin s \ {m + 1}
        BY <2>2, <3>1
      <4>2. Max(s) = m + 1
        <5>1. \A y \in s : m + 1 >= y
          BY <2>2
        <5>2. \A x \in s : (\A y \in s : x >= y) => x = m + 1
          BY <2>2, <3>1, <5>1
        <5> QED
          BY <3>1, <5>1, <5>2 DEF Max
      <4>3. g[s] = G[<<f[s \ {m + 1}], m + 1>>] /\ g[s \ {m + 1}] = f[s \ {m + 1}]
        BY <3>1, <4>1
      <4>4. f[s \ {m + 1}] \in A /\ m + 1 \in 1 .. n
        BY <4>1, <2>s
      <4> QED
        BY <4>1, <4>2, <4>3, <4>4
    <3>2. CASE m + 1 \notin s
      <4>1. s \in SUBSET (1 .. m)
        BY <2>2, <3>2
      <4>2. g[s] = f[s] /\ f[s] \in A
        BY <3>2, <4>1
      <4>3. CASE s = {}
        BY <4>1, <4>2, <4>3, <2>1 DEF Folds
      <4>4. CASE s # {}
        <5>1. s \ {Max(s)} \in SUBSET (1 .. m) /\ m + 1 \notin s \ {Max(s)}
          BY <3>2, <4>1
        <5>2. g[s \ {Max(s)}] = f[s \ {Max(s)}]
          BY <5>1
        <5>3. f[s] = G[<<f[s \ {Max(s)}], Max(s)>>]
          BY <4>1, <4>4, <2>1 DEF Folds
        <5> QED
          BY <4>2, <4>4, <5>2, <5>3
      <4> QED
        BY <4>3, <4>4
    <3> QED
      BY <3>1, <3>2
  <2>3. g \in [SUBSET (1 .. m + 1) -> A]
    BY <2>2
  <2> HIDE DEF g
  <2>4. Folds(g, m + 1, base, G)
    BY <2>2 DEF Folds
  <2> QED
    BY <2>3, <2>4
<1> HIDE DEF T, Solved
<1>3. Nat \subseteq T
  BY <1>1, <1>2, SetInduction
<1>4. Solved(n)
  BY <1>3 DEF T
<1> QED
  BY <1>4 DEF Solved

\* What holds of the base and is kept by each step, with the number of steps done.
LEMMA FoldKeeps ==
    ASSUME NEW n \in Nat, NEW f, NEW A, f[{}] \in A[0],
           \A k \in 1 .. n : f[1 .. k - 1] \in A[k - 1] => f[1 .. k] \in A[k]
    PROVE  f[1 .. n] \in A[n]
<1> DEFINE T == {m \in Nat : m <= n => f[1 .. m] \in A[m]}
<1>1. 0 \in T
  <2>1. 1 .. 0 = {}
    OBVIOUS
  <2> QED
    BY <2>1
<1>2. ASSUME NEW m \in Nat, m \in T PROVE m + 1 \in T
  <2>1. (m + 1) - 1 = m /\ (m + 1 <= n => m + 1 \in 1 .. n /\ m <= n)
    OBVIOUS
  <2> QED
    BY <1>2, <2>1
<1> HIDE DEF T
<1>3. Nat \subseteq T
  BY <1>1, <1>2, SetInduction
<1> QED
  BY <1>3 DEF T

\* The same of one set.
LEMMA FoldStays ==
    ASSUME NEW n \in Nat, NEW f, NEW A, f[{}] \in A,
           \A k \in 1 .. n : f[1 .. k - 1] \in A => f[1 .. k] \in A
    PROVE  f[1 .. n] \in A
<1> DEFINE As == [k \in 0 .. n |-> A]
<1>1. \A k \in 0 .. n : As[k] = A
  OBVIOUS
<1>2. 0 \in 0 .. n /\ n \in 0 .. n /\ \A k \in 1 .. n : k \in 0 .. n /\ k - 1 \in 0 .. n
  OBVIOUS
<1> HIDE DEF As
<1>3. f[{}] \in As[0] /\ \A k \in 1 .. n : f[1 .. k - 1] \in As[k - 1] => f[1 .. k] \in As[k]
  BY <1>1, <1>2
<1>4. f[1 .. n] \in As[n]
  BY <1>3, FoldKeeps
<1> QED
  BY <1>1, <1>2, <1>4

-----------------------------------------------------------------------------
(* Recursion over ranks.  Each step is a function of what is below.        *)

\* f solves the equation of G.
Solves(f, D, G) == \A d \in D : f[d] = G[<<f, d>>]

\* The values of G are of A, and depend only on those of lower ranks.
StaysWithin(G, D, A) == \A f \in [D -> A] : \A d \in D : G[<<f, d>>] \in A

LooksBelow(G, D, A, rank) ==
    \A f \in [D -> A] : \A g \in [D -> A] : \A d \in D :
        (\A e \in D : rank[e] < rank[d] => f[e] = g[e]) => G[<<f, d>>] = G[<<g, d>>]

\* Where that is so there is such a function.
LEMMA RecursionExists ==
    ASSUME NEW D, NEW A, NEW a \in A, NEW N \in Nat, NEW rank \in [D -> 0 .. N], NEW G,
           StaysWithin(G, D, A), LooksBelow(G, D, A, rank)
    PROVE  \E f \in [D -> A] : Solves(f, D, G)
<1> DEFINE T == {m \in Nat : \E f \in [D -> A] : \A d \in D : rank[d] < m => f[d] = G[<<f, d>>]}
<1>1. 0 \in T
  <2> DEFINE g == [d \in D |-> a]
  <2>1. g \in [D -> A]
    OBVIOUS
  <2>2. \A d \in D : ~(rank[d] < 0)
    OBVIOUS
  <2> HIDE DEF g
  <2> QED
    BY <2>1, <2>2
<1>2. ASSUME NEW m \in Nat, m \in T PROVE m + 1 \in T
  <2>1. PICK f \in [D -> A] : \A d \in D : rank[d] < m => f[d] = G[<<f, d>>]
    BY <1>2
  <2> DEFINE g == [d \in D |-> G[<<f, d>>]]
  <2>2. g \in [D -> A]
    BY DEF StaysWithin
  <2>3. \A d \in D : g[d] = G[<<f, d>>]
    OBVIOUS
  <2> HIDE DEF g
  <2>4. ASSUME NEW d \in D, rank[d] < m + 1 PROVE g[d] = G[<<g, d>>]
    <3>1. \A e \in D : rank[e] < rank[d] => f[e] = g[e]
      <4>1. ASSUME NEW e \in D, rank[e] < rank[d] PROVE rank[e] < m
        <5>1. rank[e] \in Int /\ rank[d] \in Int
          OBVIOUS
        <5> QED
          BY <2>4, <4>1, <5>1
      <4> QED
        BY <2>1, <2>3, <4>1
    <3>2. G[<<f, d>>] = G[<<g, d>>]
      BY <2>2, <3>1 DEF LooksBelow
    <3> QED
      BY <2>3, <3>2
  <2> QED
    BY <2>2, <2>4
<1> HIDE DEF T
<1>3. Nat \subseteq T
  BY <1>1, <1>2, SetInduction
<1>4. PICK f \in [D -> A] : \A d \in D : rank[d] < N + 1 => f[d] = G[<<f, d>>]
  BY <1>3 DEF T
<1>5. \A d \in D : rank[d] < N + 1
  OBVIOUS
<1> QED
  BY <1>4, <1>5 DEF Solves

=============================================================================
