----------------------------- MODULE DataLemmas -----------------------------
(***************************************************************************)
(* Induction over data, in a form every proof can cite.  The induction     *)
(* theorems of the library take the formula as a parameter; here the       *)
(* formula is a set: a set of numbers that holds 0 and each successor, a   *)
(* set of subsets that holds {} and each one more.  They follow from the   *)
(* least element of a set of numbers, and that one from the finite sets    *)
(* being well founded under inclusion.                                     *)
(***************************************************************************)
EXTENDS Integers, FiniteSetTheorems, TLAPS

LEMMA Least ==
  ASSUME NEW T \in SUBSET Nat, T # {}
  PROVE  \E x \in T : \A y \in T : x <= y
<1>1. PICK n \in T : TRUE
  OBVIOUS
<1> DEFINE U == 0..n
           F == {0..k : k \in {j \in T : j <= n}}
<1>2. IsWellFoundedOn(StrictSubsetOrdering(U), FiniteSubsetsOf(U))
  BY FS_StrictSubsetOrderingWellFounded
<1>3. F \subseteq FiniteSubsetsOf(U)
  <2> SUFFICES ASSUME NEW k \in T, k <= n PROVE (0..k) \in FiniteSubsetsOf(U)
    OBVIOUS
  <2>1. IsFiniteSet(0..k)
    BY FS_Interval
  <2> QED BY <2>1 DEF FiniteSubsetsOf
<1>4. F # {}
  OBVIOUS
<1>5. \E x \in F : \A y \in F : ~(<<y, x>> \in StrictSubsetOrdering(U))
  <2> HIDE DEF F, U
  <2> QED BY <1>2, <1>3, <1>4, WFMin
<1>6. PICK X \in F : \A y \in F : ~(<<y, X>> \in StrictSubsetOrdering(U))
  BY <1>5
<1>7. PICK x \in T : x <= n /\ X = 0..x
  OBVIOUS
<1>8. ASSUME NEW y \in T, y < x PROVE FALSE
  <2>1. (0..y) \in F
    BY <1>7, <1>8
  <2>2. (0..y) \subseteq (0..x) /\ x \in 0..x /\ x \notin 0..y
    BY <1>7, <1>8
  <2>3. <<0..y, X>> \in StrictSubsetOrdering(U)
     BY <2>1, <2>2, <1>7 DEF StrictSubsetOrdering
  <2> QED BY <2>1, <2>3, <1>6
<1> QED BY <1>7, <1>8

LEMMA UpTo ==
  ASSUME NEW n \in Nat, NEW T, 0 \in T, \A k \in 0..(n - 1) : k \in T => k + 1 \in T
  PROVE  0..n \subseteq T
<1> SUFFICES ASSUME {k \in 0..n : k \notin T} # {} PROVE FALSE
  OBVIOUS
<1> DEFINE bad == {k \in 0..n : k \notin T}
<1>1. PICK k \in bad : \A j \in bad : k <= j
  <2>1. bad \in SUBSET Nat /\ bad # {}
    OBVIOUS
  <2> HIDE DEF bad
  <2> QED BY <2>1, Least
<1>2. k # 0 /\ k - 1 \in 0..(n - 1) /\ k - 1 \notin bad
  BY <1>1
<1>3. k - 1 \in T
  BY <1>2
<1> QED BY <1>1, <1>2, <1>3

LEMMA FiniteInduction ==
  ASSUME NEW S, IsFiniteSet(S), NEW T, {} \in T,
         \A A \in SUBSET S, x \in S : A \in T /\ x \notin A => A \cup {x} \in T
  PROVE  S \in T
<1> DEFINE sized == {k \in Nat : \A A \in SUBSET S : Cardinality(A) = k => A \in T}
<1>1. \A A \in SUBSET S : IsFiniteSet(A) /\ Cardinality(A) \in Nat
  BY FS_Subset, FS_CardinalityType
<1>2. 0 \in sized
  BY <1>1, FS_EmptySet
<1>3. ASSUME NEW k \in Nat, k \in sized PROVE k + 1 \in sized
  <2> SUFFICES ASSUME NEW A \in SUBSET S, Cardinality(A) = k + 1 PROVE A \in T
    OBVIOUS
  <2>1. PICK x \in A : TRUE
    BY <1>1, FS_EmptySet
  <2>2. Cardinality(A \ {x}) = k
    <3>1. Cardinality(A \ {x}) = Cardinality(A) - 1
      BY <1>1, FS_RemoveElement
    <3> QED BY <3>1
  <2>3. A \ {x} \in T /\ A = (A \ {x}) \cup {x}
    BY <1>3, <2>2
  <2> QED BY <2>3
<1>4. Cardinality(S) \in 0..Cardinality(S) /\ Cardinality(S) \in Nat
  BY <1>1
<1>5. 0..Cardinality(S) \subseteq sized
  <2> HIDE DEF sized
  <2> QED BY <1>2, <1>3, <1>4, UpTo
<1> QED BY <1>4, <1>5

\* A function may be defined by recursion over the numbers up to n.
Iterates(g, n, a, f) == g[0] = a /\ \A i \in 1..n : g[i] = f[<<g[i - 1], i>>]

LEMMA Recursion ==
  ASSUME NEW n \in Nat, NEW S, NEW a \in S, NEW f \in [S \X (1..n) -> S]
  PROVE  \E g \in [0..n -> S] : Iterates(g, n, a, f)
<1> DEFINE Steps(k, g) == /\ g \in [0..k -> S] /\ g[0] = a
                          /\ \A i \in 1..k : g[i] = f[<<g[i - 1], i>>]
           T == {k \in 0..n : \E g : Steps(k, g)}
<1>1. 0 \in T
  <2>1. Steps(0, [i \in 0..0 |-> a])
    OBVIOUS
  <2>2. 0 \in 0..n
    OBVIOUS
  <2> HIDE DEF Steps
  <2> QED BY <2>1, <2>2
<1>2. ASSUME NEW k \in 0..(n - 1), k \in T PROVE k + 1 \in T
  <2>1. PICK g : Steps(k, g)
    BY <1>2
  <2>2. PICK h : h = [i \in 0..(k + 1) |-> IF i <= k THEN g[i] ELSE f[<<g[k], k + 1>>]]
    OBVIOUS
  <2>3. f[<<g[k], k + 1>>] \in S
    BY <2>1
  <2>4. h \in [0..(k + 1) -> S] /\ h[0] = a
    BY <2>1, <2>2, <2>3
  <2>5. ASSUME NEW i \in 1..(k + 1) PROVE h[i] = f[<<h[i - 1], i>>]
    <3>1. h[i - 1] = g[i - 1] /\ i \in Int /\ i <= k + 1
      BY <2>2
    <3>2. CASE i <= k
      BY <2>1, <2>2, <3>1, <3>2
    <3>3. CASE i = k + 1
      <4>1. h[k + 1] = f[<<g[k], k + 1>>]
        BY <2>2
      <4>2. h[k] = g[k]
        BY <2>2
      <4> QED BY <3>3, <4>1, <4>2
    <3> QED BY <3>1, <3>2, <3>3
  <2>6. Steps(k + 1, h) /\ k + 1 \in 0..n
    BY <2>4, <2>5
  <2> HIDE DEF Steps
  <2> QED BY <2>6
<1>3. n \in T
  <2>1. n \in 0..n
    OBVIOUS
  <2> HIDE DEF T
  <2>2. 0..n \subseteq T
    BY <1>1, <1>2, UpTo
  <2> QED BY <2>1, <2>2
<1> QED BY <1>3 DEF Iterates

-----------------------------------------------------------------------------
\* Sums.

\* F is the function by which the folds of the libraries add up w over the
\* subsets of S.
SumsUp(F, w, S) ==
  F = [A \in SUBSET S |-> IF A = {} THEN 0
                          ELSE LET x == CHOOSE x \in A : TRUE IN w[x] + F[A \ {x}]]

LEMMA SumsExist ==
  ASSUME NEW S, IsFiniteSet(S), NEW w, \A x \in S : w[x] \in Int
  PROVE  \E F : SumsUp(F, w, S)
<1> DEFINE first(A) == CHOOSE x \in A : TRUE
           next(F, A) == IF A = {} THEN 0 ELSE w[first(A)] + F[A \ {first(A)}]
           small(k) == {A \in SUBSET S : Cardinality(A) <= k}
           T == {k \in Nat : \E F : \A A \in small(k) : F[A] = next(F, A)}
<1>1. \A A \in SUBSET S : IsFiniteSet(A) /\ Cardinality(A) \in Nat
  BY FS_Subset, FS_CardinalityType
<1>2. \A A \in SUBSET S : A # {} =>
        first(A) \in A /\ Cardinality(A \ {first(A)}) = Cardinality(A) - 1
  <2> SUFFICES ASSUME NEW A \in SUBSET S, A # {}
               PROVE first(A) \in A /\ Cardinality(A \ {first(A)}) = Cardinality(A) - 1
    OBVIOUS
  <2>1. first(A) \in A
    OBVIOUS
  <2> HIDE DEF first
  <2> QED BY <1>1, <2>1, FS_RemoveElement
<1>3. \A A \in SUBSET S : A # {} => Cardinality(A) > 0
  BY <1>1, FS_EmptySet
<1> HIDE DEF first
<1>4. 0 \in T
  <2>1. PICK F : F = [A \in SUBSET S |-> 0]
    OBVIOUS
  <2>2. \A A \in small(0) : A = {} /\ F[A] = 0
    BY <1>1, <1>3, <2>1
  <2>3. \A A \in small(0) : F[A] = next(F, A)
    BY <2>2
  <2> HIDE DEF small, next
  <2> QED BY <2>3
<1>5. ASSUME NEW k \in Nat, k \in T PROVE k + 1 \in T
  <2>1. PICK F : \A A \in small(k) : F[A] = next(F, A)
    BY <1>5
  <2>2. PICK G : G = [A \in SUBSET S |-> IF Cardinality(A) <= k THEN F[A] ELSE next(F, A)]
    OBVIOUS
  <2>3. ASSUME NEW A \in small(k + 1) PROVE G[A] = next(G, A)
    <3>1. A \in SUBSET S /\ Cardinality(A) \in Nat /\ Cardinality(A) <= k + 1
      BY <1>1
    <3>2. G[A] = next(F, A)
      BY <2>1, <2>2, <3>1
    <3>3. CASE A = {}
      BY <3>2, <3>3
    <3>4. CASE A # {}
      <4>1. A \ {first(A)} \in SUBSET S /\ Cardinality(A \ {first(A)}) <= k
        BY <1>2, <3>1, <3>4
      <4>2. G[A \ {first(A)}] = F[A \ {first(A)}]
        BY <2>2, <4>1
      <4> QED BY <3>2, <3>4, <4>2
    <3> QED BY <3>3, <3>4
  <2> HIDE DEF small, next
  <2> QED BY <2>3
<1>6. Cardinality(S) \in T
  <2>1. Cardinality(S) \in Nat
    BY <1>1
  <2>2. Cardinality(S) \in 0..Cardinality(S)
    BY <2>1
  <2> HIDE DEF T
  <2> QED BY <1>4, <1>5, <2>1, <2>2, UpTo
<1>7. PICK F : \A A \in small(Cardinality(S)) : F[A] = next(F, A)
  BY <1>6
<1>8. \A A \in SUBSET S : Cardinality(A) <= Cardinality(S)
  BY FS_Subset
<1>9. PICK G : G = [A \in SUBSET S |-> F[A]]
  OBVIOUS
<1>10. \A A \in SUBSET S : G[A] = next(G, A)
  BY <1>7, <1>8, <1>9
<1>11. SumsUp(G, w, S)
  BY <1>9, <1>10 DEF SumsUp, first
<1> QED BY <1>11

\* The order in which the elements are added does not matter.
AddsUp(F, w, S) ==
  /\ F[{}] = 0
  /\ \A A \in SUBSET S : /\ F[A] \in Int
                         /\ \A x \in A : F[A] = w[x] + F[A \ {x}]

LEMMA SumsSplit ==
  ASSUME NEW S, IsFiniteSet(S), NEW w, \A x \in S : w[x] \in Int, NEW F, SumsUp(F, w, S)
  PROVE  AddsUp(F, w, S)
<1> DEFINE first(A) == CHOOSE x \in A : TRUE
           T == {k \in Nat : \A A \in SUBSET S : Cardinality(A) <= k =>
                               /\ F[A] \in Int
                               /\ \A x \in A : F[A] = w[x] + F[A \ {x}]}
<1>0. F[{}] = 0 /\ \A A \in SUBSET S : A # {} =>
                     first(A) \in A /\ F[A] = w[first(A)] + F[A \ {first(A)}]
  BY DEF SumsUp
<1> HIDE DEF first
<1>1. \A A \in SUBSET S : IsFiniteSet(A) /\ Cardinality(A) \in Nat
  BY FS_Subset, FS_CardinalityType
<1>2. ASSUME NEW A \in SUBSET S, NEW x \in A
      PROVE  Cardinality(A \ {x}) = Cardinality(A) - 1
  BY <1>1, FS_RemoveElement
<1>3. 0 \in T
  <2>1. \A A \in SUBSET S : Cardinality(A) <= 0 => A = {}
    BY <1>1, FS_EmptySet
  <2>2. ASSUME NEW A \in SUBSET S, Cardinality(A) <= 0
        PROVE  F[A] \in Int /\ \A x \in A : F[A] = w[x] + F[A \ {x}]
    <3>1. A = {}
      BY <2>1, <2>2
    <3> QED BY <1>0, <3>1
  <2> QED BY <2>2
<1>4. ASSUME NEW k \in Nat, k \in T PROVE k + 1 \in T
  <2> SUFFICES ASSUME NEW A \in SUBSET S, Cardinality(A) = k + 1
               PROVE  F[A] \in Int /\ \A x \in A : F[A] = w[x] + F[A \ {x}]
    BY <1>1, <1>4
  <2>1. A # {}
    BY FS_EmptySet
  <2>2. PICK y \in A : F[A] = w[y] + F[A \ {y}]
    BY <1>0, <2>1
  <2>3. ASSUME NEW x \in A PROVE F[A \ {x}] \in Int /\ w[x] \in Int
    BY <1>2, <1>4
  <2>4. ASSUME NEW x \in A, x # y PROVE F[A] = w[x] + F[A \ {x}]
    <3>1. /\ F[A \ {y}] = w[x] + F[(A \ {y}) \ {x}]
          /\ F[A \ {x}] = w[y] + F[(A \ {x}) \ {y}]
      BY <1>2, <1>4, <2>4
    <3>2. (A \ {y}) \ {x} = (A \ {x}) \ {y}
      OBVIOUS
    <3>3. F[(A \ {x}) \ {y}] \in Int
      <4>1. A \ {x} \in SUBSET S /\ y \in A \ {x} /\ Cardinality(A \ {x}) = k
        BY <1>2, <2>4
      <4>2. (A \ {x}) \ {y} \in SUBSET S /\ Cardinality((A \ {x}) \ {y}) = k - 1
        BY <1>2, <4>1
      <4> QED BY <1>4, <4>2
    <3>4. PICK p, q, b : /\ p = w[x] /\ q = w[y] /\ b = F[(A \ {x}) \ {y}]
                         /\ p \in Int /\ q \in Int /\ b \in Int
      BY <2>3, <3>3
    <3>5. F[A] = q + (p + b) /\ F[A \ {x}] = q + b
      BY <2>2, <3>1, <3>2, <3>4, Zenon
    <3>6. F[A] = p + F[A \ {x}]
      <4>1. q + (p + b) = p + (q + b)
        BY <3>4
      <4> QED BY <3>5, <4>1, Zenon
    <3> QED BY <3>4, <3>6
  <2>5. F[A] \in Int
    BY <2>2, <2>3
  <2>6. \A x \in A : F[A] = w[x] + F[A \ {x}]
    BY <2>2, <2>4, Zenon
  <2> QED BY <2>5, <2>6
<1>5. Cardinality(S) \in Nat
  BY <1>1
<1>6. 0..Cardinality(S) \subseteq T
  <2> HIDE DEF T
  <2> QED BY <1>3, <1>4, <1>5, UpTo
<1>7. \A A \in SUBSET S : Cardinality(A) \in 0..Cardinality(S)
  BY <1>1, <1>5, FS_Subset
<1>8. ASSUME NEW A \in SUBSET S
      PROVE  F[A] \in Int /\ \A x \in A : F[A] = w[x] + F[A \ {x}]
  <2>1. Cardinality(A) \in T /\ Cardinality(A) <= Cardinality(A)
    BY <1>1, <1>6, <1>7
  <2> QED BY <2>1
<1> QED BY <1>0, <1>8 DEF AddsUp

\* Sums of the same numbers are equal.
LEMMA SumsAgree ==
  ASSUME NEW S, IsFiniteSet(S), NEW w, \A x \in S : w[x] \in Int, NEW F, SumsUp(F, w, S),
         NEW R, IsFiniteSet(R), NEW v, \A x \in R : v[x] \in Int, NEW G, SumsUp(G, v, R),
         NEW A \in (SUBSET S) \cap (SUBSET R), \A x \in A : w[x] = v[x]
  PROVE  F[A] = G[A]
<1> DEFINE T == {B \in SUBSET A : F[B] = G[B]}
<1>1. F[{}] = 0 /\ \A B \in SUBSET S : \A x \in B : F[B] = w[x] + F[B \ {x}]
  <2>1. AddsUp(F, w, S)
    BY SumsSplit
  <2> QED BY <2>1 DEF AddsUp
<1>2. G[{}] = 0 /\ \A B \in SUBSET R : \A x \in B : G[B] = v[x] + G[B \ {x}]
  <2>1. AddsUp(G, v, R)
    BY SumsSplit
  <2> QED BY <2>1 DEF AddsUp
<1>3. {} \in T
  BY <1>1, <1>2
<1>4. ASSUME NEW B \in SUBSET A, NEW x \in A, B \in T, x \notin B PROVE B \cup {x} \in T
  <2>1. (B \cup {x}) \ {x} = B
    BY <1>4
  <2>2. F[B \cup {x}] = w[x] + F[B]
    BY <1>1, <2>1
  <2>3. G[B \cup {x}] = v[x] + G[B]
    BY <1>2, <2>1
  <2> QED BY <1>4, <2>2, <2>3
<1>5. A \in T
  <2>1. IsFiniteSet(A)
    BY FS_Subset
  <2> HIDE DEF T
  <2> QED BY <1>3, <1>4, <2>1, FiniteInduction
<1> QED BY <1>5

\* A sum over a set is the sum over a part of it and over the rest.
LEMMA SumsOfParts ==
  ASSUME NEW S, IsFiniteSet(S), NEW w, \A x \in S : w[x] \in Int, NEW F, SumsUp(F, w, S),
         NEW A \in SUBSET S
  PROVE  F[S] = F[A] + F[S \ A]
<1> DEFINE T == {B \in SUBSET A : F[(S \ A) \cup B] = F[B] + F[S \ A]}
<1>1. F[{}] = 0 /\ \A B \in SUBSET S : F[B] \in Int /\ \A x \in B : F[B] = w[x] + F[B \ {x}]
  <2>1. AddsUp(F, w, S)
    BY SumsSplit
  <2> QED BY <2>1 DEF AddsUp
<1>2. {} \in T
  <2>1. (S \ A) \cup {} = S \ A
    OBVIOUS
  <2> QED BY <1>1, <2>1
<1>3. ASSUME NEW B \in SUBSET A, NEW x \in A, B \in T, x \notin B PROVE B \cup {x} \in T
  <2>1. ((S \ A) \cup (B \cup {x})) \ {x} = (S \ A) \cup B
    BY <1>3
  <2>2. F[(S \ A) \cup (B \cup {x})] = w[x] + F[(S \ A) \cup B]
    BY <1>1, <2>1
  <2>3. F[B \cup {x}] = w[x] + F[B]
    <3>1. (B \cup {x}) \ {x} = B
      BY <1>3
    <3> QED BY <1>1, <3>1
  <2>4. /\ w[x] \in Int /\ F[B] \in Int /\ F[S \ A] \in Int
        /\ F[(S \ A) \cup B] = F[B] + F[S \ A]
    BY <1>1, <1>3
  <2>5. PICK p, q, b : p = w[x] /\ q = F[B] /\ b = F[S \ A] /\ p \in Int /\ q \in Int /\ b \in Int
    BY <2>4
  <2>6. /\ F[(S \ A) \cup (B \cup {x})] = p + (q + b)
        /\ F[B \cup {x}] = p + q
    BY <2>2, <2>3, <2>4, <2>5, Zenon
  <2>7. F[(S \ A) \cup (B \cup {x})] = F[B \cup {x}] + b
    BY <2>5, <2>6
  <2> QED BY <2>5, <2>7
<1>4. A \in T
  <2>1. IsFiniteSet(A)
    BY FS_Subset
  <2> HIDE DEF T
  <2> QED BY <1>2, <1>3, <2>1, FiniteInduction
<1>5. (S \ A) \cup A = S
  OBVIOUS
<1> QED BY <1>4, <1>5
-----------------------------------------------------------------------------
\* Extremes.

\* A function on S takes a least and a greatest value.
HasExtremes(f, S) == \E lo, hi \in S : \A x \in S : f[lo] <= f[x] /\ f[x] <= f[hi]

LEMMA Extremes ==
  ASSUME NEW S, IsFiniteSet(S), S # {}, NEW f, \A x \in S : f[x] \in Int
  PROVE  HasExtremes(f, S)
<1> DEFINE T == {A \in SUBSET S : A = {} \/ HasExtremes(f, A)}
<1>1. {} \in T
  OBVIOUS
<1>2. ASSUME NEW A \in SUBSET S, NEW x \in S, A \in T, x \notin A PROVE A \cup {x} \in T
  <2>1. CASE A = {}
    BY <2>1 DEF HasExtremes
  <2>2. CASE A # {}
    <3>1. PICK lo, hi \in A : \A y \in A : f[lo] <= f[y] /\ f[y] <= f[hi]
      BY <1>2, <2>2 DEF HasExtremes
    <3>2. PICK least, most : /\ least = IF f[x] <= f[lo] THEN x ELSE lo
                             /\ most = IF f[hi] <= f[x] THEN x ELSE hi
      OBVIOUS
    <3>3. \A y \in A \cup {x} : f[least] <= f[y] /\ f[y] <= f[most]
      BY <3>1, <3>2
    <3> QED BY <3>2, <3>3 DEF HasExtremes
  <2> QED BY <2>1, <2>2
<1>3. S \in T
  <2> HIDE DEF T
  <2> QED BY <1>1, <1>2, FiniteInduction
<1> QED BY <1>3
-----------------------------------------------------------------------------
\* Sorting.

\* A relation that orders S.
Orders(R, S) ==
  /\ \A x \in S : <<x, x>> \notin R
  /\ \A x, y, z \in S : <<x, y>> \in R /\ <<y, z>> \in R => <<x, z>> \in R
  /\ \A x, y \in S : x # y => <<x, y>> \in R \/ <<y, x>> \in R

Below(R, S, a) == {b \in S : <<b, a>> \in R}

\* In a finite set that is ordered, everybody has a place of its own, and there
\* is somebody at every place.
LEMMA Places ==
  ASSUME NEW S, IsFiniteSet(S), NEW R, Orders(R, S)
  PROVE  /\ \A a, b \in S : Cardinality(Below(R, S, a)) = Cardinality(Below(R, S, b)) => a = b
         /\ \A i \in 1..Cardinality(S) :
              \E a \in S : 1 + Cardinality(Below(R, S, a)) = i
         /\ \A a \in S : /\ Cardinality(Below(R, S, a)) \in Nat
                         /\ 1 + Cardinality(Below(R, S, a)) \in 1..Cardinality(S)
<1> DEFINE n == Cardinality(S)
           below(a) == Below(R, S, a)
           place == [a \in S |-> 1 + Cardinality(below(a))]
<1>1. n \in Nat
  BY FS_CardinalityType
<1>2. \A a \in S : IsFiniteSet(below(a)) /\ Cardinality(below(a)) \in Nat
  BY FS_Subset, FS_CardinalityType DEF Below
<1>3. ASSUME NEW a \in S, NEW b \in S, <<a, b>> \in R
      PROVE  Cardinality(below(a)) < Cardinality(below(b))
  <2>1. below(a) \subseteq below(b)
    BY <1>3 DEF Orders, Below
  <2>2. a \in below(b) /\ a \notin below(a)
    BY <1>3 DEF Orders, Below
  <2>3. Cardinality(below(a)) <= Cardinality(below(b))
    BY <1>2, <2>1, FS_Subset
  <2>4. Cardinality(below(a)) # Cardinality(below(b))
    BY <1>2, <2>1, <2>2, FS_Subset
  <2> QED BY <1>2, <2>3, <2>4
<1>4. ASSUME NEW a \in S, NEW b \in S, a # b
      PROVE  Cardinality(below(a)) # Cardinality(below(b))
  <2>1. <<a, b>> \in R \/ <<b, a>> \in R
    BY <1>4 DEF Orders
  <2> QED BY <1>2, <1>3, <2>1
<1>5. ASSUME NEW a \in S PROVE Cardinality(below(a)) < n
  <2>1. below(a) \subseteq S /\ a \notin below(a)
    BY DEF Orders, Below
  <2>2. Cardinality(below(a)) <= n
    BY <2>1, FS_Subset
  <2>3. Cardinality(below(a)) # n
    BY <2>1, FS_Subset
  <2> QED BY <1>1, <1>2, <2>2, <2>3
<1>6. place \in [S -> 1..n]
  BY <1>1, <1>2, <1>5
<1>7. \A a, b \in S : place[a] = place[b] => a = b
  BY <1>2, <1>4
<1>8. place \in Injection(S, 1..n)
  BY <1>6, <1>7 DEF Injection, IsInjective
<1>9. IsFiniteSet(1..n) /\ Cardinality(1..n) = n
  BY <1>1, FS_Interval
<1>10. place \in Surjection(S, 1..n)
  BY <1>8, <1>9, FS_Injection
<1>11. \A i \in 1..n : \E a \in S : place[a] = i
  BY <1>10 DEF Surjection
<1> QED BY <1>2, <1>4, <1>6, <1>11

LEMMA SortedByPlace ==
  ASSUME NEW S, IsFiniteSet(S), NEW R, Orders(R, S), NEW seq \in [1..Cardinality(S) -> S],
         \A i \in 1..Cardinality(S) : 1 + Cardinality(Below(R, S, seq[i])) = i
  PROVE  /\ Cardinality(S) \in Nat
         /\ IsInjective(seq)
         /\ \A a \in S : \E i \in 1..Cardinality(S) : seq[i] = a
<1>1. Cardinality(S) \in Nat
  BY FS_CardinalityType
<1>2. \A a \in S : seq[1 + Cardinality(Below(R, S, a))] = a
  BY Places
<1> QED BY <1>1, <1>2, Places DEF IsInjective
=============================================================================
