---------------------------- MODULE NumberFacts -----------------------------
(***************************************************************************)
(* Facts about numbers that the proofs of several modules rest on.         *)
(***************************************************************************)
EXTENDS Integers, FiniteSetTheorems, TLAPS

\* Products keep the order of a factor.
LEMMA TimesMonotone ==
    ASSUME NEW a \in Nat, NEW b \in Nat, NEW n \in Nat, a <= b
    PROVE  a * n <= b * n
<1>1. (b - a) * n >= 0
  OBVIOUS
<1>2. (b - a) * n = b * n - a * n
  OBVIOUS
<1>. QED  BY <1>1, <1>2

\* Quotient and remainder.
LEMMA DivideBy ==
    ASSUME NEW t \in Nat, NEW n \in Nat \ {0}
    PROVE  t \div n \in Nat /\ t % n \in 0 .. n - 1 /\ t = n * (t \div n) + (t % n)
<1>. DEFINE q == t \div n
            r == t % n
<1>1. q \in Int /\ r \in 0 .. n - 1 /\ t = n * q + r
  <2>1. r \in 0 .. n - 1
    OBVIOUS
  <2>2. q \in Int
    OBVIOUS
  <2>3. t = n * q + r
    OBVIOUS
  <2>. QED  BY <2>1, <2>2, <2>3
<1>. HIDE DEF q, r
<1>2. q >= 0
  <2>. SUFFICES ASSUME q <= -1 PROVE FALSE
    BY <1>1
  <2>1. n * (-1 - q) >= 0
    BY <1>1
  <2>2. n * q = -n - n * (-1 - q)
    BY <1>1
  <2>. QED  BY <1>1, <2>1, <2>2
<1>3. q \in Nat /\ r \in 0 .. n - 1 /\ t = n * q + r
  BY <1>1, <1>2
<1>. QED  BY <1>3 DEF q, r

\* The remainder of a number less than n away from zero.
LEMMA RemainderNear ==
    ASSUME NEW n \in Nat \ {0}, NEW x \in -n .. n - 1
    PROVE  x % n = IF x < 0 THEN x + n ELSE x
<1>. DEFINE q == x \div n
            r == x % n
<1>1. q \in Int /\ r \in 0 .. n - 1 /\ x = n * q + r
  OBVIOUS
<1>. HIDE DEF q, r
<1>2. q <= 0
  <2>. SUFFICES ASSUME q >= 1 PROVE FALSE
    BY <1>1
  <2>1. n * (q - 1) >= 0
    BY <1>1
  <2>2. n * q = n * (q - 1) + n
    BY <1>1
  <2>. QED  BY <1>1, <2>1, <2>2
<1>3. q >= -1
  <2>. SUFFICES ASSUME q <= -2 PROVE FALSE
    BY <1>1
  <2>1. n * (-2 - q) >= 0
    BY <1>1
  <2>2. n * q = -2 * n - n * (-2 - q)
    BY <1>1
  <2>. QED  BY <1>1, <2>1, <2>2
<1>4. CASE q = 0
  BY <1>1, <1>4 DEF r
<1>5. CASE q = -1
  BY <1>1, <1>5 DEF r
<1>. QED  BY <1>1, <1>2, <1>3, <1>4, <1>5

\* A set of numbers that is not empty has a least one.
LEMMA LeastExists ==
    ASSUME NEW S \in SUBSET Nat, S # {}
    PROVE  \E i \in S : \A j \in S : i <= j
<1>. DEFINE R == StrictSubsetOrdering(Nat)
            T == {0 .. k : k \in S}
<1>1. T \subseteq FiniteSubsetsOf(Nat) /\ T # {}
  <2>1. \A k \in S : IsFiniteSet(0 .. k) /\ 0 .. k \in SUBSET Nat
    BY FS_Interval
  <2>. QED  BY <2>1 DEF FiniteSubsetsOf
<1>2. IsWellFoundedOn(R, FiniteSubsetsOf(Nat))
  BY FS_StrictSubsetOrderingWellFounded
<1>3. \E x \in T : \A y \in T : <<y, x>> \notin R
  <2>. HIDE DEF R, T
  <2>. QED  BY <1>1, <1>2, WFMin
<1>4. PICK m \in S : \A k \in S : <<0 .. k, 0 .. m>> \notin R
  BY <1>3
<1>5. ASSUME NEW k \in S, k < m PROVE FALSE
  <2>1. 0 .. k \in SUBSET Nat /\ 0 .. m \in SUBSET Nat
    OBVIOUS
  <2>2. 0 .. k \subseteq 0 .. m /\ m \in 0 .. m /\ m \notin 0 .. k
    BY <1>5
  <2>3. <<0 .. k, 0 .. m>> \in R
    BY <2>1, <2>2 DEF StrictSubsetOrdering
  <2>. QED  BY <1>4, <2>3
<1>. QED  BY <1>5

\* Sets with a one-to-one map onto each other have as many elements.
LEMMA SameNumber ==
    ASSUME NEW A, NEW B, NEW f \in [A -> B], IsFiniteSet(A),
           \A a, b \in A : f[a] = f[b] => a = b,
           \A b \in B : \E a \in A : f[a] = b
    PROVE  IsFiniteSet(B) /\ Cardinality(B) = Cardinality(A)
<1>1. f \in Bijection(A, B)
  BY DEF Bijection, Injection, Surjection, IsInjective
<1>. QED  BY <1>1, FS_Bijection DEF ExistsBijection

\* Induction, for the members of a set.
LEMMA InductionOnNat ==
    ASSUME NEW S, 0 \in S, \A n \in Nat : n \in S => n + 1 \in S
    PROVE  Nat \subseteq S
<1>. SUFFICES ASSUME Nat \ S # {} PROVE FALSE
  OBVIOUS
<1>1. PICK m \in Nat \ S : \A j \in Nat \ S : m <= j
  BY LeastExists
<1>2. m - 1 \in Nat /\ m - 1 \in S
  BY <1>1
<1>. QED  BY <1>1, <1>2

\* Induction up to a number, each member from the two before it.
LEMMA InductionOnTwo ==
    ASSUME NEW S, NEW m \in Nat, 0 \in S,
           \A n \in 0 .. m - 1 : n \in S /\ (n # 0 => n - 1 \in S) => n + 1 \in S
    PROVE  0 .. m \subseteq S
<1>. DEFINE T == {n \in Nat : n <= m => n \in S /\ (n # 0 => n - 1 \in S)}
<1>1. 0 \in T
  OBVIOUS
<1>2. ASSUME NEW n \in Nat, n \in T PROVE n + 1 \in T
  <2>. SUFFICES ASSUME n + 1 <= m PROVE n + 1 \in S /\ (n + 1) - 1 \in S
    OBVIOUS
  <2>1. n \in 0 .. m - 1 /\ n \in S /\ (n # 0 => n - 1 \in S)
    BY <1>2
  <2>. QED  BY <2>1
<1>3. Nat \subseteq T
  <2>. HIDE DEF T
  <2>. QED  BY <1>1, <1>2, InductionOnNat
<1>. QED  BY <1>3

\* A function on 0 .. n that starts with c and takes each value to the next.
Iterates(g, n, c, D) == \A i \in 0 .. n : g[i] = IF i = 0 THEN c ELSE D[i][g[i - 1]]

LEMMA RecursionExists ==
    ASSUME NEW S, NEW n \in Nat, NEW c \in S, NEW D \in [1 .. n -> [S -> S]]
    PROVE  \E g \in [0 .. n -> S] : Iterates(g, n, c, D)
<1>. DEFINE Upto(m) == \E g \in [0 .. m -> S] :
                         \A i \in 0 .. m : g[i] = IF i = 0 THEN c ELSE D[i][g[i - 1]]
            T == {m \in Nat : m <= n => Upto(m)}
<1>1. 0 \in T
  <2>1. [i \in 0 .. 0 |-> c] \in [0 .. 0 -> S]
    OBVIOUS
  <2>2. \A i \in 0 .. 0 : [j \in 0 .. 0 |-> c][i] = IF i = 0 THEN c ELSE D[i][[j \in 0 .. 0 |-> c][i - 1]]
    OBVIOUS
  <2>. QED  BY <2>1, <2>2
<1>2. ASSUME NEW m \in Nat, m \in T
      PROVE  m + 1 \in T
  <2>. SUFFICES ASSUME m + 1 <= n PROVE Upto(m + 1)
    OBVIOUS
  <2>1. PICK g \in [0 .. m -> S] : \A i \in 0 .. m : g[i] = IF i = 0 THEN c ELSE D[i][g[i - 1]]
    BY <1>2
  <2>. DEFINE h == [i \in 0 .. m + 1 |-> IF i = m + 1 THEN D[m + 1][g[m]] ELSE g[i]]
  <2>2. D[m + 1][g[m]] \in S
    <3>1. m + 1 \in 1 .. n /\ g[m] \in S
      OBVIOUS
    <3>. QED  BY <3>1
  <2>3. h \in [0 .. m + 1 -> S]
    BY <2>2
  <2>4. ASSUME NEW i \in 0 .. m + 1
        PROVE  h[i] = IF i = 0 THEN c ELSE D[i][h[i - 1]]
    <3>1. CASE i = m + 1
      <4>1. h[i] = D[m + 1][g[m]] /\ h[m] = g[m]
        BY <3>1
      <4>. QED  BY <3>1, <4>1
    <3>2. CASE i \in 0 .. m
      <4>1. h[i] = g[i] /\ (i # 0 => h[i - 1] = g[i - 1])
        BY <3>2
      <4>. QED  BY <2>1, <3>2, <4>1
    <3>. QED  BY <3>1, <3>2
  <2>. QED  BY <2>3, <2>4
<1>3. Nat \subseteq T
  <2>. HIDE DEF T
  <2>. QED  BY <1>1, <1>2, InductionOnNat
<1>4. n \in T
  BY <1>3
<1>. QED  BY <1>4 DEF Iterates

\* The same when a value is made of the two before it.
IteratesOnTwo(g, n, c, D) ==
    \A i \in 0 .. n : g[i] = IF i = 0 THEN c ELSE D[i][<<g[i - 1], IF i = 1 THEN c ELSE g[i - 2]>>]

LEMMA RecursionOnTwo ==
    ASSUME NEW S, NEW n \in Nat, NEW c \in S, NEW D \in [1 .. n -> [S \X S -> S]]
    PROVE  \E g \in [0 .. n -> S] : IteratesOnTwo(g, n, c, D)
<1>. DEFINE P == S \X S
            E == [i \in 1 .. n |-> [p \in P |-> <<D[i][p], p[1]>>]]
<1>1. E \in [1 .. n -> [P -> P]] /\ <<c, c>> \in P
  OBVIOUS
<1>2. PICK h \in [0 .. n -> P] : Iterates(h, n, <<c, c>>, E)
  <2>. HIDE DEF E, P
  <2>. QED  BY <1>1, RecursionExists
<1>3. ASSUME NEW i \in 1 .. n
      PROVE  h[i] = <<D[i][h[i - 1]], h[i - 1][1]>> /\ i - 1 \in 0 .. n
  <2>1. i \in 0 .. n /\ i # 0 /\ i - 1 \in 0 .. n
    OBVIOUS
  <2>2. h[i] = E[i][h[i - 1]] /\ h[i - 1] \in P
    <3>. HIDE DEF E, P
    <3>. QED  BY <1>2, <2>1 DEF Iterates
  <2>. QED  BY <2>1, <2>2
<1>4. h[0] = <<c, c>>
  <2>. HIDE DEF E, P
  <2>. QED  BY <1>2 DEF Iterates
<1>. DEFINE g == [i \in 0 .. n |-> h[i][1]]
<1>5. g \in [0 .. n -> S] /\ g[0] = c
  BY <1>4
<1>6. ASSUME NEW i \in 1 .. n
      PROVE  g[i] = D[i][<<g[i - 1], IF i = 1 THEN c ELSE g[i - 2]>>]
  <2>1. g[i] = D[i][h[i - 1]]
    BY <1>3
  <2>2. h[i - 1] \in P /\ h[i - 1] = <<h[i - 1][1], h[i - 1][2]>> /\ h[i - 1][1] = g[i - 1]
    BY <1>3
  <2>3. h[i - 1][2] = IF i = 1 THEN c ELSE g[i - 2]
    <3>1. CASE i = 1
      BY <1>4, <3>1
    <3>2. CASE i # 1
      <4>1. i - 1 \in 1 .. n /\ i - 1 - 1 = i - 2 /\ i - 2 \in 0 .. n
        BY <3>2
      <4>2. h[i - 1] = <<D[i - 1][h[i - 1 - 1]], h[i - 1 - 1][1]>>
        BY <1>3, <4>1
      <4>. QED  BY <3>2, <4>1, <4>2
    <3>. QED  BY <3>1, <3>2
  <2>. QED  BY <2>1, <2>2, <2>3
<1>. HIDE DEF g
<1>. QED  BY <1>5, <1>6 DEF IteratesOnTwo

\* What holds of the empty set, and of a set if of every set with one element
\* less, holds of every subset of a finite set.
LEMMA FiniteSubsets ==
    ASSUME NEW I, IsFiniteSet(I), NEW Q, {} \in Q,
           \A s \in SUBSET I : s # {} /\ (\A i \in s : s \ {i} \in Q) => s \in Q
    PROVE  SUBSET I \subseteq Q
<1>. DEFINE S == {n \in Nat : \A s \in SUBSET I : Cardinality(s) = n => s \in Q}
<1>1. \A s \in SUBSET I : IsFiniteSet(s) /\ Cardinality(s) \in Nat /\ (Cardinality(s) = 0 <=> s = {})
  BY FS_Subset, FS_CardinalityType, FS_EmptySet
<1>2. 0 \in S
  BY <1>1
<1>3. ASSUME NEW n \in Nat, n \in S PROVE n + 1 \in S
  <2>. SUFFICES ASSUME NEW s \in SUBSET I, Cardinality(s) = n + 1 PROVE s \in Q
    OBVIOUS
  <2>1. s # {}
    BY <1>1
  <2>2. ASSUME NEW i \in s PROVE s \ {i} \in Q
    <3>1. Cardinality(s \ {i}) = n
      BY <1>1, FS_RemoveElement
    <3>. QED  BY <1>3, <3>1
  <2>. QED  BY <2>1, <2>2
<1>4. Nat \subseteq S
  <2>. HIDE DEF S
  <2>. QED  BY <1>2, <1>3, InductionOnNat
<1>. QED  BY <1>1, <1>4
=============================================================================
