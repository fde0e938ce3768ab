---------------------------- MODULE LeastNumbers ----------------------------
(***************************************************************************)
(* The least and the greatest of a set of natural numbers: what stands for *)
(* induction in the proofs about queries that are ordered, and about       *)
(* functions that are computed step by step.                               *)
(***************************************************************************)
EXTENDS Integers, FiniteSetTheorems, WellFoundedInduction, TLAPS

\* A set of natural numbers has a least one.
LEMMA LeastNumber ==
  ASSUME NEW T, T \subseteq Nat, T # {}
  PROVE  \E x \in T : \A y \in T : x <= y
<1>1. \E x \in T : \A y \in T : ~(y < x)
  <2>1. PICK x \in T : \A y \in T : <<y, x>> \notin OpToRel(<, Nat)
    BY WFMin, NatLessThanWellFounded, Zenon
  <2>2. x \in Nat /\ \A y \in T : y \in Nat
    BY <2>1, Zenon
  <2>3. \A y \in T : ~(y < x)
    BY <2>1, <2>2, Zenon DEF OpToRel
  <2> QED BY <2>3, Zenon
<1> QED BY <1>1

\* What begins with zero and goes on holds all natural numbers.
LEMMA AllNumbers ==
  ASSUME NEW T, 0 \in T, \A n \in Nat : n \in T => n + 1 \in T
  PROVE  Nat \subseteq T
<1> DEFINE Rest == Nat \ T
<1>1. CASE Rest # {}
  <2>1. PICK n \in Rest : \A m \in Rest : n <= m
    <3>1. Rest \subseteq Nat
      OBVIOUS
    <3> HIDE DEF Rest
    <3> QED BY <1>1, <3>1, LeastNumber, Zenon
  <2>2. n # 0 /\ n - 1 \in Nat /\ n - 1 \notin Rest
    BY <2>1
  <2> QED BY <2>1, <2>2
<1>2. CASE Rest = {}
  BY <1>2
<1> QED BY <1>1, <1>2

\* A finite set of natural numbers has a greatest one: the one that has the
\* fewest above it.
LEMMA GreatestNumber ==
  ASSUME NEW T, T \subseteq Nat, T # {}, IsFiniteSet(T)
  PROVE  \E x \in T : \A y \in T : y <= x
<1> DEFINE Above(x) == {y \in T : y > x}
           Counts == {Cardinality(Above(x)) : x \in T}
<1>1. ASSUME NEW x \in T PROVE IsFiniteSet(Above(x)) /\ Cardinality(Above(x)) \in Nat
  <2>1. IsFiniteSet(Above(x))
    BY FS_Subset
  <2> QED BY <2>1, FS_CardinalityType
<1>2. Counts \subseteq Nat /\ Counts # {}
  BY <1>1
<1>3. PICK n \in Counts : \A m \in Counts : n <= m
  BY <1>2, LeastNumber
<1>4. PICK x \in T : n = Cardinality(Above(x))
  BY <1>3
<1>5. ASSUME NEW y \in T, y > x PROVE FALSE
  <2>1. Above(y) \subseteq Above(x) /\ Above(y) # Above(x)
    <3>1. y \in Above(x) /\ y \notin Above(y)
      BY <1>5
    <3>2. \A z \in T : z > y => z > x
      BY <1>5
    <3> QED BY <3>1, <3>2
  <2> HIDE DEF Above
  <2>2. Cardinality(Above(y)) <= Cardinality(Above(x))
        /\ Cardinality(Above(y)) # Cardinality(Above(x))
    BY <1>1, <2>1, FS_Subset
  <2> QED BY <1>1, <1>3, <1>4, <2>2
<1>6. \A y \in T : y <= x
  BY <1>5
<1> QED BY <1>4, <1>6

\* f begins with a and goes on step by step.
Iterates(f, S, a, step) ==
  f \in [Nat -> S] /\ f[0] = a /\ \A n \in Nat : f[n + 1] = step[f[n]]

\* There is such a function.
LEMMA Recursion ==
  ASSUME NEW S, NEW a \in S, NEW step \in [S -> S]
  PROVE  \E f : Iterates(f, S, a, step)
<1> DEFINE Upto(n, f) == /\ f \in [0 .. n -> S] /\ f[0] = a
                         /\ \A i \in 0 .. n - 1 : f[i + 1] = step[f[i]]
           Missing == {n \in Nat : ~ \E f : Upto(n, f)}
<1>1. ASSUME Missing # {} PROVE FALSE
  <2>1. PICK n \in Missing : \A m \in Missing : n <= m
    <3>1. Missing \subseteq Nat
      OBVIOUS
    <3> HIDE DEF Missing
    <3> QED BY <1>1, <3>1, LeastNumber, Zenon
  <2>2. CASE n = 0
    <3> DEFINE g == [i \in 0 .. 0 |-> a]
    <3>1. g \in [0 .. 0 -> S] /\ g[0] = a
      OBVIOUS
    <3> HIDE DEF g
    <3>2. \A i \in 0 .. 0 - 1 : FALSE
      OBVIOUS
    <3>3. Upto(n, g)
      BY <2>2, <3>1, <3>2
    <3> QED BY <2>1, <3>3
  <2>3. CASE n # 0
    <3>0. n \in Nat
      OBVIOUS
    <3>1. n \in Nat /\ n - 1 \in Nat /\ n - 1 \notin Missing
      <4> HIDE DEF Missing
      <4> QED BY <2>1, <2>3, <3>0
    <3>2. PICK f : Upto(n - 1, f)
      BY <3>1
    <3> DEFINE g == [i \in 0 .. n |-> IF i = n THEN step[f[n - 1]] ELSE f[i]]
    <3>3. f[n - 1] \in S /\ step[f[n - 1]] \in S /\ \A i \in 0 .. n - 1 : f[i] \in S
      BY <3>1, <3>2
    <3>4. g \in [0 .. n -> S]
      BY <3>1, <3>3
    <3>5. g[0] = a /\ g[n] = step[f[n - 1]] /\ \A i \in 0 .. n - 1 : g[i] = f[i]
      BY <2>3, <3>1, <3>2
    <3> HIDE DEF g
    <3>6. ASSUME NEW i \in 0 .. n - 1 PROVE g[i + 1] = step[g[i]]
      <4>1. CASE i = n - 1
        BY <3>1, <3>5, <4>1
      <4>2. CASE i # n - 1
        BY <3>1, <3>2, <3>5, <4>2
      <4> QED BY <4>1, <4>2
    <3>7. Upto(n, g)
      BY <3>4, <3>5, <3>6
    <3> QED BY <2>1, <3>7
  <2> QED BY <2>2, <2>3
<1>2. ASSUME NEW n \in Nat, NEW f, NEW g, Upto(n, f), Upto(n + 1, g)
      PROVE  f[n] = g[n]
  <2> DEFINE Apart == {i \in 0 .. n : f[i] # g[i]}
  <2>1. CASE Apart = {}
    BY <2>1
  <2>2. CASE Apart # {}
    <3>1. PICK i \in Apart : \A j \in Apart : i <= j
      <4>1. Apart \subseteq Nat
        OBVIOUS
      <4> HIDE DEF Apart
      <4> QED BY <2>2, <4>1, LeastNumber, Zenon
    <3>2. i # 0
      BY <1>2
    <3>3. i - 1 \in 0 .. n - 1 /\ i - 1 \notin Apart
      BY <3>1, <3>2
    <3>4. f[i - 1] = g[i - 1]
      BY <3>3
    <3>5. f[(i - 1) + 1] = step[f[i - 1]] /\ g[(i - 1) + 1] = step[g[i - 1]]
      BY <1>2, <3>3
    <3> QED BY <3>4, <3>5
  <2> QED BY <2>1, <2>2
<1> DEFINE Part(n) == CHOOSE f : Upto(n, f)
           F == [n \in Nat |-> Part(n)[n]]
<1>3. ASSUME NEW n \in Nat PROVE Upto(n, Part(n))
  <2>1. \E f : Upto(n, f)
    BY <1>1
  <2> HIDE DEF Upto
  <2> QED BY <2>1
<1> HIDE DEF Part
<1>4. F \in [Nat -> S]
  BY <1>3
<1>5. F[0] = a
  BY <1>3
<1>6. ASSUME NEW n \in Nat PROVE F[n + 1] = step[F[n]]
  <2>1. Upto(n, Part(n)) /\ Upto(n + 1, Part(n + 1))
    BY <1>3
  <2>2. Part(n)[n] = Part(n + 1)[n]
    <3> HIDE DEF Upto
    <3> QED BY <1>2, <2>1
  <2>3. Part(n + 1)[n + 1] = step[Part(n + 1)[n]]
    BY <2>1
  <2> QED BY <2>2, <2>3
<1>7. Iterates(F, S, a, step)
  BY <1>4, <1>5, <1>6 DEF Iterates
<1> QED BY <1>7

\* f begins with a and takes n steps, each one its own.
Takes(f, S, n, a, step) ==
  f \in [0 .. n -> S] /\ f[0] = a /\ \A i \in 1 .. n : f[i] = step[i][f[i - 1]]

\* There is such a function.
LEMMA Steps ==
  ASSUME NEW S, NEW n \in Nat, NEW a \in S, NEW step \in [1 .. n -> [S -> S]]
  PROVE  \E f : Takes(f, S, n, a, step)
<1> DEFINE Upto(k, f) == f[0] = a /\ \A i \in 1 .. k : f[i] = step[i][f[i - 1]]
           T == {k \in Nat : k <= n => \E f \in [0 .. k -> S] : Upto(k, f)}
<1>1. 0 \in T
  <2> DEFINE g == [i \in 0 .. 0 |-> a]
  <2>1. g \in [0 .. 0 -> S] /\ g[0] = a
    OBVIOUS
  <2> HIDE DEF g
  <2>2. Upto(0, g)
    BY <2>1
  <2> HIDE DEF Upto
  <2> QED BY <2>1, <2>2
<1>2. ASSUME NEW k \in Nat, k \in T PROVE k + 1 \in T
  <2> SUFFICES ASSUME k + 1 <= n PROVE \E f \in [0 .. k + 1 -> S] : Upto(k + 1, f)
    OBVIOUS
  <2>1. PICK f \in [0 .. k -> S] : Upto(k, f)
    BY <1>2
  <2> DEFINE g == [i \in 0 .. k + 1 |-> IF i = k + 1 THEN step[k + 1][f[k]] ELSE f[i]]
  <2>2. f[k] \in S /\ step[k + 1] \in [S -> S] /\ step[k + 1][f[k]] \in S
    OBVIOUS
  <2>3. g \in [0 .. k + 1 -> S]
    BY <2>2
  <2>4. g[k + 1] = step[k + 1][f[k]] /\ \A i \in 0 .. k : g[i] = f[i]
    OBVIOUS
  <2> HIDE DEF g
  <2>5. Upto(k + 1, g)
    <3>1. g[0] = a
      BY <2>1, <2>4
    <3>2. ASSUME NEW i \in 1 .. k + 1 PROVE g[i] = step[i][g[i - 1]]
      <4>1. CASE i = k + 1
        BY <2>4, <4>1
      <4>2. CASE i # k + 1
        BY <2>1, <2>4, <4>2
      <4> QED BY <4>1, <4>2
    <3> QED BY <3>1, <3>2
  <2> QED BY <2>3, <2>5
<1>3. n \in T
  <2> HIDE DEF T
  <2> QED BY <1>1, <1>2, AllNumbers
<1> QED BY <1>3 DEF Takes
=============================================================================
