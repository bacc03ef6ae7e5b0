-------------------------------- MODULE Induction --------------------------------
(***************************************************************************)
(* Induction and recursion over numbers without operators as parameters:    *)
(* the numbers that have a property are a set, and the step of a recursion  *)
(* is a function.  Both rest on the least number of a set (WFMin).          *)
(***************************************************************************)
EXTENDS Integers, FiniteSetTheorems, WellFoundedInduction, TLAPS

\* Induction over the natural numbers, S being those that have the property.
THEOREM SetInduction ==
    ASSUME NEW S, 0 \in S, \A n \in Nat : n \in S => n + 1 \in S
    PROVE  Nat \subseteq S
<1>1. SUFFICES ASSUME Nat \ S # {} PROVE FALSE
    OBVIOUS
<1> DEFINE R == OpToRel(<, Nat)
<1>2. IsWellFoundedOn(R, Nat)
    BY NatLessThanWellFounded
<1>3. \E x \in Nat \ S : \A y \in Nat \ S : <<y, x>> \notin R
  <2> HIDE DEF R
  <2> QED BY <1>1, <1>2, WFMin
<1>4. PICK x \in Nat \ S : \A y \in Nat \ S : <<y, x>> \notin R
    BY <1>3
<1>5. x # 0 /\ x - 1 \in Nat
    OBVIOUS
<1>6. x - 1 \notin S
    BY <1>5
<1>7. <<x - 1, x>> \in R
    BY <1>5 DEF OpToRel
<1> QED BY <1>4, <1>5, <1>6, <1>7

\* The same from a up to b.
THEOREM IntervalInduction ==
    ASSUME NEW a \in Int, NEW b \in Int, NEW S,
           a <= b => a \in S,
           \A n \in a .. b - 1 : n \in S => n + 1 \in S
    PROVE  a .. b \subseteq S
<1> DEFINE N == {n \in Nat : a + n <= b => a + n \in S}
<1>1. 0 \in N
    OBVIOUS
<1>2. ASSUME NEW n \in Nat, n \in N PROVE n + 1 \in N
  <2>1. CASE a + n + 1 <= b
    <3>1. a + n \in a .. b - 1 /\ a + n \in S
        BY <1>2, <2>1
    <3>2. a + n + 1 \in S
        BY <3>1
    <3>3. a + (n + 1) = a + n + 1
        OBVIOUS
    <3> QED BY <3>2, <3>3
  <2>2. CASE ~(a + n + 1 <= b)
      BY <2>2
  <2> QED BY <2>1, <2>2
<1>3. Nat \subseteq N
  <2> HIDE DEF N
  <2> QED BY <1>1, <1>2, SetInduction
<1>4. ASSUME NEW k \in a .. b PROVE k \in S
  <2>1. k - a \in N
      BY <1>3
  <2>2. a + (k - a) = k
      OBVIOUS
  <2> QED BY <2>1, <2>2
<1> QED BY <1>4

\* A recursion from a up to b: with c at a, and the step h from the value before.
Recurses(f, a, b, c, h) == \A n \in a .. b : f[n] = IF n = a THEN c ELSE h[n][f[n - 1]]

\* The values of the recursion stay in V.
StepsIn(V, a, b, h) == \A n \in a + 1 .. b : \A v \in V : h[n][v] \in V

\* A recursion over an interval defines a function.
THEOREM IntervalRecursion ==
    ASSUME NEW a \in Int, NEW b \in Int, NEW V, NEW c \in V, NEW h, StepsIn(V, a, b, h)
    PROVE  \E f \in [a .. b -> V] : Recurses(f, a, b, c, h)
<1> USE DEF StepsIn, Recurses
<1> DEFINE Is(f, m) == Recurses(f, a, m, c, h)
           S == {m \in a .. b : \E f \in [a .. m -> V] : Is(f, m)}
<1>1. ASSUME a <= b PROVE a \in S
  <2> DEFINE f == [n \in a .. a |-> c]
  <2>1. f \in [a .. a -> V] /\ Is(f, a)
      OBVIOUS
  <2>2. a \in a .. b
      BY <1>1
  <2> QED BY <2>1, <2>2
<1>2. ASSUME NEW m \in a .. b - 1, m \in S PROVE m + 1 \in S
  <2>1. PICK f \in [a .. m -> V] : Is(f, m)
      BY <1>2
  <2> DEFINE g == [n \in a .. m + 1 |-> IF n = m + 1 THEN h[m + 1][f[m]] ELSE f[n]]
  <2>2. m \in a .. m /\ m + 1 \in a + 1 .. b
      OBVIOUS
  <2>3. h[m + 1][f[m]] \in V
      BY <2>1, <2>2
  <2>4. g \in [a .. m + 1 -> V]
      BY <2>1, <2>3
  <2>5. ASSUME NEW n \in a .. m + 1 PROVE g[n] = IF n = a THEN c ELSE h[n][g[n - 1]]
    <3>1. CASE n = m + 1
      <4>1. g[n] = h[n][f[m]] /\ n # a
          BY <3>1
      <4>2. n - 1 = m /\ g[n - 1] = f[m]
          BY <3>1
      <4> QED BY <4>1, <4>2
    <3>2. CASE n # m + 1
      <4>1. n \in a .. m
          BY <3>2
      <4>2. g[n] = f[n] /\ f[n] = IF n = a THEN c ELSE h[n][f[n - 1]]
          BY <2>1, <3>2, <4>1
      <4>3. n # a => g[n - 1] = f[n - 1]
          BY <3>2
      <4> QED BY <4>2, <4>3
    <3> QED BY <3>1, <3>2
  <2>6. Is(g, m + 1)
      BY <2>5
  <2>7. m + 1 \in a .. b
      OBVIOUS
  <2> QED BY <2>4, <2>6, <2>7
<1>3. a .. b \subseteq S
  <2> HIDE DEF S
  <2> QED BY <1>1, <1>2, IntervalInduction
<1>4. CASE a <= b
  <2>1. b \in S
      BY <1>3, <1>4
  <2> QED BY <2>1
<1>5. CASE ~(a <= b)
  <2>1. a .. b = {}
      BY <1>5
  <2> DEFINE f == [n \in a .. b |-> c]
  <2>2. f \in [a .. b -> V] /\ Is(f, b)
      BY <2>1
  <2> QED BY <2>2
<1> QED BY <1>4, <1>5

-----------------------------------------------------------------------------
(* Powers of two.                                                          *)

\* 2^n counts the subsets of n things.
LEMMA PowerCounts ==
    ASSUME NEW n \in Nat
    PROVE  /\ IsFiniteSet(SUBSET (1..n)) /\ Cardinality(SUBSET (1..n)) = 2^n
           /\ 2^n \in Nat
<1>1. IsFiniteSet(1..n) /\ Cardinality(1..n) = n
  <2>1. 1 \in Int /\ n \in Int
      OBVIOUS
  <2> QED BY <2>1, FS_Interval
<1>2. IsFiniteSet(SUBSET (1..n)) /\ Cardinality(SUBSET (1..n)) = 2^n
    BY <1>1, FS_SUBSET, Zenon
<1>3. Cardinality(SUBSET (1..n)) \in Nat
    BY <1>2, FS_CardinalityType
<1> QED BY <1>2, <1>3, Zenon

\* Each subset of one thing fewer gives two, without it and with it.
LEMMA PowerDoubles ==
    ASSUME NEW n \in Nat
    PROVE  2^(n + 1) = 2^n + 2^n
<1> DEFINE A == SUBSET (1..n)
           f == [s \in A |-> s \cup {n + 1}]
           B == {f[s] : s \in A}
<1>1. IsFiniteSet(A) /\ Cardinality(A) = 2^n /\ 2^n \in Nat
    BY PowerCounts
<1>2. f \in Bijection(A, B)
  <2>1. \A s, t \in A : f[s] = f[t] => s = t
    <3> SUFFICES ASSUME NEW s \in A, NEW t \in A, f[s] = f[t] PROVE s = t
        OBVIOUS
    <3>1. s \cup {n + 1} = t \cup {n + 1}
        OBVIOUS
    <3>2. n + 1 \notin s /\ n + 1 \notin t
        OBVIOUS
    <3> QED BY <3>1, <3>2
  <2>2. f \in [A -> B]
      OBVIOUS
  <2> HIDE DEF f
  <2>3. f \in Injection(A, B)
      BY <2>1, <2>2 DEF Injection, IsInjective
  <2>4. f \in Surjection(A, B)
      BY <2>2 DEF Surjection
  <2> QED BY <2>3, <2>4 DEF Bijection
<1>3. IsFiniteSet(B) /\ Cardinality(B) = Cardinality(A)
  <2>1. ExistsBijection(A, B)
      BY <1>2 DEF ExistsBijection
  <2> HIDE DEF A, B
  <2> QED BY <1>1, <2>1, FS_Bijection
<1>4. A \cap B = {}
  <2> SUFFICES ASSUME NEW s \in A, NEW t \in A, s = f[t] PROVE FALSE
      OBVIOUS
  <2>1. n + 1 \in f[t] /\ n + 1 \notin s
      OBVIOUS
  <2> QED BY <2>1
<1>5. A \cup B = SUBSET (1..n + 1)
  <2>1. ASSUME NEW s \in SUBSET (1..n + 1) PROVE s \in A \cup B
    <3>1. CASE n + 1 \notin s
      <4>1. \A i \in s : i \in 1..n
          BY <3>1
      <4> QED BY <4>1
    <3>2. CASE n + 1 \in s
      <4>1. s \ {n + 1} \in A
          OBVIOUS
      <4>2. f[s \ {n + 1}] = s
          BY <4>1, <3>2
      <4> QED BY <4>1, <4>2
    <3> QED BY <3>1, <3>2
  <2>2. A \cup B \subseteq SUBSET (1..n + 1)
    <3>1. \A s \in A : s \subseteq 1..n + 1
        OBVIOUS
    <3>2. ASSUME NEW s \in A PROVE f[s] \subseteq 1..n + 1
      <4>1. f[s] = s \cup {n + 1}
          OBVIOUS
      <4> QED BY <4>1
    <3> HIDE DEF A, f
    <3> QED BY <3>1, <3>2
  <2> QED BY <2>1, <2>2
<1>6. Cardinality(SUBSET (1..n + 1)) = 2^(n + 1)
  <2>1. n + 1 \in Nat
      OBVIOUS
  <2> QED BY <2>1, PowerCounts
<1>7. Cardinality(A \cup B) = Cardinality(A) + Cardinality(B) - Cardinality(A \cap B)
  <2> HIDE DEF A, B
  <2> QED BY <1>1, <1>3, FS_Union
<1>8. Cardinality(A \cap B) = 0
    BY <1>4, FS_EmptySet
<1>9. 2^(n + 1) = Cardinality(A \cup B)
    BY <1>5, <1>6, Zenon
<1> HIDE DEF A, B, f
<1>10. PICK p \in Nat : p = 2^n
    BY <1>1
<1>11. Cardinality(A) = p /\ Cardinality(B) = p
    BY <1>1, <1>3, <1>10, Zenon
<1>12. Cardinality(A \cup B) = p + p
    BY <1>7, <1>8, <1>11
<1> QED BY <1>9, <1>10, <1>12, Zenon

\* Powers of two are positive, and grow with their exponents.
LEMMA PowerPositive ==
    ASSUME NEW n \in Nat
    PROVE  2^n \in Nat /\ 2^n >= 1
<1> DEFINE S == {k \in Nat : 2^k >= 1}
<1>1. 0 \in S
    OBVIOUS
<1>2. ASSUME NEW k \in Nat, k \in S PROVE k + 1 \in S
    BY <1>2, PowerDoubles, PowerCounts
<1>3. Nat \subseteq S
  <2> HIDE DEF S
  <2> QED BY <1>1, <1>2, SetInduction
<1> QED BY <1>3, PowerCounts
=============================================================================
