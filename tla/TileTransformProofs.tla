--------------------------- MODULE TileTransformProofs ---------------------------
(***************************************************************************)
(* Proofs about TileTransform: every line is transformed and back without   *)
(* loss by either filter, the goroutines of a pass share its lines without  *)
(* overlap, and what comes back, of a tile as a whole or of a window on it, *)
(* is the encoder's picture.                                                *)
(*                                                                          *)
(* The inductive invariant of the whole says what every word of the shared  *)
(* buffer holds: a line that a pass has left is as the encoder's pass over  *)
(* it left it, a line it has taken is as the encoder's pass found it, and   *)
(* around them are the bands of the higher resolutions. That of a window    *)
(* says the same of the places within a margin that shrinks from level to   *)
(* level, and nothing of the others.                                        *)
(***************************************************************************)
EXTENDS TileTransform, Induction, FiniteSetTheorems, TLAPS

-----------------------------------------------------------------------------
(* Powers of two, and numbers rounded up.                                  *)

\* A larger power of 2 is no smaller.
LEMMA PowerMonotone ==
    ASSUME NEW m \in Nat, NEW n \in Nat, m <= n
    PROVE  2^m <= 2^n
<1> DEFINE S == {k \in m .. n : 2^m <= 2^k}
<1>1. m \in Int /\ n \in Int
    OBVIOUS
<1>2. m <= n => m \in S
    BY PowerCounts
<1>3. ASSUME NEW k \in m .. n - 1, k \in S PROVE k + 1 \in S
  <2>1. k \in Nat /\ k + 1 \in m .. n
      OBVIOUS
  <2>2. 2^(k + 1) = 2^k + 2^k /\ 2^k \in Nat /\ 2^m \in Nat
      BY <2>1, PowerDoubles, PowerCounts
  <2> QED BY <1>3, <2>1, <2>2
<1>4. m .. n \subseteq S
  <2> HIDE DEF S
  <2> QED BY <1>1, <1>2, <1>3, IntervalInduction
<1> QED BY <1>4

\* CeilDiv rounds up.
LEMMA CeilDivBounds ==
    ASSUME NEW a \in Int, NEW b \in Nat \ {0}
    PROVE  /\ CeilDiv(a, b) \in Int
           /\ b * CeilDiv(a, b) >= a /\ b * CeilDiv(a, b) < a + b
<1> DEFINE q == (a + b - 1) \div b
           m == (a + b - 1) % b
<1>1. a + b - 1 \in Int
    OBVIOUS
<1>2. q \in Int /\ m \in 0 .. b - 1 /\ a + b - 1 = b * q + m
    BY <1>1
<1>3. CeilDiv(a, b) = q
    BY DEF CeilDiv
<1> HIDE DEF q, m
<1>4. PICK x \in Int : x = b * q
    BY <1>2
<1> QED BY <1>2, <1>3, <1>4

\* What lies in these bounds is the quotient.
LEMMA CeilDivUnique ==
    ASSUME NEW a \in Int, NEW b \in Nat \ {0}, NEW q \in Int, b * q >= a, b * q < a + b
    PROVE  CeilDiv(a, b) = q
<1>1. PICK c \in Int : c = CeilDiv(a, b) /\ b * c >= a /\ b * c < a + b
    BY CeilDivBounds
<1>2. ASSUME NEW x \in Int, NEW y \in Int, x < y PROVE b * y >= b * x + b
  <2>1. PICK d \in Nat : y = x + 1 + d
      BY <1>2
  <2>2. b * y = b * x + b + b * d
      BY <2>1
  <2>3. b * d >= 0 /\ b * d \in Int /\ b * x \in Int
      OBVIOUS
  <2> QED BY <2>2, <2>3
<1>3. ~(c < q) /\ ~(q < c)
  <2>1. b * c \in Int /\ b * q \in Int
      OBVIOUS
  <2> QED BY <1>1, <1>2, <2>1
<1> QED BY <1>1, <1>3

\* A larger number is not rounded to a smaller one, nor one that is less than
\* the divisor larger to one more than 1 larger.
LEMMA CeilDivMonotone ==
    ASSUME NEW a \in Int, NEW c \in Int, NEW b \in Nat \ {0}, a <= c
    PROVE  CeilDiv(a, b) <= CeilDiv(c, b)
<1>1. PICK x \in Int : x = CeilDiv(a, b) /\ b * x >= a /\ b * x < a + b
    BY CeilDivBounds
<1>2. PICK y \in Int : y = CeilDiv(c, b) /\ b * y >= c /\ b * y < c + b
    BY CeilDivBounds
<1>3. ASSUME y < x PROVE FALSE
  <2>1. PICK d \in Nat : x = y + 1 + d
      BY <1>3
  <2>2. b * x = b * y + b + b * d
      BY <2>1
  <2>3. b * d >= 0 /\ b * d \in Int /\ b * y \in Int /\ b * x \in Int
      OBVIOUS
  <2> QED BY <1>1, <1>2, <2>2, <2>3
<1> QED BY <1>1, <1>2, <1>3

\* A number less than the divisor larger is rounded to one more at most.
LEMMA CeilDivNear ==
    ASSUME NEW a \in Int, NEW c \in Int, NEW b \in Nat \ {0}, c < a + b
    PROVE  CeilDiv(c, b) <= CeilDiv(a, b) + 1
<1>1. PICK x \in Int : x = CeilDiv(a, b) /\ b * x >= a /\ b * x < a + b
    BY CeilDivBounds
<1>2. PICK y \in Int : y = CeilDiv(c, b) /\ b * y >= c /\ b * y < c + b
    BY CeilDivBounds
<1>3. ASSUME y > x + 1 PROVE FALSE
  <2>1. PICK d \in Nat : y = x + 2 + d
      BY <1>3
  <2>2. b * y = b * x + 2 * b + b * d
      BY <2>1
  <2>3. b * d >= 0 /\ b * d \in Int /\ b * y \in Int /\ b * x \in Int
      OBVIOUS
  <2> QED BY <1>1, <1>2, <2>2, <2>3
<1> QED BY <1>1, <1>2, <1>3

\* A number of the component less an offset below the divisor is not rounded below 0.
LEMMA CeilDivNat ==
    ASSUME NEW a \in Int, NEW b \in Nat \ {0}, a > -b
    PROVE  CeilDiv(a, b) \in Nat
<1>1. PICK x \in Int : x = CeilDiv(a, b) /\ b * x >= a
    BY CeilDivBounds
<1>2. ASSUME x < 0 PROVE FALSE
  <2>1. PICK d \in Nat : x = -1 - d
      BY <1>2
  <2>2. b * x = -b - b * d
      BY <2>1
  <2>3. b * d >= 0 /\ b * d \in Int /\ b * x \in Int
      OBVIOUS
  <2> QED BY <1>1, <2>2, <2>3
<1> QED BY <1>1, <1>2

\* One power of two more: half of the low-pass coordinate, rounded up, or with
\* the offset of the high-pass band, rounded down.
LEMMA CeilDivPow2Halves ==
    ASSUME NEW a \in Int, NEW n \in Nat
    PROVE  /\ CeilDivPow2(a, n) \in Int
           /\ CeilDivPow2(a, n + 1) = (CeilDivPow2(a, n) + 1) \div 2
           /\ CeilDiv(a - 2^n, 2^(n + 1)) = CeilDivPow2(a, n) \div 2
<1>1. PICK p \in Nat \ {0} : p = 2^n /\ p + p = 2^(n + 1)
  <2>1. 2^n \in Nat /\ 2^n >= 1 /\ 2^(n + 1) = 2^n + 2^n
      BY PowerPositive, PowerDoubles
  <2>2. 2^n \in Nat \ {0}
      BY <2>1
  <2> QED BY <2>1, <2>2, Zenon
<1>2. PICK c \in Int : c = CeilDiv(a, p) /\ p * c >= a /\ p * c < a + p
    BY CeilDivBounds
<1>3. CeilDivPow2(a, n) = c
    BY <1>1, <1>2, Zenon DEF CeilDivPow2
<1>4. CeilDiv(a, p + p) = (c + 1) \div 2
  <2>1. PICK q \in Int : q = (c + 1) \div 2 /\ (q + q = c \/ q + q = c + 1)
      OBVIOUS
  <2>2. (p + p) * q = p * (q + q) /\ p * c \in Int
      OBVIOUS
  <2>3. p * (q + q) = p * c \/ p * (q + q) = p * c + p
      BY <2>1
  <2>4. (p + p) * q >= a /\ (p + p) * q < a + (p + p)
      BY <1>2, <2>2, <2>3
  <2>5. p + p \in Nat \ {0}
      OBVIOUS
  <2> QED BY <2>1, <2>4, <2>5, CeilDivUnique
<1>5. CeilDiv(a - p, p + p) = c \div 2
  <2>1. PICK q \in Int : q = c \div 2 /\ (q + q = c \/ q + q = c - 1)
      OBVIOUS
  <2>2. (p + p) * q = p * (q + q) /\ p * c \in Int
      OBVIOUS
  <2>3. p * (q + q) = p * c \/ p * (q + q) = p * c - p
      BY <2>1
  <2>4. (p + p) * q >= a - p /\ (p + p) * q < (a - p) + (p + p)
      BY <1>2, <2>2, <2>3
  <2>5. p + p \in Nat \ {0} /\ a - p \in Int
      OBVIOUS
  <2> QED BY <2>1, <2>4, <2>5, CeilDivUnique
<1>6. CeilDivPow2(a, n + 1) = CeilDiv(a, p + p)
    BY <1>1, Zenon DEF CeilDivPow2
<1>7. CeilDiv(a - 2^n, 2^(n + 1)) = CeilDiv(a - p, p + p)
    BY <1>1, Zenon
<1> QED BY <1>3, <1>4, <1>5, <1>6, <1>7

-----------------------------------------------------------------------------
(* Lifting steps and lines.                                                *)

\* The lines of n elements that a filter takes.
LinesOf(filter, n) == [0 .. n - 1 -> Values(filter)]

\* A lifting step stays among the values of its filter.
LEMMA MovedType ==
    ASSUME NEW filter \in Filters, NEW h \in BOOLEAN, NEW x \in Int,
           NEW v \in Values(filter), NEW a \in Values(filter), NEW b \in Values(filter)
    PROVE  Moved(filter, Step(h, x), v, a, b) \in Values(filter)
<1>1. a \in Int /\ b \in Int /\ v \in Int
    BY DEF Values, Field
<1>2. \A i \in Int : x * i \in Int
    OBVIOUS
<1>3. CASE filter = "9/7"
  <2>1. PICK p \in Int : p = x * (a + b)
      BY <1>1, <1>2
  <2>2. Moved(filter, Step(h, x), v, a, b) = (v + p) % Field
      BY <1>3, <2>1 DEF Moved, Step
  <2> QED BY <1>1, <1>3, <2>2 DEF Values, Field
<1>4. CASE filter = "5/3"
  <2>1. PICK p \in Int : p = x * ((a + b) \div 2)
      BY <1>1, <1>2
  <2>2. PICK r \in Int : r = x * ((a + b + 2) \div 4)
      BY <1>1, <1>2
  <2>3. Moved(filter, Step(h, x), v, a, b) = IF h THEN v + p ELSE v + r
      BY <1>4, <2>1, <2>2 DEF Moved, Step
  <2> QED BY <1>1, <1>4, <2>3 DEF Values
<1> QED BY <1>3, <1>4 DEF Filters

\* An element that has moved comes back by the opposite factor.
LEMMA MovedBack ==
    ASSUME NEW filter \in Filters, NEW h \in BOOLEAN, NEW x \in Int,
           NEW v \in Values(filter), NEW a \in Values(filter), NEW b \in Values(filter)
    PROVE  Moved(filter, Step(h, -x), Moved(filter, Step(h, x), v, a, b), a, b) = v
<1>1. a \in Int /\ b \in Int /\ v \in Int
    BY DEF Values, Field
<1>2. \A i \in Int : x * i \in Int /\ (-x) * i = -(x * i)
    OBVIOUS
<1>3. CASE filter = "9/7"
  <2>1. PICK p \in Int : p = x * (a + b) /\ (-x) * (a + b) = -p
      BY <1>1, <1>2
  <2>2. PICK w \in Int : w = (v + p) % 31
      BY <1>1
  <2>3. Moved(filter, Step(h, x), v, a, b) = w
      BY <1>3, <2>1, <2>2 DEF Moved, Step, Field
  <2>4. Moved(filter, Step(h, -x), w, a, b) = (w + -p) % 31
      BY <1>3, <2>1 DEF Moved, Step, Field
  <2>5. v \in 0 .. 30
      BY <1>3 DEF Values, Field
  <2>6. (w + -p) % 31 = v
      BY <2>2, <2>5
  <2> QED BY <2>3, <2>4, <2>6
<1>4. CASE filter = "5/3"
  <2>1. PICK p \in Int : p = x * ((a + b) \div 2) /\ (-x) * ((a + b) \div 2) = -p
      BY <1>1, <1>2
  <2>2. PICK r \in Int : r = x * ((a + b + 2) \div 4) /\ (-x) * ((a + b + 2) \div 4) = -r
      BY <1>1, <1>2
  <2>3. Moved(filter, Step(h, x), v, a, b) = IF h THEN v + p ELSE v + r
      BY <1>4, <2>1, <2>2 DEF Moved, Step
  <2>4. \A w \in Int : Moved(filter, Step(h, -x), w, a, b) = IF h THEN w - p ELSE w - r
      BY <1>4, <2>1, <2>2 DEF Moved, Step
  <2> QED BY <1>1, <2>3, <2>4
<1> QED BY <1>3, <1>4 DEF Filters

\* The neighbours of an element are on the line, and of the other kind.
LEMMA Neighbours ==
    ASSUME NEW n \in Nat, n > 1, NEW q \in 0 .. n - 1, NEW cas \in {0, 1}
    PROVE  /\ Left(q) \in 0 .. n - 1 /\ IsHigh(Left(q), cas) = ~IsHigh(q, cas)
           /\ Right(q, n) \in 0 .. n - 1 /\ IsHigh(Right(q, n), cas) = ~IsHigh(q, cas)
BY DEF Left, Right, IsHigh

\* What a lifting step leaves of a line taken by itself.
LEMMA LiftAt ==
    ASSUME NEW filter \in Filters, NEW n \in Nat, n > 1, NEW cas \in {0, 1}, NEW seg, NEW step,
           NEW m \in LinesOf(filter, n), NEW k \in 0 .. n - 1
    PROVE  Lift(filter, m, 1, n, cas, seg, step)[k] =
               IF Moves(k, cas, seg, step.high) THEN Moved(filter, step, m[k], m[Left(k)], m[Right(k, n)])
               ELSE m[k]
<1>1. DOMAIN m = 0 .. n - 1
    BY DEF LinesOf
<1>2. k \div 1 = k /\ k % 1 = 0 /\ Left(k) * 1 + 0 = Left(k) /\ Right(k, n) * 1 + 0 = Right(k, n)
    BY Neighbours
<1> QED BY <1>1, <1>2, Zenon DEF Lift

\* A lifting step keeps a line a line.
LEMMA LiftType ==
    ASSUME NEW filter \in Filters, NEW n \in Nat, n > 1, NEW cas \in {0, 1}, NEW seg,
           NEW h \in BOOLEAN, NEW x \in Int, NEW m \in LinesOf(filter, n)
    PROVE  Lift(filter, m, 1, n, cas, seg, Step(h, x)) \in LinesOf(filter, n)
<1> DEFINE l == Lift(filter, m, 1, n, cas, seg, Step(h, x))
<1>1. \A k \in 0 .. n - 1 : l[k] \in Values(filter)
  <2> TAKE k \in 0 .. n - 1
  <2>1. m[k] \in Values(filter) /\ m[Left(k)] \in Values(filter) /\ m[Right(k, n)] \in Values(filter)
      BY Neighbours DEF LinesOf
  <2> QED BY <2>1, LiftAt, MovedType
<1>2. l = [k \in 0 .. n - 1 |-> l[k]]
    BY DEF Lift, LinesOf
<1> HIDE DEF l
<1>3. l \in [0 .. n - 1 -> Values(filter)]
    BY <1>1, <1>2
<1> QED BY <1>3, Zenon DEF LinesOf, l

\* A lifting step is undone by the one with the opposite factor: what it moves are elements of one
\* kind, by elements of the other, and those it leaves as they are.
LEMMA LiftBack ==
    ASSUME NEW filter \in Filters, NEW n \in Nat, n > 1, NEW cas \in {0, 1}, NEW seg,
           NEW h \in BOOLEAN, NEW x \in Int, NEW m \in LinesOf(filter, n)
    PROVE  Lift(filter, Lift(filter, m, 1, n, cas, seg, Step(h, x)), 1, n, cas, seg, Step(h, -x)) = m
<1>1. PICK l \in LinesOf(filter, n) : l = Lift(filter, m, 1, n, cas, seg, Step(h, x))
    BY LiftType
<1>2. Step(h, x).high = h /\ Step(h, -x).high = h
    BY DEF Step
<1> DEFINE b == Lift(filter, l, 1, n, cas, seg, Step(h, -x))
<1>3. b \in LinesOf(filter, n)
  <2>1. -x \in Int
      OBVIOUS
  <2> QED BY <2>1, LiftType
<1>4. \A k \in 0 .. n - 1 : b[k] = m[k]
  <2> TAKE k \in 0 .. n - 1
  <2>1. l[k] = IF Moves(k, cas, seg, h) THEN Moved(filter, Step(h, x), m[k], m[Left(k)], m[Right(k, n)]) ELSE m[k]
      BY <1>1, <1>2, LiftAt
  <2>2. b[k] = IF Moves(k, cas, seg, h) THEN Moved(filter, Step(h, -x), l[k], l[Left(k)], l[Right(k, n)]) ELSE l[k]
      BY <1>2, LiftAt
  <2>3. CASE Moves(k, cas, seg, h)
    <3>1. Left(k) \in 0 .. n - 1 /\ Right(k, n) \in 0 .. n - 1
        BY Neighbours
    <3>2. ~Moves(Left(k), cas, seg, h) /\ ~Moves(Right(k, n), cas, seg, h)
        BY <2>3, Neighbours DEF Moves
    <3>3. l[Left(k)] = m[Left(k)]
      <4>1. l[Left(k)] = IF Moves(Left(k), cas, seg, h)
                         THEN Moved(filter, Step(h, x), m[Left(k)], m[Left(Left(k))], m[Right(Left(k), n)])
                         ELSE m[Left(k)]
          BY <1>1, <1>2, <3>1, LiftAt
      <4> QED BY <3>2, <4>1
    <3>4. l[Right(k, n)] = m[Right(k, n)]
      <4>1. l[Right(k, n)] = IF Moves(Right(k, n), cas, seg, h)
                         THEN Moved(filter, Step(h, x), m[Right(k, n)], m[Left(Right(k, n))], m[Right(Right(k, n), n)])
                         ELSE m[Right(k, n)]
          BY <1>1, <1>2, <3>1, LiftAt
      <4> QED BY <3>2, <4>1
    <3>5. m[k] \in Values(filter) /\ m[Left(k)] \in Values(filter) /\ m[Right(k, n)] \in Values(filter)
        BY <3>1 DEF LinesOf
    <3>6. Moved(filter, Step(h, -x), Moved(filter, Step(h, x), m[k], m[Left(k)], m[Right(k, n)]),
                m[Left(k)], m[Right(k, n)]) = m[k]
        BY <3>5, MovedBack
    <3> QED BY <2>1, <2>2, <2>3, <3>3, <3>4, <3>6
  <2>4. CASE ~Moves(k, cas, seg, h)
      BY <2>1, <2>2, <2>4
  <2> QED BY <2>3, <2>4
<1> HIDE DEF b
<1>5. b = m
  <2>1. b = [k \in 0 .. n - 1 |-> b[k]] /\ m = [k \in 0 .. n - 1 |-> m[k]]
      BY <1>3 DEF LinesOf
  <2> QED BY <1>4, <2>1
<1> QED BY <1>1, <1>5 DEF b

\* The lifting steps of the inverse undo those of the forward transform.
LEMMA LiftsBack ==
    ASSUME NEW filter \in Filters, NEW n \in Nat, n > 1, NEW cas \in {0, 1}, NEW seg,
           NEW m \in LinesOf(filter, n)
    PROVE  /\ Lifts(filter, m, 1, n, cas, seg, ForwardSteps(filter)) \in LinesOf(filter, n)
           /\ Lifts(filter, Lifts(filter, m, 1, n, cas, seg, ForwardSteps(filter)),
                    1, n, cas, seg, InverseSteps(filter)) = m
<1> DEFINE L(x, step) == Lift(filter, x, 1, n, cas, seg, step)
<1>0. \A x \in LinesOf(filter, n), h \in BOOLEAN, f \in Int :
          L(x, Step(h, f)) \in LinesOf(filter, n) /\ L(L(x, Step(h, f)), Step(h, -f)) = x
    BY LiftType, LiftBack
<1>1. CASE filter = "5/3"
  <2> DEFINE S1 == Step(TRUE, -1)
             S2 == Step(FALSE, 1)
             T1 == Step(FALSE, -1)
             T2 == Step(TRUE, 1)
  <2>1. \A x : Lifts(filter, x, 1, n, cas, seg, ForwardSteps(filter)) = L(L(x, S1), S2)
      BY <1>1 DEF Lifts, ForwardSteps
  <2>2. \A x : Lifts(filter, x, 1, n, cas, seg, InverseSteps(filter)) = L(L(x, T1), T2)
      BY <1>1 DEF Lifts, InverseSteps
  <2>3. \A x \in LinesOf(filter, n) : L(x, S1) \in LinesOf(filter, n) /\ L(L(x, S1), T2) = x
    <3>1. PICK f \in Int : f = -1
        OBVIOUS
    <3>2. -f = 1
      <4>1. f + 1 = 0
          BY <3>1
      <4> QED BY <4>1
    <3> HIDE DEF L
    <3> QED BY <1>0, <3>1, <3>2
  <2>4. \A x \in LinesOf(filter, n) : L(x, S2) \in LinesOf(filter, n) /\ L(L(x, S2), T1) = x
    <3>1. 1 \in Int /\ FALSE \in BOOLEAN
        OBVIOUS
    <3> HIDE DEF L
    <3> QED BY <1>0, <3>1
  <2> HIDE DEF L, S1, S2, T1, T2
  <2>5. L(m, S1) \in LinesOf(filter, n) /\ L(L(m, S1), S2) \in LinesOf(filter, n)
      BY <2>3, <2>4
  <2>6. L(L(L(L(m, S1), S2), T1), T2) = m
      BY <2>3, <2>4, <2>5
  <2> QED BY <2>1, <2>2, <2>5, <2>6
<1>2. CASE filter = "9/7"
  <2> DEFINE S1 == Step(TRUE, Alpha)
             S2 == Step(FALSE, Beta)
             S3 == Step(TRUE, Gamma)
             S4 == Step(FALSE, Delta)
             T1 == Step(TRUE, -Alpha)
             T2 == Step(FALSE, -Beta)
             T3 == Step(TRUE, -Gamma)
             T4 == Step(FALSE, -Delta)
  <2>1. \A x : Lifts(filter, x, 1, n, cas, seg, ForwardSteps(filter)) = L(L(L(L(x, S1), S2), S3), S4)
      BY <1>2 DEF Lifts, ForwardSteps
  <2>2. \A x : Lifts(filter, x, 1, n, cas, seg, InverseSteps(filter)) = L(L(L(L(x, T4), T3), T2), T1)
      BY <1>2 DEF Lifts, InverseSteps
  <2>3. Alpha \in Int /\ Beta \in Int /\ Gamma \in Int /\ Delta \in Int /\ TRUE \in BOOLEAN /\ FALSE \in BOOLEAN
      BY DEF Alpha, Beta, Gamma, Delta
  <2>4. \A x \in LinesOf(filter, n) :
          /\ L(x, S1) \in LinesOf(filter, n) /\ L(L(x, S1), T1) = x
          /\ L(x, S2) \in LinesOf(filter, n) /\ L(L(x, S2), T2) = x
          /\ L(x, S3) \in LinesOf(filter, n) /\ L(L(x, S3), T3) = x
          /\ L(x, S4) \in LinesOf(filter, n) /\ L(L(x, S4), T4) = x
    <3> HIDE DEF L
    <3> QED BY <1>0, <2>3
  <2> HIDE DEF L, S1, S2, S3, S4, T1, T2, T3, T4
  <2> DEFINE A == L(m, S1)
             B == L(A, S2)
             C == L(B, S3)
             E == L(C, S4)
  <2>5. A \in LinesOf(filter, n) /\ L(A, T1) = m
      BY <2>4
  <2>6. B \in LinesOf(filter, n) /\ L(B, T2) = A
      BY <2>4, <2>5
  <2>7. C \in LinesOf(filter, n) /\ L(C, T3) = B
      BY <2>4, <2>6
  <2>8. E \in LinesOf(filter, n) /\ L(E, T4) = C
      BY <2>4, <2>7
  <2>9. L(L(L(L(E, T4), T3), T2), T1) = m
      BY <2>5, <2>6, <2>7, <2>8
  <2> QED BY <2>1, <2>2, <2>8, <2>9
<1> QED BY <1>1, <1>2 DEF Filters

\* The scaling of the 9/7 filter is undone by the inverse factors.
LEMMA ScaledBack ==
    ASSUME NEW filter \in Filters, NEW n \in Nat, NEW cas, NEW seg, NEW m \in LinesOf(filter, n)
    PROVE  /\ Scaled(filter, m, 1, cas, seg, InvK, K) \in LinesOf(filter, n)
           /\ Scaled(filter, Scaled(filter, m, 1, cas, seg, InvK, K), 1, cas, seg, K, InvK) = m
<1>1. CASE filter = "5/3"
    BY <1>1 DEF Scaled
<1>2. CASE filter = "9/7"
  <2>1. DOMAIN m = 0 .. n - 1 /\ \A k \in 0 .. n - 1 : m[k] \in 0 .. 30 /\ k \div 1 = k
      BY <1>2 DEF LinesOf, Values, Field
  <2>2. \A x \in 0 .. 30 : ((x * 25) % 31) \in 0 .. 30 /\ ((x * 5) % 31) \in 0 .. 30
      OBVIOUS
  <2>3. \A x \in 0 .. 30 : (((x * 25) % 31) * 5) % 31 = x /\ (((x * 5) % 31) * 25) % 31 = x
      OBVIOUS
  <2> DEFINE s == Scaled(filter, m, 1, cas, seg, InvK, K)
             b == Scaled(filter, s, 1, cas, seg, K, InvK)
             Low(k) == Moves(k, cas, seg, FALSE)
             High(k) == Moves(k, cas, seg, TRUE)
  <2>4. s = [k \in 0 .. n - 1 |-> IF Low(k) THEN (m[k] * 25) % 31 ELSE IF High(k) THEN (m[k] * 5) % 31 ELSE m[k]]
    <3> HIDE DEF Low, High
    <3>1. s = [k \in DOMAIN m |->
                  IF Moves(k \div 1, cas, seg, FALSE) THEN (m[k] * InvK) % Field
                  ELSE IF Moves(k \div 1, cas, seg, TRUE) THEN (m[k] * K) % Field ELSE m[k]]
        BY <1>2 DEF Scaled
    <3> QED BY <2>1, <3>1 DEF Low, High, K, InvK, Field
  <2> HIDE DEF s
  <2>5. b = [k \in 0 .. n - 1 |-> IF Low(k) THEN (s[k] * 5) % 31 ELSE IF High(k) THEN (s[k] * 25) % 31 ELSE s[k]]
    <3> HIDE DEF Low, High
    <3>1. b = [k \in DOMAIN s |->
                  IF Moves(k \div 1, cas, seg, FALSE) THEN (s[k] * K) % Field
                  ELSE IF Moves(k \div 1, cas, seg, TRUE) THEN (s[k] * InvK) % Field ELSE s[k]]
        BY <1>2 DEF Scaled
    <3>2. DOMAIN s = 0 .. n - 1
        BY <2>4
    <3> QED BY <2>1, <3>1, <3>2 DEF Low, High, K, InvK, Field
  <2> HIDE DEF b, Low, High
  <2>6. \A k \in 0 .. n - 1 : s[k] \in 0 .. 30
      BY <2>1, <2>2, <2>4
  <2>7. \A k \in 0 .. n - 1 : b[k] = m[k]
    <3> TAKE k \in 0 .. n - 1
    <3>1. s[k] = IF Low(k) THEN (m[k] * 25) % 31 ELSE IF High(k) THEN (m[k] * 5) % 31 ELSE m[k]
        BY <2>4
    <3>2. b[k] = IF Low(k) THEN (s[k] * 5) % 31 ELSE IF High(k) THEN (s[k] * 25) % 31 ELSE s[k]
        BY <2>5
    <3>3. PICK x \in 0 .. 30 : x = m[k]
        BY <2>1
    <3> QED BY <2>3, <3>1, <3>2, <3>3
  <2>8. b = m
    <3>1. b = [k \in 0 .. n - 1 |-> b[k]] /\ m = [k \in 0 .. n - 1 |-> m[k]]
        BY <2>5 DEF LinesOf
    <3> QED BY <2>7, <3>1
  <2>9. s \in LinesOf(filter, n)
      BY <1>2, <2>4, <2>6 DEF LinesOf, Values, Field
  <2> QED BY <2>8, <2>9 DEF s, b
<1> QED BY <1>1, <1>2 DEF Filters

\* A line in order is transformed and back, an element by itself included.
LEMMA ForwardedBack ==
    ASSUME NEW filter \in Filters, NEW n \in Nat, NEW cas \in {0, 1}, NEW seg, NEW m \in LinesOf(filter, n)
    PROVE  /\ Forwarded(filter, m, n, cas, seg) \in LinesOf(filter, n)
           /\ Inverted(filter, Forwarded(filter, m, n, cas, seg), 1, n, cas, seg) = m
<1>1. CASE n > 1
  <2>1. PICK l \in LinesOf(filter, n) :
            /\ l = Lifts(filter, m, 1, n, cas, seg, ForwardSteps(filter))
            /\ Lifts(filter, l, 1, n, cas, seg, InverseSteps(filter)) = m
      BY <1>1, LiftsBack
  <2>2. PICK s \in LinesOf(filter, n) :
            /\ s = Scaled(filter, l, 1, cas, seg, InvK, K)
            /\ Scaled(filter, s, 1, cas, seg, K, InvK) = l
      BY ScaledBack
  <2>3. Forwarded(filter, m, n, cas, seg) = s
      BY <1>1, <2>1, <2>2 DEF Forwarded
  <2>4. Inverted(filter, s, 1, n, cas, seg) = m
      BY <1>1, <2>1, <2>2 DEF Inverted
  <2> QED BY <2>2, <2>3, <2>4
<1>2. CASE n = 1 /\ cas = 1 /\ filter = "5/3"
  <2>1. DOMAIN m = {0} /\ m[0] \in Int /\ 0 .. n - 1 = {0}
      BY <1>2 DEF LinesOf, Values
  <2>2. Forwarded(filter, m, n, cas, seg) = [m EXCEPT ![0] = 2 * @]
      BY <1>2 DEF Forwarded
  <2>3. PICK d \in LinesOf(filter, n) : d = [m EXCEPT ![0] = 2 * @]
    <3>1. m \in [{0} -> Int] /\ LinesOf(filter, n) = [{0} -> Int]
        BY <1>2, <2>1 DEF LinesOf, Values
    <3>2. 2 * m[0] \in Int
        BY <2>1
    <3>3. [m EXCEPT ![0] = 2 * @] \in [{0} -> Int]
        BY <3>1, <3>2, Zenon
    <3> QED BY <3>1, <3>3
  <2>4. d[0] = 2 * m[0] /\ DOMAIN d = {0}
      BY <2>1, <2>3
  <2>5. Inverted(filter, d, 1, n, cas, seg) = [k \in {0} |-> IF k < 1 THEN Halved(d[k]) ELSE d[k]]
      BY <1>2, <2>4 DEF Inverted
  <2>6. Halved(d[0]) = m[0]
      BY <2>1, <2>4 DEF Halved
  <2>7. m = [k \in {0} |-> m[k]]
      BY <2>1 DEF LinesOf
  <2> QED BY <2>2, <2>3, <2>5, <2>6, <2>7
<1>3. CASE ~(n > 1) /\ ~(n = 1 /\ cas = 1 /\ filter = "5/3")
    BY <1>3 DEF Forwarded, Inverted
<1> QED BY <1>1, <1>2, <1>3

\* The places of a line and the order of its elements are each other's inverses.
LEMMA PlaceOrdinal ==
    ASSUME NEW n \in Nat, NEW cas \in {0, 1}, NEW q \in 0 .. n - 1
    PROVE  /\ Place(q, n, cas) \in 0 .. n - 1 /\ Ordinal(Place(q, n, cas), n, cas) = q
           /\ Ordinal(q, n, cas) \in 0 .. n - 1
BY DEF Place, Ordinal, LowCount, IsHigh

\* What the encoder's transform does to a line, the decoder's undoes.
THEOREM LineReversible ==
    ASSUME NEW filter \in Filters, NEW n \in Nat, NEW cas \in {0, 1}, NEW line \in LinesOf(filter, n)
    PROVE  /\ ForwardLine(filter, line, n, cas) \in LinesOf(filter, n)
           /\ InverseLine(filter, ForwardLine(filter, line, n, cas), n, cas) = line
<1> DEFINE seg == AllOf(n, cas)
<1>1. PICK m \in LinesOf(filter, n) :
          /\ m = Forwarded(filter, line, n, cas, seg)
          /\ Inverted(filter, m, 1, n, cas, seg) = line
    BY ForwardedBack
<1> DEFINE d == [k \in 0 .. n - 1 |-> m[Ordinal(k, n, cas)]]
<1>2. ForwardLine(filter, line, n, cas) = d
    BY <1>1 DEF ForwardLine, Deinterleaved
<1>3. d \in LinesOf(filter, n)
  <2>1. \A k \in 0 .. n - 1 : m[Ordinal(k, n, cas)] \in Values(filter)
      BY PlaceOrdinal DEF LinesOf
  <2> QED BY <2>1 DEF LinesOf
<1>4. Interleaved(d, n, cas) = m
  <2>1. \A q \in 0 .. n - 1 : d[Place(q, n, cas)] = m[q]
    <3> TAKE q \in 0 .. n - 1
    <3>1. Place(q, n, cas) \in 0 .. n - 1 /\ Ordinal(Place(q, n, cas), n, cas) = q
        BY PlaceOrdinal
    <3> QED BY <3>1
  <2>2. Interleaved(d, n, cas) = [q \in 0 .. n - 1 |-> d[Place(q, n, cas)]]
      BY DEF Interleaved
  <2>3. m = [q \in 0 .. n - 1 |-> m[q]]
      BY DEF LinesOf
  <2> HIDE DEF d
  <2> QED BY <2>1, <2>2, <2>3
<1>5. InverseLine(filter, d, n, cas) = Inverted(filter, m, 1, n, cas, seg)
    BY <1>4 DEF InverseLine
<1> QED BY <1>1, <1>2, <1>3, <1>5

-----------------------------------------------------------------------------
(* The shares of the goroutines.                                           *)

\* Units that goroutine g of the pass has left, of shares s.
UnitsLeft(s, g) == s[g][1] .. s[g][2] - 1

\* Shares of a number of units: each unit is left to one goroutine at most.
Divided(s, units) ==
    /\ \A g \in DOMAIN s : /\ s[g] \in (0 .. units) \X (0 .. units)
                           /\ s[g][1] <= s[g][2]
    /\ \A g, h \in DOMAIN s : g # h => UnitsLeft(s, g) \cap UnitsLeft(s, h) = {}

\* The larger of two numbers.
LEMMA MaxOfTwo ==
    ASSUME NEW a \in Int, NEW b \in Int
    PROVE  Max({a, b}) \in {a, b} /\ Max({a, b}) >= a /\ Max({a, b}) >= b
<1>1. \E x \in {a, b} : \A y \in {a, b} : x >= y
    BY a >= b \/ b >= a
<1> QED BY <1>1 DEF Max

\* The smaller of two numbers.
LEMMA MinOfTwo ==
    ASSUME NEW a \in Int, NEW b \in Int
    PROVE  Min({a, b}) \in {a, b} /\ Min({a, b}) <= a /\ Min({a, b}) <= b
<1>1. \E x \in {a, b} : \A y \in {a, b} : x <= y
    BY a <= b \/ b <= a
<1> QED BY <1>1 DEF Min

\* There are no more goroutines than units.
LEMMA WorkersBounds ==
    ASSUME NEW units \in Nat, job.threads \in Int
    PROVE  Workers(units) \in 0 .. units
<1>1. Max({1, job.threads}) \in Int /\ Max({1, job.threads}) >= 1
  <2>1. PICK t \in Int : t = job.threads
      OBVIOUS
  <2>2. 1 \in Int
      OBVIOUS
  <2>3. Max({1, t}) \in {1, t} /\ Max({1, t}) >= 1
      BY <2>2, MaxOfTwo
  <2> QED BY <2>1, <2>3
<1> QED BY <1>1, MinOfTwo DEF Workers

\* The chunks are disjoint, and make up all units.
THEOREM ChunksDivide ==
    ASSUME NEW units \in Nat, job.threads \in Int
    PROVE  /\ Divided(Chunks(units), units)
           /\ \A u \in 0 .. units - 1 : \E g \in DOMAIN Chunks(units) : u \in UnitsLeft(Chunks(units), g)
<1>1. PICK w \in 0 .. units : w = Workers(units)
    BY WorkersBounds
<1>2. CASE w <= 1
  <2>1. PICK c : c = Chunks(units) /\ c = <<<<0, units>>>>
      BY <1>1, <1>2 DEF Chunks
  <2>2. DOMAIN c = {1} /\ c[1] = <<0, units>>
      BY <2>1
  <2>3. c[1][1] = 0 /\ c[1][2] = units /\ c[1] \in (0 .. units) \X (0 .. units)
      BY <2>2
  <2> QED BY <2>1, <2>2, <2>3 DEF Divided, UnitsLeft
<1>3. CASE w > 1
  <2>1. PICK q \in Nat : q = units \div w /\ q >= 1 /\ w * q <= units
    <3> DEFINE d == units \div w
               m == units % w
    <3>1. d \in Int /\ m \in 0 .. w - 1 /\ units = w * d + m
        BY <1>3
    <3> HIDE DEF d, m
    <3>2. d >= 1
      <4>1. ASSUME d <= 0 PROVE FALSE
        <5>1. PICK e \in Nat : d = -e
            BY <3>1, <4>1
        <5>2. w * d = -(w * e) /\ w * e >= 0 /\ w * e \in Int
            BY <5>1
        <5> QED BY <3>1, <5>2
      <4> QED BY <3>1, <4>1
    <3>3. w * d \in Int /\ w * d <= units
        BY <3>1
    <3> QED BY <3>1, <3>2, <3>3 DEF d
  <2>2. PICK c : c = Chunks(units) /\ c = [g \in 1 .. w |-> <<(g - 1) * q, IF g = w THEN units ELSE g * q>>]
    <3>1. ~(w <= 1)
        BY <1>3
    <3>2. Chunks(units) = [g \in 1 .. w |-> <<(g - 1) * (units \div w), IF g = w THEN units ELSE g * (units \div w)>>]
        BY <1>1, <3>1, Zenon DEF Chunks
    <3>3. units \div w = q
        BY <2>1
    <3>4. Chunks(units) = [g \in 1 .. w |-> <<(g - 1) * q, IF g = w THEN units ELSE g * q>>]
        BY <3>2, <3>3, Zenon
    <3> QED BY <3>4, Zenon
  <2> DEFINE From(g) == (g - 1) * q
             To(g) == IF g = w THEN units ELSE g * q
  <2>3. DOMAIN c = 1 .. w /\ \A g \in 1 .. w : c[g][1] = From(g) /\ c[g][2] = To(g) /\ c[g] = <<From(g), To(g)>>
      BY <2>2
  <2>4. \A g, h \in 1 .. w : g <= h => (g - 1) * q <= (h - 1) * q /\ g * q <= h * q
    <3> SUFFICES ASSUME NEW g \in 1 .. w, NEW h \in 1 .. w, g <= h
                 PROVE  (g - 1) * q <= (h - 1) * q /\ g * q <= h * q
        OBVIOUS
    <3>1. PICK d \in Nat : h = g + d
        OBVIOUS
    <3>2. h * q = g * q + d * q /\ (h - 1) * q = (g - 1) * q + d * q
        BY <3>1
    <3>3. d * q >= 0 /\ d * q \in Int /\ g * q \in Int /\ (g - 1) * q \in Int
        OBVIOUS
    <3> QED BY <3>2, <3>3
  <2>5. \A g \in 1 .. w : /\ From(g) \in Nat /\ To(g) \in Nat /\ From(g) <= To(g) /\ To(g) <= units
    <3> SUFFICES ASSUME NEW g \in 1 .. w
                 PROVE  /\ From(g) \in Nat /\ To(g) \in Nat /\ From(g) <= To(g) /\ To(g) <= units
        OBVIOUS
    <3>1. g * q = (g - 1) * q + q
        OBVIOUS
    <3>2. (g - 1) * q \in Nat /\ g * q \in Nat
        OBVIOUS
    <3>3. g * q <= w * q
        BY <2>4, <1>3
    <3>4. w * q \in Int
        OBVIOUS
    <3> QED BY <2>1, <3>1, <3>2, <3>3, <3>4
  <2>6. \A g, h \in 1 .. w : g < h => To(g) <= From(h)
    <3> SUFFICES ASSUME NEW g \in 1 .. w, NEW h \in 1 .. w, g < h PROVE To(g) <= From(h)
        OBVIOUS
    <3>1. To(g) = g * q
        OBVIOUS
    <3>2. (g + 1 - 1) * q <= (h - 1) * q
        BY <2>4
    <3> QED BY <3>1, <3>2
  <2>7. \A u \in 0 .. units - 1 : \E g \in 1 .. w : From(g) <= u /\ u < To(g)
    <3> TAKE u \in 0 .. units - 1
    <3>1. CASE From(w) <= u
      <4>1. w \in 1 .. w /\ To(w) = units
          BY <1>3
      <4> HIDE DEF From, To
      <4> QED BY <3>1, <4>1
    <3>2. CASE ~(From(w) <= u)
      <4> DEFINE d == u \div q
                 m == u % q
      <4>1. d \in Int /\ m \in 0 .. q - 1 /\ u = q * d + m
        <5>1. q \in Nat \ {0} /\ u \in Int
            BY <2>1
        <5> QED BY <5>1
      <4> HIDE DEF d, m
      <4>2. d >= 0
        <5>1. ASSUME d < 0 PROVE FALSE
          <6>1. PICK e \in Nat : d = -1 - e
              BY <4>1, <5>1
          <6>2. q * d = -q - (q * e) /\ q * e >= 0 /\ q * e \in Int
              BY <6>1
          <6> QED BY <4>1, <6>2
        <5> QED BY <4>1, <5>1
      <4>3. d < w - 1
        <5>1. ASSUME d >= w - 1 PROVE FALSE
          <6>1. PICK e \in Nat : d = w - 1 + e
              BY <4>1, <5>1
          <6>2. q * d = (w - 1) * q + q * e /\ q * e >= 0 /\ q * e \in Int /\ (w - 1) * q \in Int
              BY <6>1
          <6> QED BY <3>2, <4>1, <6>2
        <5> QED BY <4>1, <5>1
      <4>4. d + 1 \in 1 .. w /\ d + 1 # w
          BY <4>1, <4>2, <4>3
      <4>5. From(d + 1) = q * d /\ To(d + 1) = q * d + q
        <5>1. From(d + 1) = q * d
            BY <4>1
        <5>2. (d + 1) * q = q * d + q
            BY <4>1
        <5>3. To(d + 1) = (d + 1) * q
            BY <4>4
        <5> QED BY <5>1, <5>2, <5>3, Zenon
      <4>6. q * d \in Int
          BY <4>1
      <4> HIDE DEF From, To
      <4>7. From(d + 1) <= u /\ u < To(d + 1)
          BY <4>1, <4>5, <4>6
      <4> QED BY <4>4, <4>7
    <3> QED BY <3>1, <3>2
  <2> HIDE DEF From, To
  <2>8. \A g \in 1 .. w : UnitsLeft(c, g) = From(g) .. To(g) - 1
      BY <2>3 DEF UnitsLeft
  <2>9. Divided(c, units)
    <3>1. \A g \in DOMAIN c : /\ c[g] \in (0 .. units) \X (0 .. units) /\ c[g][1] <= c[g][2]
      <4> TAKE g \in DOMAIN c
      <4>1. g \in 1 .. w /\ c[g][1] = From(g) /\ c[g][2] = To(g) /\ c[g] = <<From(g), To(g)>>
          BY <2>3
      <4>2. From(g) \in 0 .. units /\ To(g) \in 0 .. units /\ From(g) <= To(g)
          BY <2>5, <4>1
      <4> QED BY <4>1, <4>2
    <3>2. ASSUME NEW g \in DOMAIN c, NEW h \in DOMAIN c, g # h PROVE UnitsLeft(c, g) \cap UnitsLeft(c, h) = {}
      <4>1. g \in 1 .. w /\ h \in 1 .. w
          BY <2>3
      <4>2. From(g) \in Nat /\ To(g) \in Nat /\ From(h) \in Nat /\ To(h) \in Nat
          BY <2>5, <4>1
      <4>3. To(g) <= From(h) \/ To(h) <= From(g)
          BY <2>6, <3>2, <4>1
      <4>4. (From(g) .. To(g) - 1) \cap (From(h) .. To(h) - 1) = {}
          BY <4>2, <4>3
      <4> QED BY <2>8, <4>1, <4>4
    <3> QED BY <3>1, <3>2 DEF Divided
  <2>10. \A u \in 0 .. units - 1 : \E g \in DOMAIN c : u \in UnitsLeft(c, g)
    <3> TAKE u \in 0 .. units - 1
    <3>1. PICK g \in 1 .. w : From(g) <= u /\ u < To(g)
        BY <2>7
    <3>2. From(g) \in Nat /\ To(g) \in Nat
        BY <2>5
    <3>3. u \in From(g) .. To(g) - 1
        BY <3>1, <3>2
    <3> QED BY <2>3, <2>8, <3>3
  <2> QED BY <2>2, <2>9, <2>10
<1> QED BY <1>1, <1>2, <1>3

\* Shares t are shares s after g has taken a unit.
TakenBy(s, g, t) == t = [s EXCEPT ![g][1] = @ + 1]

\* What a goroutine has done is no longer its own, and still no other's.
LEMMA LessLeft ==
    ASSUME NEW s, NEW units \in Nat, Divided(s, units), NEW g \in DOMAIN s, s[g][1] # s[g][2],
           NEW t, TakenBy(s, g, t)
    PROVE  /\ Divided(t, units)
           /\ s[g][1] \in 0 .. units - 1
           /\ DOMAIN t = DOMAIN s
           /\ UnitsLeft(t, g) = UnitsLeft(s, g) \ {s[g][1]}
           /\ \A h \in DOMAIN s \ {g} : UnitsLeft(t, h) = UnitsLeft(s, h) /\ s[g][1] \notin UnitsLeft(s, h)
<1>1. PICK a \in 0 .. units, b \in 0 .. units : s[g] = <<a, b>> /\ a < b
  <2>1. s[g] \in (0 .. units) \X (0 .. units) /\ s[g][1] <= s[g][2]
      BY DEF Divided
  <2> QED BY <2>1
<1>2. s[g][1] = a /\ s[g][2] = b
    BY <1>1
<1>3. DOMAIN t = DOMAIN s /\ t[g] = [s[g] EXCEPT ![1] = @ + 1] /\ \A h \in DOMAIN s \ {g} : t[h] = s[h]
    BY Zenon DEF TakenBy
<1>4. t[g] = <<a + 1, b>>
    BY <1>1, <1>3
<1>5. t[g][1] = a + 1 /\ t[g][2] = b /\ t[g] \in (0 .. units) \X (0 .. units)
    BY <1>1, <1>4
<1>6. UnitsLeft(s, g) = a .. b - 1 /\ UnitsLeft(t, g) = a + 1 .. b - 1
    BY <1>2, <1>5 DEF UnitsLeft
<1>7. UnitsLeft(t, g) = UnitsLeft(s, g) \ {a} /\ a \in UnitsLeft(s, g)
    BY <1>1, <1>6
<1>8. \A h \in DOMAIN s \ {g} : UnitsLeft(t, h) = UnitsLeft(s, h) /\ UnitsLeft(s, g) \cap UnitsLeft(s, h) = {}
    BY <1>3 DEF UnitsLeft, Divided
<1>9. Divided(t, units)
  <2>1. \A h \in DOMAIN t : t[h] \in (0 .. units) \X (0 .. units) /\ t[h][1] <= t[h][2]
      BY <1>1, <1>3, <1>5 DEF Divided
  <2>2. ASSUME NEW h \in DOMAIN t, NEW i \in DOMAIN t, h # i PROVE UnitsLeft(t, h) \cap UnitsLeft(t, i) = {}
    <3>1. UnitsLeft(s, h) \cap UnitsLeft(s, i) = {}
        BY <1>3, <2>2 DEF Divided
    <3>2. UnitsLeft(t, h) \subseteq UnitsLeft(s, h) /\ UnitsLeft(t, i) \subseteq UnitsLeft(s, i)
        BY <1>3, <1>7, <1>8
    <3> QED BY <3>1, <3>2
  <2> QED BY <2>1, <2>2 DEF Divided
<1>10. \A h \in DOMAIN s \ {g} : UnitsLeft(t, h) = UnitsLeft(s, h) /\ s[g][1] \notin UnitsLeft(s, h)
    BY <1>2, <1>7, <1>8
<1>11. s[g][1] \in 0 .. units - 1 /\ UnitsLeft(t, g) = UnitsLeft(s, g) \ {s[g][1]}
  <2>1. a \in 0 .. units - 1
      BY <1>1
  <2> QED BY <1>2, <1>7, <2>1, Zenon
<1> QED BY <1>3, <1>9, <1>10, <1>11

\* A unit has a line at least.
LEMMA UnitType == Unit \in Nat \ {0}
BY V8Assumption DEF Unit

\* A line is in one unit, the quotient by the size of a unit.
LEMMA LineOfUnit ==
    ASSUME NEW l \in Nat, NEW u \in Nat
    PROVE  /\ l \in UnitLines(u) <=> l \div Unit = u
           /\ l \div Unit \in Nat
           /\ l >= u * Unit <=> l \div Unit >= u
<1>1. PICK n \in Nat \ {0} : n = Unit
    BY UnitType
<1> DEFINE d == l \div n
           m == l % n
<1>2. d \in Int /\ m \in 0 .. n - 1 /\ l = n * d + m
    OBVIOUS
<1>3. l \in UnitLines(u) <=> u * n <= l /\ l <= (u + 1) * n - 1
    BY <1>1 DEF UnitLines
<1> HIDE DEF d, m
<1>4. d \in Nat
  <2>1. ASSUME d < 0 PROVE FALSE
    <3>1. PICK e \in Nat : d = -1 - e
        BY <1>2, <2>1
    <3>2. n * d = -n - n * e /\ n * e >= 0 /\ n * e \in Int
        BY <3>1
    <3> QED BY <1>2, <3>2
  <2> QED BY <1>2, <2>1
<1>5. CASE d = u
  <2>1. n * d = u * n /\ (u + 1) * n = u * n + n /\ u * n \in Int
      BY <1>5
  <2> QED BY <1>1, <1>2, <1>3, <1>4, <1>5, <2>1 DEF d
<1>6. CASE d < u
  <2>1. PICK e \in Nat : u = d + 1 + e
      BY <1>2, <1>6
  <2>2. u * n = n * d + n + n * e /\ n * e >= 0 /\ n * e \in Int /\ n * d \in Int
      BY <1>2, <2>1
  <2>3. l < u * n
      BY <1>2, <2>2
  <2>4. u * n \in Int
      OBVIOUS
  <2> QED BY <1>1, <1>2, <1>3, <1>4, <1>6, <2>3, <2>4 DEF d
<1>7. CASE d > u
  <2>1. PICK e \in Nat : d = u + 1 + e
      BY <1>2, <1>7
  <2>2. n * d = (u + 1) * n + n * e /\ n * e >= 0 /\ n * e \in Int /\ (u + 1) * n \in Int
      BY <1>2, <2>1
  <2>3. l >= (u + 1) * n /\ (u + 1) * n = u * n + n /\ u * n \in Int
      BY <1>2, <2>2
  <2> QED BY <1>1, <1>2, <1>3, <1>4, <1>7, <2>3 DEF d
<1> QED BY <1>2, <1>4, <1>5, <1>6, <1>7

\* The units that lines make.
LEMMA UnitsType ==
    ASSUME NEW total \in Nat
    PROVE  total \div Unit \in Nat
BY LineOfUnit

\* A line that a pass over so many lines in such units has not worked on.
Undone(unit, s, total, l) ==
    l \div unit >= total \div unit \/ \E g \in DOMAIN s : l \div unit \in UnitsLeft(s, g)

\* The lines that make no unit are those behind the last one.
LEMMA RestAt ==
    ASSUME NEW total \in Nat, NEW l \in 0 .. total - 1
    PROVE  l \in RestOf(total) <=> l \div Unit >= total \div Unit
<1>1. PICK u \in Nat : u = total \div Unit
    BY UnitsType
<1>2. PICK f \in Int : f = u * Unit
    BY UnitType
<1>3. l >= f <=> l \div Unit >= u
    BY <1>2, LineOfUnit
<1>4. RestOf(total) = f .. total - 1
    BY <1>1, <1>2 DEF RestOf
<1> QED BY <1>1, <1>2, <1>3, <1>4

\* At the start of a pass every line is left to do.
LEMMA AllUndone ==
    ASSUME NEW total \in Nat, job.threads \in Int
    PROVE  /\ Divided(Shares(total), total \div Unit)
           /\ \A l \in 0 .. total - 1 : Undone(Unit, Shares(total), total, l)
<1>1. PICK u \in Nat : u = total \div Unit
    BY UnitsType
<1>2. Shares(total) = Chunks(u)
    BY <1>1 DEF Shares
<1>3. Divided(Chunks(u), u) /\ \A i \in 0 .. u - 1 : \E g \in DOMAIN Chunks(u) : i \in UnitsLeft(Chunks(u), g)
    BY ChunksDivide
<1>4. ASSUME NEW l \in 0 .. total - 1 PROVE Undone(Unit, Chunks(u), total, l)
  <2>1. PICK i \in Nat : i = l \div Unit
      BY LineOfUnit
  <2>2. CASE i >= u
      BY <1>1, <2>1, <2>2 DEF Undone
  <2>3. CASE i < u
    <3>1. i \in 0 .. u - 1
        BY <2>3
    <3> QED BY <1>3, <2>1, <3>1 DEF Undone
  <2> QED BY <2>2, <2>3
<1> QED BY <1>1, <1>2, <1>3, <1>4

\* When all goroutines have ended, only the rest is left.
LEMMA RestUndone ==
    ASSUME NEW s, NEW units \in Nat, Divided(s, units), \A g \in DOMAIN s : s[g][1] = s[g][2],
           NEW total \in Nat, NEW l \in 0 .. total - 1
    PROVE  Undone(Unit, s, total, l) <=> l \in RestOf(total)
<1>1. \A g \in DOMAIN s : UnitsLeft(s, g) = {}
  <2> TAKE g \in DOMAIN s
  <2>1. PICK a \in 0 .. units : a = s[g][1] /\ a = s[g][2]
    <3>1. s[g] \in (0 .. units) \X (0 .. units)
        BY DEF Divided
    <3> QED BY <3>1
  <2>2. UnitsLeft(s, g) = a .. a - 1
      BY <2>1 DEF UnitsLeft
  <2> QED BY <2>2
<1> QED BY <1>1, RestAt DEF Undone

\* A goroutine's step takes its unit's lines, which were undone, from the undone ones.
LEMMA UnitUndone ==
    ASSUME NEW total \in Nat, NEW s, Divided(s, total \div Unit),
           NEW g \in DOMAIN s, s[g][1] # s[g][2], NEW t, TakenBy(s, g, t)
    PROVE  /\ Divided(t, total \div Unit)
           /\ \A l \in 0 .. total - 1 :
                  /\ Undone(Unit, t, total, l) <=> Undone(Unit, s, total, l) /\ l \notin UnitLines(s[g][1])
                  /\ l \in UnitLines(s[g][1]) => Undone(Unit, s, total, l)
<1>1. PICK n \in Nat : n = total \div Unit
    BY UnitsType
<1>2. /\ Divided(t, n)
      /\ s[g][1] \in 0 .. n - 1
      /\ DOMAIN t = DOMAIN s
      /\ UnitsLeft(t, g) = UnitsLeft(s, g) \ {s[g][1]}
      /\ \A h \in DOMAIN s \ {g} : UnitsLeft(t, h) = UnitsLeft(s, h) /\ s[g][1] \notin UnitsLeft(s, h)
  <2>1. Divided(s, n)
      BY <1>1
  <2> QED BY <2>1, LessLeft, Zenon
<1>3. PICK a \in 0 .. n - 1 : a = s[g][1]
    BY <1>2
<1>4. a \in UnitsLeft(s, g)
  <2>1. s[g] \in (0 .. n) \X (0 .. n) /\ s[g][1] <= s[g][2]
      BY <1>1 DEF Divided
  <2>2. PICK b \in 0 .. n : b = s[g][2]
      BY <2>1
  <2>3. a < b
      BY <1>3, <2>1, <2>2
  <2>4. UnitsLeft(s, g) = a .. b - 1
      BY <1>3, <2>2 DEF UnitsLeft
  <2> QED BY <2>3, <2>4
<1>5. ASSUME NEW l \in 0 .. total - 1
      PROVE  /\ Undone(Unit, t, total, l) <=> Undone(Unit, s, total, l) /\ l \notin UnitLines(a)
             /\ l \in UnitLines(a) => Undone(Unit, s, total, l)
  <2>1. PICK i \in Nat : i = l \div Unit
      BY LineOfUnit
  <2>2. l \in UnitLines(a) <=> i = a
      BY <2>1, LineOfUnit
  <2>3. i = a => ~(i >= n)
      OBVIOUS
  <2>4. \A h \in DOMAIN s : i \in UnitsLeft(t, h) <=> i \in UnitsLeft(s, h) /\ i # a
      BY <1>2, <1>3
  <2> QED BY <1>1, <1>2, <1>4, <2>1, <2>2, <2>3, <2>4 DEF Undone
<1> QED BY <1>1, <1>2, <1>3, <1>5

-----------------------------------------------------------------------------
(* Buffers and pictures.                                                   *)

\* The element of a buffer of rows of w elements in column x of row y.
Word(buf, w, x, y) == buf[y * w + x]

\* Column and row of a word of a buffer.
LEMMA IndexOf ==
    ASSUME NEW w \in Nat, NEW h \in Nat, NEW x \in 0 .. w - 1, NEW y \in 0 .. h - 1
    PROVE  /\ y * w + x \in 0 .. w * h - 1
           /\ (y * w + x) \div w = y /\ (y * w + x) % w = x
<1>1. w \in Nat \ {0}
    OBVIOUS
<1>2. PICK a \in Nat : a = y * w
    BY <1>1
<1>3. PICK e \in Nat : h = y + 1 + e
    OBVIOUS
<1>4. w * h = a + w + w * e /\ w * e >= 0 /\ w * e \in Int
    BY <1>2, <1>3
<1>5. a + x \in 0 .. w * h - 1
  <2>1. PICK b \in Int : b = w * h /\ a + w <= b
      BY <1>4
  <2> QED BY <2>1
<1> DEFINE d == (a + x) \div w
           m == (a + x) % w
<1>6. d \in Int /\ m \in 0 .. w - 1 /\ a + x = w * d + m
    BY <1>1
<1> HIDE DEF d, m
<1>7. d = y
  <2>1. ASSUME d < y PROVE FALSE
    <3>1. PICK f \in Nat : y = d + 1 + f
        BY <1>6, <2>1
    <3>2. y * w = w * d + w + w * f /\ w * f >= 0 /\ w * f \in Int /\ w * d \in Int
        BY <1>6, <3>1
    <3> QED BY <1>2, <1>6, <3>2
  <2>2. ASSUME d > y PROVE FALSE
    <3>1. PICK f \in Nat : d = y + 1 + f
        BY <1>6, <2>2
    <3>2. w * d = y * w + w + w * f /\ w * f >= 0 /\ w * f \in Int
        BY <1>6, <3>1
    <3> QED BY <1>2, <1>6, <3>2
  <2> QED BY <1>6, <2>1, <2>2
<1>8. m = x
  <2>1. w * d = a
      BY <1>2, <1>7
  <2> QED BY <1>6, <2>1
<1> QED BY <1>2, <1>5, <1>7, <1>8 DEF d, m

\* The word of a column and a row.
LEMMA IndexBack ==
    ASSUME NEW w \in Nat, NEW h \in Nat, NEW k \in 0 .. w * h - 1
    PROVE  /\ k % w \in 0 .. w - 1 /\ k \div w \in 0 .. h - 1
           /\ (k \div w) * w + (k % w) = k
<1>1. PICK b \in Int : b = w * h /\ k < b /\ k >= 0
    OBVIOUS
<1>2. w # 0
    BY <1>1
<1> DEFINE d == k \div w
           m == k % w
<1>3. d \in Int /\ m \in 0 .. w - 1 /\ k = w * d + m
    BY <1>2
<1> HIDE DEF d, m
<1>4. d >= 0
  <2>1. ASSUME d < 0 PROVE FALSE
    <3>1. PICK e \in Nat : d = -1 - e
        BY <1>3, <2>1
    <3>2. w * d = -w - w * e /\ w * e >= 0 /\ w * e \in Int
        BY <3>1
    <3> QED BY <1>3, <3>2
  <2> QED BY <1>3, <2>1
<1>5. d < h
  <2>1. ASSUME d >= h PROVE FALSE
    <3>1. PICK e \in Nat : d = h + e
        BY <1>3, <2>1
    <3>2. w * d = b + w * e /\ w * e >= 0 /\ w * e \in Int
        BY <1>1, <3>1
    <3> QED BY <1>1, <1>3, <3>2
  <2> QED BY <1>3, <2>1
<1>6. d * w = w * d
    BY <1>3
<1>7. d * w + m = k
    BY <1>3, <1>6
<1> QED BY <1>3, <1>4, <1>5, <1>7 DEF d, m

\* A function on the first n numbers.
Array(d, n) == d = [k \in 0 .. n - 1 |-> d[k]]

\* The buffers of w by h values.
Buffers(filter, w, h) == [0 .. w * h - 1 -> Values(filter)]

\* d is buf, h rows of w words, with the first n words of some rows inverted.
RowsInverted(filter, d, buf, w, h, lines, n, cas) ==
    /\ Array(d, w * h)
    /\ \A x \in 0 .. w - 1, y \in 0 .. h - 1 :
           Word(d, w, x, y) = IF y \in lines /\ x < n THEN InverseLine(filter, RowAt(buf, w, y, n), n, cas)[x]
                              ELSE Word(buf, w, x, y)

\* What the pass over rows of the decoder leaves (dwt53.go, idwt53H; dwt97.go).
LEMMA InverseRowsAt ==
    ASSUME NEW filter, NEW w \in Nat, NEW h \in Nat, NEW buf, DOMAIN buf = 0 .. w * h - 1,
           NEW lines, NEW n \in Nat, NEW cas,
           NEW d, d = InverseRows(filter, buf, w, lines, n, cas)
    PROVE  RowsInverted(filter, d, buf, w, h, lines, n, cas)
<1> DEFINE row == [j \in lines |-> InverseLine(filter, RowAt(buf, w, j, n), n, cas)]
<1>1. d = [k \in DOMAIN buf |-> IF k \div w \in lines /\ k % w < n THEN row[k \div w][k % w] ELSE buf[k]]
    BY Zenon DEF InverseRows
<1>2. \A j \in lines : row[j] = InverseLine(filter, RowAt(buf, w, j, n), n, cas)
    OBVIOUS
<1> HIDE DEF row
<1>3. ASSUME NEW x \in 0 .. w - 1, NEW y \in 0 .. h - 1
      PROVE  Word(d, w, x, y) = IF y \in lines /\ x < n THEN InverseLine(filter, RowAt(buf, w, y, n), n, cas)[x]
                                ELSE Word(buf, w, x, y)
  <2>1. PICK k \in 0 .. w * h - 1 : k = y * w + x /\ k \div w = y /\ k % w = x
      BY IndexOf
  <2>2. Word(d, w, x, y) = d[k] /\ Word(buf, w, x, y) = buf[k]
      BY <2>1 DEF Word
  <2>3. d[k] = IF k \div w \in lines /\ k % w < n THEN row[k \div w][k % w] ELSE buf[k]
      BY <1>1
  <2> QED BY <1>2, <2>1, <2>2, <2>3
<1>4. Array(d, w * h)
    BY <1>1 DEF Array
<1> QED BY <1>3, <1>4, Zenon DEF RowsInverted

\* d is buf with the first n words of some columns inverted.
ColumnsInverted(filter, d, buf, w, h, lines, n, cas) ==
    /\ Array(d, w * h)
    /\ \A x \in 0 .. w - 1, y \in 0 .. h - 1 :
           Word(d, w, x, y) = IF x \in lines /\ y < n THEN InverseLine(filter, ColAt(buf, w, x, n), n, cas)[y]
                              ELSE Word(buf, w, x, y)

\* What the pass over columns of the decoder leaves (dwt53.go, idwt53V; dwt97.go).
LEMMA InverseColumnsAt ==
    ASSUME NEW filter, NEW w \in Nat, NEW h \in Nat, NEW buf, DOMAIN buf = 0 .. w * h - 1,
           NEW lines, NEW n \in Nat, NEW cas,
           NEW d, d = InverseColumns(filter, buf, w, lines, n, cas)
    PROVE  ColumnsInverted(filter, d, buf, w, h, lines, n, cas)
<1> DEFINE column == [j \in lines |-> InverseLine(filter, ColAt(buf, w, j, n), n, cas)]
<1>1. d = [k \in DOMAIN buf |-> IF k % w \in lines /\ k \div w < n THEN column[k % w][k \div w] ELSE buf[k]]
    BY Zenon DEF InverseColumns
<1>2. \A j \in lines : column[j] = InverseLine(filter, ColAt(buf, w, j, n), n, cas)
    OBVIOUS
<1> HIDE DEF column
<1>3. ASSUME NEW x \in 0 .. w - 1, NEW y \in 0 .. h - 1
      PROVE  Word(d, w, x, y) = IF x \in lines /\ y < n THEN InverseLine(filter, ColAt(buf, w, x, n), n, cas)[y]
                                ELSE Word(buf, w, x, y)
  <2>1. PICK k \in 0 .. w * h - 1 : k = y * w + x /\ k \div w = y /\ k % w = x
      BY IndexOf
  <2>2. Word(d, w, x, y) = d[k] /\ Word(buf, w, x, y) = buf[k]
      BY <2>1 DEF Word
  <2>3. d[k] = IF k % w \in lines /\ k \div w < n THEN column[k % w][k \div w] ELSE buf[k]
      BY <1>1
  <2> QED BY <1>2, <2>1, <2>2, <2>3
<1>4. Array(d, w * h)
    BY <1>1 DEF Array
<1> QED BY <1>3, <1>4, Zenon DEF ColumnsInverted

\* d is buf with the first n words of its first columns transformed.
ColumnsForwarded(filter, d, buf, w, h, cols, n, cas) ==
    /\ Array(d, w * h)
    /\ \A x \in 0 .. w - 1, y \in 0 .. h - 1 :
           Word(d, w, x, y) = IF x < cols /\ y < n THEN ForwardLine(filter, ColAt(buf, w, x, n), n, cas)[y]
                              ELSE Word(buf, w, x, y)

\* What the encoder's pass over columns leaves.
LEMMA ForwardColumnsAt ==
    ASSUME NEW filter, NEW w \in Nat, NEW h \in Nat, NEW buf, DOMAIN buf = 0 .. w * h - 1,
           NEW cols \in Nat, NEW n \in Nat, NEW cas,
           NEW d, d = ForwardColumns(filter, buf, w, cols, n, cas)
    PROVE  ColumnsForwarded(filter, d, buf, w, h, cols, n, cas)
<1> DEFINE column == [c \in 0 .. cols - 1 |-> ForwardLine(filter, ColAt(buf, w, c, n), n, cas)]
<1>1. d = [k \in DOMAIN buf |-> IF k % w < cols /\ k \div w < n THEN column[k % w][k \div w] ELSE buf[k]]
    BY Zenon DEF ForwardColumns
<1>2. \A j \in 0 .. cols - 1 : column[j] = ForwardLine(filter, ColAt(buf, w, j, n), n, cas)
    OBVIOUS
<1> HIDE DEF column
<1>3. ASSUME NEW x \in 0 .. w - 1, NEW y \in 0 .. h - 1
      PROVE  Word(d, w, x, y) = IF x < cols /\ y < n THEN ForwardLine(filter, ColAt(buf, w, x, n), n, cas)[y]
                                ELSE Word(buf, w, x, y)
  <2>1. PICK k \in 0 .. w * h - 1 : k = y * w + x /\ k \div w = y /\ k % w = x
      BY IndexOf
  <2>2. Word(d, w, x, y) = d[k] /\ Word(buf, w, x, y) = buf[k]
      BY <2>1 DEF Word
  <2>3. d[k] = IF k % w < cols /\ k \div w < n THEN column[k % w][k \div w] ELSE buf[k]
      BY <1>1
  <2>4. x < cols => column[x] = ForwardLine(filter, ColAt(buf, w, x, n), n, cas)
      BY <1>2
  <2> QED BY <2>1, <2>2, <2>3, <2>4
<1>4. Array(d, w * h)
    BY <1>1 DEF Array
<1> QED BY <1>3, <1>4, Zenon DEF ColumnsForwarded

\* d is buf with the first n words of its first rows transformed.
RowsForwarded(filter, d, buf, w, h, rows, n, cas) ==
    /\ Array(d, w * h)
    /\ \A x \in 0 .. w - 1, y \in 0 .. h - 1 :
           Word(d, w, x, y) = IF y < rows /\ x < n THEN ForwardLine(filter, RowAt(buf, w, y, n), n, cas)[x]
                              ELSE Word(buf, w, x, y)

\* What the encoder's pass over rows leaves, if they are not empty at an odd column.
LEMMA ForwardRowsAt ==
    ASSUME NEW filter, NEW w \in Nat, NEW h \in Nat, NEW buf, DOMAIN buf = 0 .. w * h - 1,
           NEW rows \in Nat, NEW n \in Nat, NEW cas, ~(filter = "5/3" /\ n = 0 /\ cas = 1),
           NEW d, d = ForwardRows(filter, buf, w, rows, n, cas)
    PROVE  RowsForwarded(filter, d, buf, w, h, rows, n, cas)
<1> DEFINE row == [j \in 0 .. rows - 1 |-> ForwardLine(filter, RowAt(buf, w, j, n), n, cas)]
<1>1. d = [k \in DOMAIN buf |->
              IF k \div w >= rows THEN buf[k]
              ELSE IF k % w < n THEN row[k \div w][k % w]
              ELSE IF filter = "5/3" /\ n = 0 /\ cas = 1 /\ k % w = 0 THEN EmptyRow(buf, k)
              ELSE buf[k]]
    BY Zenon DEF ForwardRows
<1>2. \A j \in 0 .. rows - 1 : row[j] = ForwardLine(filter, RowAt(buf, w, j, n), n, cas)
    OBVIOUS
<1> HIDE DEF row
<1>3. ASSUME NEW x \in 0 .. w - 1, NEW y \in 0 .. h - 1
      PROVE  Word(d, w, x, y) = IF y < rows /\ x < n THEN ForwardLine(filter, RowAt(buf, w, y, n), n, cas)[x]
                                ELSE Word(buf, w, x, y)
  <2>1. PICK k \in 0 .. w * h - 1 : k = y * w + x /\ k \div w = y /\ k % w = x
      BY IndexOf
  <2>2. Word(d, w, x, y) = d[k] /\ Word(buf, w, x, y) = buf[k]
      BY <2>1 DEF Word
  <2>3. d[k] = IF y >= rows THEN buf[k] ELSE IF x < n THEN row[y][x] ELSE buf[k]
      BY <1>1, <2>1
  <2>4. y < rows => row[y] = ForwardLine(filter, RowAt(buf, w, y, n), n, cas)
      BY <1>2
  <2> QED BY <2>2, <2>3, <2>4
<1>4. Array(d, w * h)
    BY <1>1 DEF Array
<1> QED BY <1>3, <1>4, Zenon DEF RowsForwarded

\* Pictures of w by h samples; their columns transformed, and their rows.
Plane(w, h) == (0 .. w - 1) \X (0 .. h - 1)
Pictures(filter, w, h) == [Plane(w, h) -> Values(filter)]
ColOf(img, x, h) == [i \in 0 .. h - 1 |-> img[<<x, i>>]]
RowOf(img, y, w) == [i \in 0 .. w - 1 |-> img[<<i, y>>]]
Columned(filter, img, w, h, cas) ==
    [p \in Plane(w, h) |-> ForwardLine(filter, ColOf(img, p[1], h), h, cas)[p[2]]]
Rowed(filter, img, w, h, cas) ==
    [p \in Plane(w, h) |-> ForwardLine(filter, RowOf(img, p[2], w), w, cas)[p[1]]]

\* The lines of a picture.
LEMMA LinesOfPictures ==
    ASSUME NEW filter, NEW w \in Nat, NEW h \in Nat, NEW img \in Pictures(filter, w, h)
    PROVE  /\ \A x \in 0 .. w - 1 : ColOf(img, x, h) \in LinesOf(filter, h)
           /\ \A y \in 0 .. h - 1 : RowOf(img, y, w) \in LinesOf(filter, w)
BY DEF ColOf, RowOf, LinesOf, Pictures, Plane

\* A picture's columns transformed are a picture.
LEMMA ColumnedAt ==
    ASSUME NEW filter \in Filters, NEW w \in Nat, NEW h \in Nat, NEW cas \in {0, 1},
           NEW img \in Pictures(filter, w, h)
    PROVE  /\ Columned(filter, img, w, h, cas) \in Pictures(filter, w, h)
           /\ \A x \in 0 .. w - 1, y \in 0 .. h - 1 :
                  Columned(filter, img, w, h, cas)[<<x, y>>] = ForwardLine(filter, ColOf(img, x, h), h, cas)[y]
<1> DEFINE c == Columned(filter, img, w, h, cas)
<1>2. c = [p \in Plane(w, h) |-> ForwardLine(filter, ColOf(img, p[1], h), h, cas)[p[2]]]
    BY DEF Columned
<1> HIDE DEF c
<1>3. \A x \in 0 .. w - 1, y \in 0 .. h - 1 : c[<<x, y>>] = ForwardLine(filter, ColOf(img, x, h), h, cas)[y]
    BY <1>2 DEF Plane
<1>4. \A x \in 0 .. w - 1, y \in 0 .. h - 1 : ForwardLine(filter, ColOf(img, x, h), h, cas)[y] \in Values(filter)
    BY LinesOfPictures, LineReversible DEF LinesOf
<1>5. c \in Pictures(filter, w, h)
  <2>1. \A p \in Plane(w, h) : p[1] \in 0 .. w - 1 /\ p[2] \in 0 .. h - 1
      BY DEF Plane
  <2> QED BY <1>2, <1>4, <2>1 DEF Pictures
<1> QED BY <1>3, <1>5 DEF c

\* A picture's rows transformed are a picture.
LEMMA RowedAt ==
    ASSUME NEW filter \in Filters, NEW w \in Nat, NEW h \in Nat, NEW cas \in {0, 1},
           NEW img \in Pictures(filter, w, h)
    PROVE  /\ Rowed(filter, img, w, h, cas) \in Pictures(filter, w, h)
           /\ \A x \in 0 .. w - 1, y \in 0 .. h - 1 :
                  Rowed(filter, img, w, h, cas)[<<x, y>>] = ForwardLine(filter, RowOf(img, y, w), w, cas)[x]
<1> DEFINE c == Rowed(filter, img, w, h, cas)
<1>2. c = [p \in Plane(w, h) |-> ForwardLine(filter, RowOf(img, p[2], w), w, cas)[p[1]]]
    BY DEF Rowed
<1> HIDE DEF c
<1>3. \A x \in 0 .. w - 1, y \in 0 .. h - 1 : c[<<x, y>>] = ForwardLine(filter, RowOf(img, y, w), w, cas)[x]
    BY <1>2 DEF Plane
<1>4. \A x \in 0 .. w - 1, y \in 0 .. h - 1 : ForwardLine(filter, RowOf(img, y, w), w, cas)[x] \in Values(filter)
    BY LinesOfPictures, LineReversible DEF LinesOf
<1>5. c \in Pictures(filter, w, h)
  <2>1. \A p \in Plane(w, h) : p[1] \in 0 .. w - 1 /\ p[2] \in 0 .. h - 1
      BY DEF Plane
  <2> QED BY <1>2, <1>4, <2>1 DEF Pictures
<1> QED BY <1>3, <1>5 DEF c

\* The lines of a buffer are known by their words.
LEMMA RowKnown ==
    ASSUME NEW n, NEW f, Array(f, n), NEW buf, NEW w, NEW y, \A x \in 0 .. n - 1 : Word(buf, w, x, y) = f[x]
    PROVE  RowAt(buf, w, y, n) = f
BY DEF RowAt, Word, Array

\* The same for a column.
LEMMA ColKnown ==
    ASSUME NEW n, NEW f, Array(f, n), NEW buf, NEW w, NEW x, \A y \in 0 .. n - 1 : Word(buf, w, x, y) = f[y]
    PROVE  ColAt(buf, w, x, n) = f
BY DEF ColAt, Word, Array

\* A line is a function on the numbers of its elements.
LEMMA LineIsArray ==
    ASSUME NEW filter, NEW n, NEW f \in LinesOf(filter, n)
    PROVE  Array(f, n)
BY DEF LinesOf, Array

\* A line of a buffer that holds the transform of a picture's is inverted to it.
LEMMA RowInverted ==
    ASSUME NEW filter \in Filters, NEW w \in Nat, NEW h \in Nat, NEW cas \in {0, 1},
           NEW img \in Pictures(filter, w, h), NEW buf, NEW stride, NEW y \in 0 .. h - 1,
           \A x \in 0 .. w - 1 : Word(buf, stride, x, y) = Rowed(filter, img, w, h, cas)[<<x, y>>]
    PROVE  \A x \in 0 .. w - 1 : InverseLine(filter, RowAt(buf, stride, y, w), w, cas)[x] = img[<<x, y>>]
<1>1. PICK line \in LinesOf(filter, w) : line = RowOf(img, y, w)
    BY LinesOfPictures
<1>2. PICK f \in LinesOf(filter, w) : f = ForwardLine(filter, line, w, cas) /\ InverseLine(filter, f, w, cas) = line
    BY LineReversible
<1>3. \A x \in 0 .. w - 1 : Word(buf, stride, x, y) = f[x]
  <2> TAKE x \in 0 .. w - 1
  <2>1. Rowed(filter, img, w, h, cas)[<<x, y>>] = ForwardLine(filter, RowOf(img, y, w), w, cas)[x]
      BY RowedAt
  <2> QED BY <1>1, <1>2, <2>1
<1>4. RowAt(buf, stride, y, w) = f
    BY <1>3, RowKnown, LineIsArray
<1>5. \A x \in 0 .. w - 1 : line[x] = img[<<x, y>>]
    BY <1>1 DEF RowOf
<1> QED BY <1>2, <1>4, <1>5

\* The same for a column.
LEMMA ColumnInverted ==
    ASSUME NEW filter \in Filters, NEW w \in Nat, NEW h \in Nat, NEW cas \in {0, 1},
           NEW img \in Pictures(filter, w, h), NEW buf, NEW stride, NEW x \in 0 .. w - 1,
           \A y \in 0 .. h - 1 : Word(buf, stride, x, y) = Columned(filter, img, w, h, cas)[<<x, y>>]
    PROVE  \A y \in 0 .. h - 1 : InverseLine(filter, ColAt(buf, stride, x, h), h, cas)[y] = img[<<x, y>>]
<1>1. PICK line \in LinesOf(filter, h) : line = ColOf(img, x, h)
    BY LinesOfPictures
<1>2. PICK f \in LinesOf(filter, h) : f = ForwardLine(filter, line, h, cas) /\ InverseLine(filter, f, h, cas) = line
    BY LineReversible
<1>3. \A y \in 0 .. h - 1 : Word(buf, stride, x, y) = f[y]
  <2> TAKE y \in 0 .. h - 1
  <2>1. Columned(filter, img, w, h, cas)[<<x, y>>] = ForwardLine(filter, ColOf(img, x, h), h, cas)[y]
      BY ColumnedAt
  <2> QED BY <1>1, <1>2, <2>1
<1>4. ColAt(buf, stride, x, h) = f
    BY <1>3, ColKnown, LineIsArray
<1>5. \A y \in 0 .. h - 1 : line[y] = img[<<x, y>>]
    BY <1>1 DEF ColOf
<1> QED BY <1>2, <1>4, <1>5

\* A picture in the corner of a buffer, and the buffer with its columns and
\* then its rows transformed.
Placed(buf, stride, img, w, h) ==
    \A x \in 0 .. w - 1, y \in 0 .. h - 1 : Word(buf, stride, x, y) = img[<<x, y>>]
LevelForwarded(filter, d, buf, stride, height, img, w, h, cx, cy) ==
    /\ d \in Buffers(filter, stride, height)
    /\ \A x \in 0 .. stride - 1, y \in 0 .. height - 1 :
           Word(d, stride, x, y) = IF x < w /\ y < h
                                   THEN Rowed(filter, Columned(filter, img, w, h, cy), w, h, cx)[<<x, y>>]
                                   ELSE Word(buf, stride, x, y)

\* d is buf after a level of the encoder, which the hazard of an empty row spares.
LevelFrom(filter, d, buf, stride, w, h, cx, cy) ==
    d = ForwardRows(filter, ForwardColumns(filter, buf, stride, w, h, cy), stride, h, w, cx)
RowsSpared(filter, w, cx) == ~(filter = "5/3" /\ w = 0 /\ cx = 1)

\* A level of the encoder leaves the picture taken apart, columns first, where it was placed, and the
\* rest of the buffer as it was (dwt53.go, encodeProcedure53).
LEMMA LevelTransformed ==
    ASSUME NEW filter \in Filters, NEW stride \in Nat, NEW height \in Nat, NEW buf \in Buffers(filter, stride, height),
           NEW w \in 0 .. stride, NEW h \in 0 .. height, NEW cx \in {0, 1}, NEW cy \in {0, 1},
           NEW img \in Pictures(filter, w, h),
           Placed(buf, stride, img, w, h),
           RowsSpared(filter, w, cx),
           NEW d, LevelFrom(filter, d, buf, stride, w, h, cx, cy)
    PROVE  LevelForwarded(filter, d, buf, stride, height, img, w, h, cx, cy)
<1>0. w \in Nat /\ h \in Nat
    OBVIOUS
<1>1. PICK c \in Pictures(filter, w, h) : c = Columned(filter, img, w, h, cy)
    BY <1>0, ColumnedAt
<1>2. PICK r \in Pictures(filter, w, h) : r = Rowed(filter, c, w, h, cx)
    BY <1>0, RowedAt
<1>3. DOMAIN buf = 0 .. stride * height - 1
    BY DEF Buffers
<1>4. PICK e : /\ e = ForwardColumns(filter, buf, stride, w, h, cy)
               /\ d = ForwardRows(filter, e, stride, h, w, cx)
    BY DEF LevelFrom
<1>5. /\ Array(e, stride * height)
      /\ \A x \in 0 .. stride - 1, y \in 0 .. height - 1 :
             Word(e, stride, x, y) = IF x < w /\ y < h THEN ForwardLine(filter, ColAt(buf, stride, x, h), h, cy)[y]
                                     ELSE Word(buf, stride, x, y)
  <2>1. ColumnsForwarded(filter, e, buf, stride, height, w, h, cy)
      BY <1>0, <1>3, <1>4, ForwardColumnsAt, Zenon
  <2> QED BY <2>1, Zenon DEF ColumnsForwarded
<1>6. DOMAIN e = 0 .. stride * height - 1
    BY <1>5 DEF Array
<1>7. /\ Array(d, stride * height)
      /\ \A x \in 0 .. stride - 1, y \in 0 .. height - 1 :
             Word(d, stride, x, y) = IF y < h /\ x < w THEN ForwardLine(filter, RowAt(e, stride, y, w), w, cx)[x]
                                     ELSE Word(e, stride, x, y)
  <2>1. RowsForwarded(filter, d, e, stride, height, h, w, cx)
    <3>1. ~(filter = "5/3" /\ w = 0 /\ cx = 1)
        BY DEF RowsSpared
    <3> QED BY <1>0, <1>4, <1>6, <3>1, ForwardRowsAt, Zenon
  <2> QED BY <2>1, Zenon DEF RowsForwarded
<1>8. ASSUME NEW x \in 0 .. w - 1, NEW y \in 0 .. h - 1 PROVE Word(e, stride, x, y) = c[<<x, y>>]
  <2>1. PICK line \in LinesOf(filter, h) : line = ColOf(img, x, h)
      BY <1>0, LinesOfPictures
  <2>2. c[<<x, y>>] = ForwardLine(filter, line, h, cy)[y]
      BY <1>0, <1>1, <2>1, ColumnedAt
  <2>3. \A i \in 0 .. h - 1 : Word(buf, stride, x, i) = line[i]
      BY <2>1 DEF ColOf, Placed
  <2>4. ColAt(buf, stride, x, h) = line
      BY <2>3, ColKnown, LineIsArray
  <2>5. x \in 0 .. stride - 1 /\ y \in 0 .. height - 1 /\ x < w /\ y < h
      OBVIOUS
  <2> QED BY <1>5, <2>2, <2>4, <2>5
<1>9. ASSUME NEW x \in 0 .. w - 1, NEW y \in 0 .. h - 1 PROVE Word(d, stride, x, y) = r[<<x, y>>]
  <2>1. PICK line \in LinesOf(filter, w) : line = RowOf(c, y, w)
      BY <1>0, LinesOfPictures
  <2>2. r[<<x, y>>] = ForwardLine(filter, line, w, cx)[x]
      BY <1>0, <1>2, <2>1, RowedAt
  <2>3. \A i \in 0 .. w - 1 : Word(e, stride, i, y) = line[i]
      BY <1>8, <2>1 DEF RowOf
  <2>4. RowAt(e, stride, y, w) = line
      BY <2>3, RowKnown, LineIsArray
  <2>5. x \in 0 .. stride - 1 /\ y \in 0 .. height - 1 /\ x < w /\ y < h
      OBVIOUS
  <2> QED BY <1>7, <2>2, <2>4, <2>5
<1>10. ASSUME NEW x \in 0 .. stride - 1, NEW y \in 0 .. height - 1
      PROVE  Word(d, stride, x, y) = IF x < w /\ y < h THEN r[<<x, y>>] ELSE Word(buf, stride, x, y)
  <2>1. CASE x < w /\ y < h
    <3>1. x \in 0 .. w - 1 /\ y \in 0 .. h - 1
        BY <2>1
    <3> QED BY <1>9, <2>1, <3>1
  <2>2. CASE ~(x < w /\ y < h)
    <3>1. Word(d, stride, x, y) = Word(e, stride, x, y)
        BY <1>7, <2>2
    <3>2. Word(e, stride, x, y) = Word(buf, stride, x, y)
        BY <1>5, <2>2
    <3> QED BY <2>2, <3>1, <3>2
  <2> QED BY <2>1, <2>2
<1>11. ASSUME NEW k \in 0 .. stride * height - 1 PROVE d[k] \in Values(filter)
  <2>1. PICK x \in 0 .. stride - 1, y \in 0 .. height - 1 : x = k % stride /\ y = k \div stride /\ y * stride + x = k
      BY IndexBack
  <2>2. d[k] = Word(d, stride, x, y) /\ buf[k] = Word(buf, stride, x, y)
      BY <2>1 DEF Word
  <2>3. buf[k] \in Values(filter)
      BY DEF Buffers
  <2>4. CASE x < w /\ y < h
    <3>1. <<x, y>> \in Plane(w, h)
        BY <2>4 DEF Plane
    <3>2. r[<<x, y>>] \in Values(filter)
        BY <3>1 DEF Pictures
    <3> QED BY <1>10, <2>2, <2>4, <3>2
  <2>5. CASE ~(x < w /\ y < h)
      BY <1>10, <2>2, <2>3, <2>5
  <2> QED BY <2>4, <2>5
<1>12. d \in Buffers(filter, stride, height)
    BY <1>7, <1>11 DEF Buffers, Array
<1> QED BY <1>1, <1>2, <1>10, <1>12 DEF LevelForwarded

-----------------------------------------------------------------------------
(* The geometry of a job.                                                  *)

\* The resolutions of a job's component, as in the specification but for any job.
Levels(j) == NumRes(j.tile, 0)
LoOf(j, r, a) == ResLo(j.tile, 0, r, a)
HiOf(j, r, a) == ResHi(j.tile, 0, r, a)
SizeOf(j, r, a) == HiOf(j, r, a) - LoOf(j, r, a)
CasOf(j, r, a) == LoOf(j, r, a) % 2

\* The component's extent is one of natural numbers, and it has a resolution.
LEMMA ComponentExtent ==
    ASSUME NEW j \in Jobs, NEW a \in Axes
    PROVE  /\ CompLo(j.tile, 0, a) \in Nat /\ CompHi(j.tile, 0, a) \in Nat
           /\ CompLo(j.tile, 0, a) <= CompHi(j.tile, 0, a)
           /\ Levels(j) \in Nat \ {0}
<1>1. PICK l \in Nat, h \in Nat, d \in Nat \ {0} :
          l = j.tile.lo[a] /\ h = j.tile.hi[a] /\ d = j.tile.comps[0].d[a] /\ l <= h
    BY JobsAssumption DEF IsComponent
<1>2. CompLo(j.tile, 0, a) = CeilDiv(l, d) /\ CompHi(j.tile, 0, a) = CeilDiv(h, d)
    BY <1>1 DEF CompLo, CompHi
<1>3. CeilDiv(l, d) \in Nat /\ CeilDiv(h, d) \in Nat
    BY CeilDivNat
<1>4. CeilDiv(l, d) <= CeilDiv(h, d)
    BY <1>1, CeilDivMonotone
<1>5. Levels(j) \in Nat \ {0}
    BY JobsAssumption DEF IsComponent, Levels
<1> QED BY <1>2, <1>3, <1>4, <1>5

\* So is a resolution's.
LEMMA ResolutionExtent ==
    ASSUME NEW j \in Jobs, NEW a \in Axes, NEW r \in 0 .. Levels(j) - 1
    PROVE  LoOf(j, r, a) \in Nat /\ HiOf(j, r, a) \in Nat /\ LoOf(j, r, a) <= HiOf(j, r, a)
<1>1. PICK l \in Nat, h \in Nat : l = CompLo(j.tile, 0, a) /\ h = CompHi(j.tile, 0, a) /\ l <= h
    BY ComponentExtent
<1>2. PICK n \in Nat : n = Level(j.tile, 0, r)
    BY ComponentExtent DEF Level, Levels
<1>3. PICK p \in Nat \ {0} : p = 2^n
  <2>1. 2^n \in Nat /\ 2^n >= 1
      BY PowerPositive
  <2> QED BY <2>1
<1>4. LoOf(j, r, a) = CeilDiv(l, p) /\ HiOf(j, r, a) = CeilDiv(h, p)
    BY <1>1, <1>2, <1>3 DEF LoOf, HiOf, ResLo, ResHi, CeilDivPow2
<1>5. CeilDiv(l, p) \in Nat /\ CeilDiv(h, p) \in Nat
    BY CeilDivNat
<1>6. CeilDiv(l, p) <= CeilDiv(h, p)
    BY <1>1, CeilDivMonotone
<1> QED BY <1>4, <1>5, <1>6

\* The next lower resolution, and the bands of this one.
LEMMA ResolutionHalved ==
    ASSUME NEW j \in Jobs, NEW a \in Axes, NEW r \in 1 .. Levels(j) - 1
    PROVE  /\ LoOf(j, r - 1, a) = (LoOf(j, r, a) + 1) \div 2
           /\ HiOf(j, r - 1, a) = (HiOf(j, r, a) + 1) \div 2
           /\ BandLo(j.tile, 0, r, 1, a) = LoOf(j, r, a) \div 2
           /\ BandHi(j.tile, 0, r, 1, a) = HiOf(j, r, a) \div 2
           /\ BandLo(j.tile, 0, r, 0, a) = LoOf(j, r - 1, a)
           /\ BandHi(j.tile, 0, r, 0, a) = HiOf(j, r - 1, a)
<1>1. PICK l \in Int, h \in Int : l = CompLo(j.tile, 0, a) /\ h = CompHi(j.tile, 0, a)
    BY ComponentExtent
<1>2. PICK n \in Nat : n = Level(j.tile, 0, r) /\ n + 1 = Level(j.tile, 0, r - 1)
    BY ComponentExtent DEF Level, Levels
<1>3. PICK p \in Int, q \in Int : p = 2^n /\ q = 2^(n + 1)
  <2>1. n + 1 \in Nat
      OBVIOUS
  <2> QED BY <2>1, PowerPositive
<1>4. LoOf(j, r, a) = CeilDivPow2(l, n) /\ HiOf(j, r, a) = CeilDivPow2(h, n)
    BY <1>1, <1>2 DEF LoOf, HiOf, ResLo, ResHi
<1>5. LoOf(j, r - 1, a) = CeilDivPow2(l, n + 1) /\ HiOf(j, r - 1, a) = CeilDivPow2(h, n + 1)
    BY <1>1, <1>2 DEF LoOf, HiOf, ResLo, ResHi
<1>6. /\ CeilDivPow2(l, n + 1) = (CeilDivPow2(l, n) + 1) \div 2
      /\ CeilDivPow2(h, n + 1) = (CeilDivPow2(h, n) + 1) \div 2
      /\ CeilDiv(l - p, q) = CeilDivPow2(l, n) \div 2
      /\ CeilDiv(h - p, q) = CeilDivPow2(h, n) \div 2
    BY <1>3, CeilDivPow2Halves
<1>7. BandLo(j.tile, 0, r, 1, a) = CeilDiv(l - p, q) /\ BandHi(j.tile, 0, r, 1, a) = CeilDiv(h - p, q)
    BY <1>1, <1>2, <1>3 DEF BandLo, BandHi
<1>8. BandLo(j.tile, 0, r, 0, a) = CeilDivPow2(l, n + 1) /\ BandHi(j.tile, 0, r, 0, a) = CeilDivPow2(h, n + 1)
    BY <1>1, <1>2, <1>3 DEF BandLo, BandHi, CeilDivPow2
<1> QED BY <1>4, <1>5, <1>6, <1>7, <1>8

\* Sizes and the kind of the first element.
LEMMA SizeType ==
    ASSUME NEW j \in Jobs, NEW a \in Axes, NEW r \in 0 .. Levels(j) - 1
    PROVE  SizeOf(j, r, a) \in Nat /\ CasOf(j, r, a) \in {0, 1}
BY ResolutionExtent DEF SizeOf, CasOf

\* A lower resolution is no larger.
LEMMA SizeMonotone ==
    ASSUME NEW j \in Jobs, NEW a \in Axes, NEW s \in 0 .. Levels(j) - 1, NEW r \in 0 .. s
    PROVE  SizeOf(j, r, a) <= SizeOf(j, s, a)
<1>0. Levels(j) \in Nat
    BY ComponentExtent
<1> DEFINE S == {k \in r .. s : SizeOf(j, r, a) <= SizeOf(j, k, a)}
<1>1. r \in Int /\ s \in Int
    OBVIOUS
<1>2. r <= s => r \in S
    BY <1>0, SizeType
<1>3. ASSUME NEW k \in r .. s - 1, k \in S PROVE k + 1 \in S
  <2>1. k \in 0 .. Levels(j) - 1 /\ k + 1 \in 1 .. Levels(j) - 1 /\ k + 1 \in r .. s /\ (k + 1) - 1 = k
      BY <1>0
  <2>2. LoOf(j, k, a) = (LoOf(j, k + 1, a) + 1) \div 2 /\ HiOf(j, k, a) = (HiOf(j, k + 1, a) + 1) \div 2
      BY <2>1, ResolutionHalved
  <2>3. PICK l \in Nat, h \in Nat : l = LoOf(j, k + 1, a) /\ h = HiOf(j, k + 1, a) /\ l <= h
      BY <2>1, ResolutionExtent
  <2>4. SizeOf(j, k, a) <= SizeOf(j, k + 1, a)
      BY <2>2, <2>3 DEF SizeOf
  <2>5. SizeOf(j, r, a) \in Nat /\ SizeOf(j, k, a) \in Nat /\ SizeOf(j, k + 1, a) \in Nat
      BY <1>0, <2>1, SizeType
  <2> QED BY <1>3, <2>1, <2>4, <2>5
<1>4. r .. s \subseteq S
  <2> HIDE DEF S
  <2> QED BY <1>1, <1>2, <1>3, IntervalInduction
<1> QED BY <1>4

\* The columns of a resolution's picture transformed, and then the rows.
ColumnsTaken(j, r, img) ==
    Columned(j.filter, img, SizeOf(j, r, "X"), SizeOf(j, r, "Y"), CasOf(j, r, "Y"))
Taken(j, r, img) ==
    Rowed(j.filter, ColumnsTaken(j, r, img), SizeOf(j, r, "X"), SizeOf(j, r, "Y"), CasOf(j, r, "X"))

\* The columns and the rows of a resolution.
Columns(j, r) == 0 .. SizeOf(j, r, "X") - 1
Rows(j, r) == 0 .. SizeOf(j, r, "Y") - 1

\* From resolution lo on, a picture is the low-pass part of the next one's transform.
Kept(j, lo, im) ==
    /\ \A r \in lo .. Levels(j) - 1 : im[r] \in Pictures(j.filter, SizeOf(j, r, "X"), SizeOf(j, r, "Y"))
    /\ \A r \in lo + 1 .. Levels(j) - 1 : \A x \in Columns(j, r - 1), y \in Rows(j, r - 1) :
           im[r - 1][<<x, y>>] = Taken(j, r, im[r])[<<x, y>>]

\* The buffer holds the bands of resolutions lo to hi around the corner that
\* is left of the lower ones.
Around(j, lo, hi, im, d, stride) ==
    \A r \in lo .. hi : \A x \in Columns(j, r), y \in Rows(j, r) :
        x \notin Columns(j, r - 1) \/ y \notin Rows(j, r - 1) =>
            Word(d, stride, x, y) = Taken(j, r, im[r])[<<x, y>>]

\* The corner of the buffer is a picture of resolution r.
Corner(j, r, img, d, stride) ==
    \A x \in Columns(j, r), y \in Rows(j, r) : Word(d, stride, x, y) = img[<<x, y>>]

\* The encoder has taken the picture apart down to resolution r.
TakenApart(j, r, d, im) ==
    /\ r \in 0 .. Levels(j) - 1
    /\ DOMAIN im = 0 .. Levels(j) - 1
    /\ d \in Buffers(j.filter, SizeOf(j, Levels(j) - 1, "X"), SizeOf(j, Levels(j) - 1, "Y"))
    /\ Kept(j, r, im)
    /\ Around(j, r + 1, Levels(j) - 1, im, d, SizeOf(j, Levels(j) - 1, "X"))
    /\ Corner(j, r, im[r], d, SizeOf(j, Levels(j) - 1, "X"))

\* The decoder is putting resolution r together, of which a pass over the rows
\* or the columns has some lines left: those are as the encoder's pass left
\* them, the others as it found them.
Underway(j, r, d, im) ==
    /\ r \in 1 .. j.got - 1
    /\ DOMAIN d = 0 .. SizeOf(j, j.min - 1, "X") * SizeOf(j, j.min - 1, "Y") - 1
    /\ Kept(j, 0, im)
    /\ Around(j, r + 1, j.got - 1, im, d, SizeOf(j, j.min - 1, "X"))

\* A pass has yet to take these rows, or these columns, of resolution r.
RowsHalfway(j, r, d, im, left) ==
    \A x \in Columns(j, r), y \in Rows(j, r) :
        Word(d, SizeOf(j, j.min - 1, "X"), x, y) =
            IF y \in left THEN Taken(j, r, im[r])[<<x, y>>] ELSE ColumnsTaken(j, r, im[r])[<<x, y>>]
ColumnsHalfway(j, r, d, im, left) ==
    \A x \in Columns(j, r), y \in Rows(j, r) :
        Word(d, SizeOf(j, j.min - 1, "X"), x, y) =
            IF x \in left THEN ColumnsTaken(j, r, im[r])[<<x, y>>] ELSE im[r][<<x, y>>]

\* The lines a pass has left.
LinesLeft(unit, s, total) == {l \in 0 .. total - 1 : Undone(unit, s, total, l)}
RowsUnderway(j, r, d, im, s, unit) ==
    /\ Divided(s, SizeOf(j, r, "Y") \div unit)
    /\ RowsHalfway(j, r, d, im, LinesLeft(unit, s, SizeOf(j, r, "Y")))
ColumnsUnderway(j, r, d, im, s, unit) ==
    /\ Divided(s, SizeOf(j, r, "X") \div unit)
    /\ ColumnsHalfway(j, r, d, im, LinesLeft(unit, s, SizeOf(j, r, "X")))

\* Where a window, and not the whole tile, is decoded.
WindowStages == {"wrows", "wcolumns", "read"}

\* The inductive invariant.
WholeInv ==
    /\ job \in Jobs
    /\ stage \in {"encode", "rows", "columns", "done"} \cup WindowStages
    /\ stage \in {"rows", "columns"} => WholeTile
    /\ stage \in WindowStages => ~WholeTile
    /\ stage = "encode" => TakenApart(job, res, data, images)
    /\ stage \in {"rows", "columns"} => Underway(job, res, data, images)
    /\ stage = "rows" => RowsUnderway(job, res, data, images, todo, Unit)
    /\ stage = "columns" => ColumnsUnderway(job, res, data, images, todo, Unit)
    /\ stage = "done" /\ WholeTile => Corner(job, job.got - 1, images[job.got - 1], data, SizeOf(job, job.min - 1, "X"))

\* Min of a set of natural numbers is its least one.
LEMMA LeastElement ==
    ASSUME NEW S \in SUBSET Nat, S # {}
    PROVE  Min(S) \in S /\ \A y \in S : Min(S) <= y
<1> DEFINE T == {n \in Nat : \E y \in S : y <= n}
<1>1. \E x \in S : \A y \in S : x <= y
  <2> SUFFICES ASSUME \A x \in S : \E y \in S : y < x PROVE FALSE
      OBVIOUS
  <2> DEFINE F == {n \in Nat : \A x \in S : n < x}
  <2>1. 0 \in F
      OBVIOUS
  <2>2. ASSUME NEW n \in Nat, n \in F PROVE n + 1 \in F
    <3>1. \A x \in S : n + 1 < x
      <4> TAKE x \in S
      <4>1. PICK y \in S : y < x
          OBVIOUS
      <4>2. n < y
          BY <2>2
      <4> QED BY <4>1, <4>2
    <3> QED BY <3>1
  <2>3. Nat \subseteq F
    <3> HIDE DEF F
    <3> QED BY <2>1, <2>2, SetInduction
  <2>4. PICK x \in S : TRUE
      OBVIOUS
  <2>5. x \in F
      BY <2>3
  <2> QED BY <2>5
<1> QED BY <1>1 DEF Min

\* The part of a band around u that is a code-block holds u.
LEMMA BlockAround ==
    ASSUME NEW first \in Int, NEW end \in Int, NEW u \in Int, first <= u, u < end, NEW side \in Nat \ {0}
    PROVE  /\ Max({first, (u \div side) * side}) \in Int /\ Max({first, (u \div side) * side}) <= u
           /\ Min({end, (u \div side + 1) * side}) \in Int /\ Min({end, (u \div side + 1) * side}) > u
<1> DEFINE d == u \div side
           m == u % side
<1>1. d \in Int /\ m \in 0 .. side - 1 /\ u = side * d + m
    OBVIOUS
<1> HIDE DEF d, m
<1>2. PICK x \in Int, y \in Int : x = d * side /\ y = (d + 1) * side
    BY <1>1
<1>3. y = x + side /\ x = side * d
    BY <1>1, <1>2
<1>4. x <= u /\ u < y
    BY <1>1, <1>3
<1>5. Max({first, x}) \in Int /\ Max({first, x}) <= u
    BY <1>4, MaxOfTwo
<1>6. Min({end, y}) \in Int /\ Min({end, y}) > u
    BY <1>4, MinOfTwo
<1> QED BY <1>2, <1>5, <1>6 DEF d

\* Two numbers less than p apart, rounded up on the grid of a band with a
\* positive offset off below p, 0 for what is not past the offset.
LEMMA Rounded ==
    ASSUME NEW p \in Nat \ {0}, NEW off \in 0 .. p - 1, NEW v \in Nat, NEW w \in Nat, v <= w, w < v + p
    PROVE  /\ CeilDiv(v - off, p) \in Nat /\ CeilDiv(w - off, p) \in Nat
           /\ CeilDiv(w - off, p) <= CeilDiv(v - off, p) + 1
           /\ v <= off => CeilDiv(w - off, p) <= 1
<1>1. CeilDiv(v - off, p) \in Nat /\ CeilDiv(w - off, p) \in Nat
    BY CeilDivNat
<1>2. CeilDiv(w - off, p) <= CeilDiv(v - off, p) + 1
    BY CeilDivNear
<1>3. ASSUME v <= off PROVE CeilDiv(w - off, p) <= 1
  <2>1. CeilDiv(0, p) = 0
    <3>1. p * 0 >= 0 /\ p * 0 < 0 + p
        OBVIOUS
    <3> QED BY <3>1, CeilDivUnique
  <2>2. w - off < 0 + p
      BY <1>3
  <2>3. CeilDiv(w - off, p) <= CeilDiv(0, p) + 1
      BY <2>2, CeilDivNear
  <2> QED BY <2>1, <2>3
<1> QED BY <1>1, <1>2, <1>3

\* What of a band reaches the window of a whole tile.
LEMMA BandReached ==
    ASSUME job \in Jobs, WholeTile, NEW a \in Axes, NEW r \in 0 .. job.got - 1, NEW high \in {0, 1}, r = 0 => high = 0
    PROVE  /\ BandFirst(r, high, a) \in Nat /\ BandEnd(r, high, a) \in Nat
           /\ BandCoord(job.win.hi[a], r, high) \in Nat
           /\ BandEnd(r, high, a) <= BandCoord(job.win.hi[a], r, high) + 1
           /\ BandCoord(job.win.lo[a], r, high) \in Nat
           /\ BandCoord(job.win.lo[a], r, high) <= BandFirst(r, high, a) + 1
<1>1. PICK n \in Nat \ {0} : n = N
    BY ComponentExtent DEF N, Levels
<1>2. PICK min \in 1 .. n : min = job.min /\ job.got \in 1 .. min
    BY <1>1, JobsAssumption DEF N
<1>3. PICK l \in Nat, h \in Nat, wl \in Nat, wh \in Nat :
          /\ l = CompLo(job.tile, 0, a) /\ h = CompHi(job.tile, 0, a)
          /\ wl = job.win.lo[a] /\ wh = job.win.hi[a]
          /\ l <= wl /\ wh <= h
    BY JobsAssumption, ComponentExtent
<1>4. PICK nb \in Nat : nb = IF r = 0 THEN n - 1 ELSE n - r
  <2>1. r \in Nat /\ r <= n /\ r \in Int
      BY <1>2
  <2>2. CASE r = 0
    <3>1. n - 1 \in Nat
        OBVIOUS
    <3> QED BY <2>2, <3>1
  <2>3. CASE r # 0
    <3>1. n - r \in Nat
        BY <2>1
    <3> QED BY <2>3, <3>1
  <2> QED BY <2>2, <2>3
<1>5. n - min \in Nat /\ n - min <= nb
    BY <1>2, <1>4
<1>6. PICK p \in Nat \ {0} : p = 2^nb
  <2>1. 2^nb \in Nat /\ 2^nb >= 1
      BY PowerPositive
  <2> QED BY <2>1
<1>7. PICK e \in Nat \ {0} : e = 2^(n - min) /\ e <= p
  <2>1. 2^(n - min) \in Nat /\ 2^(n - min) >= 1 /\ 2^(n - min) <= 2^nb
      BY <1>5, PowerPositive, PowerMonotone
  <2>2. 2^(n - min) \in Nat \ {0}
      BY <2>1
  <2> QED BY <1>6, <2>1, <2>2, Zenon
<1>8. PICK off \in 0 .. p - 1 : /\ off = IF nb = 0 THEN 0 ELSE 2^(nb - 1) * high
                                /\ nb = 0 => off = 0
  <2>1. CASE nb = 0
      BY <2>1
  <2>2. CASE nb # 0
    <3>1. nb - 1 \in Nat /\ nb - 1 + 1 = nb
        BY <2>2
    <3>2. PICK q \in Nat : q = 2^(nb - 1) /\ q >= 1
        BY <3>1, PowerPositive
    <3>3. p = q + q
        BY <1>6, <3>1, <3>2, PowerDoubles
    <3>4. q * high = IF high = 0 THEN 0 ELSE q
        OBVIOUS
    <3>5. q * high \in 0 .. p - 1
        BY <3>2, <3>3, <3>4
    <3> QED BY <2>2, <3>2, <3>5
  <2> QED BY <2>1, <2>2
<1>9. BandFirst(r, high, a) = CeilDiv(l - off, p) /\ BandEnd(r, high, a) = CeilDiv(h - off, p)
  <2>1. CASE r = 0
    <3>1. off = 0
      <4>1. nb # 0 => 2^(nb - 1) * 0 = 0
        <5>1. nb # 0 => 2^(nb - 1) \in Nat
          <6>1. nb # 0 => nb - 1 \in Nat
              OBVIOUS
          <6> QED BY <6>1, PowerPositive
        <5> QED BY <5>1
      <4> QED BY <1>8, <2>1, <4>1
    <3>2. Level(job.tile, 0, 0) = nb
        BY <1>1, <1>4, <2>1 DEF Level, N
    <3>3. BandFirst(0, high, a) = CeilDiv(l, p) /\ BandEnd(0, high, a) = CeilDiv(h, p)
        BY <1>3, <1>6, <3>2 DEF BandFirst, BandEnd, Lo, ResLo, ResHi, CeilDivPow2
    <3>4. l - off = l /\ h - off = h
        BY <3>1
    <3> QED BY <2>1, <3>3, <3>4
  <2>2. CASE r # 0
    <3>1. PICK lev \in Nat : lev = Level(job.tile, 0, r) /\ lev = nb - 1 /\ lev + 1 = nb /\ nb # 0
        BY <1>1, <1>2, <1>4, <2>2 DEF Level, N
    <3>2. off = 2^lev * high
        BY <1>8, <3>1
    <3>3. PICK q \in Nat : q = 2^lev
        BY PowerPositive
    <3>4. off = high * q
        BY <3>2, <3>3
    <3>5. /\ BandLo(job.tile, 0, r, high, a) = CeilDiv(l - high * 2^lev, 2^(lev + 1))
          /\ BandHi(job.tile, 0, r, high, a) = CeilDiv(h - high * 2^lev, 2^(lev + 1))
        BY <1>3, <3>1 DEF BandLo, BandHi
    <3>6. 2^(lev + 1) = p
        BY <1>6, <3>1
    <3>7. /\ BandLo(job.tile, 0, r, high, a) = CeilDiv(l - off, p)
          /\ BandHi(job.tile, 0, r, high, a) = CeilDiv(h - off, p)
        BY <3>3, <3>4, <3>5, <3>6
    <3> QED BY <2>2, <3>7 DEF BandFirst, BandEnd
  <2> QED BY <2>1, <2>2
<1>10. \A v : BandCoord(v, r, high) = IF nb > 0 /\ v <= off THEN 0 ELSE CeilDiv(v - off, p)
    BY <1>1, <1>4, <1>6, <1>8 DEF BandCoord, CeilDivPow2
<1>11. Lo(N - 1, a) = l /\ ResHi(job.tile, 0, N - 1, a) = h
  <2>1. Level(job.tile, 0, N - 1) = 0
      BY <1>1 DEF Level, N
  <2>2. 2^0 = 1
      OBVIOUS
  <2>3. CeilDiv(l, 1) = l /\ CeilDiv(h, 1) = h
      BY DEF CeilDiv
  <2> QED BY <1>3, <2>1, <2>2, <2>3 DEF Lo, ResLo, ResHi, CeilDivPow2
<1>12. wl < l + e /\ h < wh + e
  <2>1. (wl - l) \div e = 0 /\ (h - wh) \div e = 0
      BY <1>1, <1>2, <1>3, <1>7, <1>11 DEF WholeTile
  <2>2. ASSUME NEW x \in Int, x \div e = 0 PROVE x < e
    <3> DEFINE d == x \div e
               m == x % e
    <3>1. d \in Int /\ m \in 0 .. e - 1 /\ x = e * d + m
        OBVIOUS
    <3>2. d = 0
        BY <2>2
    <3> HIDE DEF d, m
    <3>3. e * d = 0
        BY <3>2
    <3> QED BY <3>1, <3>3
  <2>3. wl - l < e /\ h - wh < e
      BY <2>1, <2>2
  <2> QED BY <2>3
<1>13. /\ CeilDiv(wh - off, p) \in Nat /\ CeilDiv(h - off, p) \in Nat
       /\ CeilDiv(h - off, p) <= CeilDiv(wh - off, p) + 1
       /\ wh <= off => CeilDiv(h - off, p) <= 1
  <2>1. h < wh + p
      BY <1>7, <1>12
  <2> QED BY <1>3, <2>1, Rounded
<1>14. /\ CeilDiv(l - off, p) \in Nat /\ CeilDiv(wl - off, p) \in Nat
       /\ CeilDiv(wl - off, p) <= CeilDiv(l - off, p) + 1
  <2>1. wl < l + p
      BY <1>7, <1>12
  <2> QED BY <1>3, <2>1, Rounded
<1> QED BY <1>3, <1>9, <1>10, <1>13, <1>14

-----------------------------------------------------------------------------
(* What is delivered of a whole tile.                                      *)

\* The names of the specification are those for the job at hand.
LEMMA OfThisJob ==
    ASSUME TRUE
    PROVE  /\ N = Levels(job) /\ Stride = SizeOf(job, job.min - 1, "X")
           /\ \A r, a : Lo(r, a) = LoOf(job, r, a) /\ Size(r, a) = SizeOf(job, r, a) /\ Cas(r, a) = CasOf(job, r, a)
BY DEF N, Levels, Stride, Size, SizeOf, Lo, LoOf, HiOf, Cas, CasOf

\* What places are columns and rows of a band, along one axis.
LEMMA PlaceOnBand ==
    ASSUME job \in Jobs, NEW a \in Axes, NEW r \in 0 .. Levels(job) - 1, NEW c \in 0 .. SizeOf(job, r, a) - 1,
           NEW high, high = IF r > 0 /\ c >= SizeOf(job, r - 1, a) THEN 1 ELSE 0,
           NEW u, u = BandFirst(r, high, a) + c - high * SizeOf(job, IF r = 0 THEN 0 ELSE r - 1, a)
    PROVE  u \in Int /\ BandFirst(r, high, a) \in Int /\ BandEnd(r, high, a) \in Int
           /\ BandFirst(r, high, a) <= u /\ u < BandEnd(r, high, a)
<1>1. PICK n \in Nat \ {0} : n = Levels(job)
    BY ComponentExtent
<1>2. PICK l \in Nat, h \in Nat : l = LoOf(job, r, a) /\ h = HiOf(job, r, a) /\ l <= h
    BY ResolutionExtent
<1>3. SizeOf(job, r, a) = h - l /\ c \in Int /\ 0 <= c /\ c < h - l
    BY <1>2 DEF SizeOf
<1>4. CASE r = 0
  <2>1. high = 0 /\ 0 * SizeOf(job, 0, a) = 0
    <3>1. SizeOf(job, 0, a) \in Nat
        BY <1>1, SizeType
    <3> QED BY <1>4, <3>1
  <2>2. BandFirst(r, high, a) = l /\ BandEnd(r, high, a) = h
      BY <1>2, <1>4 DEF BandFirst, BandEnd, Lo, LoOf, HiOf
  <2>3. u = l + c - 0
      BY <1>4, <2>1, <2>2
  <2> QED BY <1>3, <2>2, <2>3
<1>5. CASE r > 0
  <2>1. r \in 1 .. Levels(job) - 1 /\ r - 1 \in 0 .. Levels(job) - 1 /\ r # 0
      BY <1>1, <1>5
  <2>2. PICK k \in Nat, m \in Nat : k = LoOf(job, r - 1, a) /\ m = HiOf(job, r - 1, a) /\ k <= m
      BY <2>1, ResolutionExtent
  <2>3. SizeOf(job, r - 1, a) = m - k
      BY <2>2 DEF SizeOf
  <2>4. k = (l + 1) \div 2 /\ m = (h + 1) \div 2
      BY <1>2, <2>1, <2>2, ResolutionHalved
  <2>5. /\ BandFirst(r, 1, a) = l \div 2 /\ BandEnd(r, 1, a) = h \div 2
        /\ BandFirst(r, 0, a) = k /\ BandEnd(r, 0, a) = m
      BY <1>2, <2>1, <2>2, ResolutionHalved DEF BandFirst, BandEnd
  <2>6. u = BandFirst(r, high, a) + c - high * (m - k)
      BY <2>1, <2>3
  <2>7. CASE c >= m - k
    <3>1. high = 1
        BY <1>5, <2>3, <2>7
    <3>2. u = l \div 2 + c - (m - k)
        BY <2>5, <2>6, <3>1
    <3> QED BY <1>2, <1>3, <2>4, <2>5, <2>7, <3>1, <3>2
  <2>8. CASE ~(c >= m - k)
    <3>1. high = 0
        BY <1>5, <2>3, <2>8
    <3>2. u = k + c
        BY <2>5, <2>6, <3>1
    <3> QED BY <1>3, <2>2, <2>5, <2>8, <3>1, <3>2
  <2> QED BY <2>7, <2>8
<1> QED BY <1>4, <1>5

\* The code-block around any place of the picture decoded is of interest to
\* the window of a whole tile, along either axis.
LEMMA BlockWanted ==
    ASSUME job \in Jobs, WholeTile, NEW a \in Axes, NEW r \in 0 .. job.got - 1,
           NEW c \in 0 .. SizeOf(job, r, a) - 1,
           NEW high, high = IF r > 0 /\ c >= SizeOf(job, r - 1, a) THEN 1 ELSE 0,
           NEW u, u = BandFirst(r, high, a) + c - high * SizeOf(job, IF r = 0 THEN 0 ELSE r - 1, a)
    PROVE  /\ BlockLo(r, high, a, u) < BandCoord(job.win.hi[a], r, high) + FilterMargin
           /\ BlockHi(r, high, a, u) > Less(BandCoord(job.win.lo[a], r, high), FilterMargin)
<1>1. r \in 0 .. Levels(job) - 1
  <2>1. job.min \in 1 .. Levels(job) /\ job.got \in 1 .. job.min /\ Levels(job) \in Nat
      BY ComponentExtent, JobsAssumption DEF Levels
  <2> QED BY <2>1
<1>2. PICK first \in Int, end \in Int :
          first = BandFirst(r, high, a) /\ end = BandEnd(r, high, a) /\ u \in Int /\ first <= u /\ u < end
    BY <1>1, PlaceOnBand
<1>3. PICK side \in Nat \ {0} : side = BlockSide(r, a)
  <2>1. Resolutions(job.tile, 0) = 0 .. Levels(job) - 1
      BY JobsAssumption DEF IsComponent, Levels
  <2>2. PICK pd \in Nat : pd = job.tile.comps[0].pd[r][a] /\ (r > 0 => pd > 0)
      BY <1>1, <2>1, JobsAssumption DEF IsComponent
  <2>3. PICK e \in Nat : e = pd - IF r = 0 THEN 0 ELSE 1
    <3>1. CASE r = 0
        BY <3>1
    <3>2. CASE r # 0
      <4>1. r > 0
          BY <3>2
      <4>2. pd - 1 \in Nat
          BY <2>2, <4>1
      <4> QED BY <3>2, <4>2
    <3> QED BY <3>1, <3>2
  <2>4. 2^e \in Nat /\ 2^e >= 1
      BY PowerPositive
  <2>5. BlockSide(r, a) = 2^e
      BY <2>2, <2>3 DEF BlockSide
  <2> QED BY <2>4, <2>5
<1>4. PICK lo \in Int, hi \in Int : lo = BlockLo(r, high, a, u) /\ hi = BlockHi(r, high, a, u) /\ lo <= u /\ hi > u
  <2>1. /\ Max({first, (u \div side) * side}) \in Int /\ Max({first, (u \div side) * side}) <= u
        /\ Min({end, (u \div side + 1) * side}) \in Int /\ Min({end, (u \div side + 1) * side}) > u
    <3>1. first <= u /\ u < end /\ u \in Int
        BY <1>2
    <3> QED BY <3>1, BlockAround, Zenon
  <2> QED BY <1>2, <1>3, <2>1 DEF BlockLo, BlockHi
<1>5. high \in {0, 1} /\ (r = 0 => high = 0)
    OBVIOUS
<1>6. PICK bh \in Nat, bl \in Nat :
          /\ bh = BandCoord(job.win.hi[a], r, high) /\ bl = BandCoord(job.win.lo[a], r, high)
          /\ first >= 0 /\ end <= bh + 1 /\ bl <= first + 1
    BY <1>2, <1>5, BandReached
<1>7. PICK m \in {2, 3} : m = FilterMargin
    BY DEF FilterMargin
<1>8. lo < bh + m
    BY <1>2, <1>4, <1>6
<1>9. hi > Less(bl, m)
    BY <1>2, <1>4, <1>6 DEF Less
<1> QED BY <1>4, <1>6, <1>7, <1>8, <1>9

\* Everything of the picture decoded is delivered to a whole tile.
THEOREM Delivery ==
    ASSUME job \in Jobs, WholeTile, NEW x \in Columns(job, job.got - 1), NEW y \in Rows(job, job.got - 1)
    PROVE  Arrived(<<x, y>>)
<1> DEFINE p == <<x, y>>
           S == {r \in 0 .. N - 1 : \A a \in Axes : Coord(p, a) < Size(r, a)}
<1>1. PICK n \in Nat : n = N /\ n = Levels(job) /\ job.got \in 1 .. n /\ job.got - 1 \in 0 .. n - 1
  <2>1. job.min \in 1 .. Levels(job) /\ job.got \in 1 .. job.min /\ Levels(job) \in Nat
      BY JobsAssumption DEF IsComponent, Levels
  <2> QED BY <2>1, OfThisJob
<1>2. \A a \in Axes : /\ SizeOf(job, job.got - 1, a) \in Nat
                      /\ Coord(p, a) \in 0 .. SizeOf(job, job.got - 1, a) - 1
    BY <1>1, SizeType DEF Coord, Axes, Columns, Rows
<1>3. job.got - 1 \in S
    BY <1>1, <1>2, OfThisJob
<1>4. PICK r \in S : r = ResOf(p) /\ r <= job.got - 1
  <2>1. S \subseteq Nat
      OBVIOUS
  <2>2. ResOf(p) = Min(S)
      BY DEF ResOf
  <2> HIDE DEF S
  <2>3. Min(S) \in S /\ Min(S) <= job.got - 1
      BY <1>3, <2>1, LeastElement
  <2> QED BY <2>2, <2>3
<1>5. r \in 0 .. job.got - 1
    BY <1>1, <1>4
<1>6. \A a \in Axes : Coord(p, a) \in 0 .. SizeOf(job, r, a) - 1
  <2> TAKE a \in Axes
  <2>1. r \in 0 .. Levels(job) - 1
      BY <1>1, <1>4
  <2>2. SizeOf(job, r, a) \in Nat
      BY <2>1, SizeType
  <2>3. Coord(p, a) < SizeOf(job, r, a)
      BY <1>4, OfThisJob
  <2> QED BY <1>2, <2>2, <2>3
<1> DEFINE high == HighAt(p, r)
           u == OnBand(p, r, high)
<1>7. \A a \in Axes : /\ high[a] = IF r > 0 /\ Coord(p, a) >= SizeOf(job, r - 1, a) THEN 1 ELSE 0
                      /\ u[a] = BandFirst(r, high[a], a) + Coord(p, a)
                                - high[a] * SizeOf(job, IF r = 0 THEN 0 ELSE r - 1, a)
    BY OfThisJob DEF HighAt, OnBand
<1>8. Arrived(p) = Decoded(r, high, u)
    BY <1>4 DEF Arrived
<1> HIDE DEF high, u, p, S
<1>9. ASSUME NEW a \in Axes
      PROVE  /\ BlockLo(r, high[a], a, u[a]) < BandCoord(job.win.hi[a], r, high[a]) + FilterMargin
             /\ BlockHi(r, high[a], a, u[a]) > Less(BandCoord(job.win.lo[a], r, high[a]), FilterMargin)
    BY <1>5, <1>6, <1>7, BlockWanted
<1>10. OfInterest(r, high, [a \in Axes |-> BlockLo(r, high[a], a, u[a])], [a \in Axes |-> BlockHi(r, high[a], a, u[a])])
    BY <1>9 DEF OfInterest
<1>11. r < job.got
    BY <1>1, <1>5
<1> QED BY <1>8, <1>10, <1>11 DEF Decoded, p

-----------------------------------------------------------------------------
(* The encoder.                                                            *)

\* No resolution that is halved is empty across and begins at an odd column: the 5/3 filter of the
\* encoder writes over a sample there (EmptyRow; dwt53.go:321).
NoEmptyRow(j) ==
    j.filter = "5/3" => \A r \in 1 .. Levels(j) - 1 : ~(SizeOf(j, r, "X") = 0 /\ CasOf(j, r, "X") = 1)

\* A lower resolution lies within a higher one.
LEMMA Nested ==
    ASSUME NEW j \in Jobs, NEW s \in 0 .. Levels(j) - 1, NEW r \in 0 .. s
    PROVE  Columns(j, r) \subseteq Columns(j, s) /\ Rows(j, r) \subseteq Rows(j, s)
<1>1. "X" \in Axes /\ "Y" \in Axes
    BY DEF Axes
<1>2. Levels(j) \in Nat
    BY <1>1, ComponentExtent
<1>3. r \in 0 .. Levels(j) - 1
    BY <1>2
<1>4. SizeOf(j, r, "X") <= SizeOf(j, s, "X") /\ SizeOf(j, r, "Y") <= SizeOf(j, s, "Y")
    BY <1>1, SizeMonotone
<1>5. /\ SizeOf(j, r, "X") \in Nat /\ SizeOf(j, s, "X") \in Nat
      /\ SizeOf(j, r, "Y") \in Nat /\ SizeOf(j, s, "Y") \in Nat
    BY <1>1, <1>3, SizeType
<1> QED BY <1>4, <1>5 DEF Columns, Rows

\* One level of the encoder.
LEMMA LevelEncoded ==
    ASSUME NEW j \in Jobs, NoEmptyRow(j), NEW r \in 1 .. Levels(j) - 1, NEW d, NEW im, TakenApart(j, r, d, im),
           NEW w, w = SizeOf(j, Levels(j) - 1, "X"),
           NEW e, e = ForwardRows(j.filter, ForwardColumns(j.filter, d, w, SizeOf(j, r, "X"), SizeOf(j, r, "Y"),
                                                           CasOf(j, r, "Y")),
                                  w, SizeOf(j, r, "Y"), SizeOf(j, r, "X"), CasOf(j, r, "X"))
    PROVE  /\ e \in Buffers(j.filter, w, SizeOf(j, Levels(j) - 1, "Y"))
           /\ \A x \in 0 .. w - 1, y \in Rows(j, Levels(j) - 1) :
                  Word(e, w, x, y) = IF x \in Columns(j, r) /\ y \in Rows(j, r) THEN Taken(j, r, im[r])[<<x, y>>]
                                     ELSE Word(d, w, x, y)
<1>1. "X" \in Axes /\ "Y" \in Axes
    BY DEF Axes
<1>2. PICK n \in Nat \ {0} : n = Levels(j) /\ n - 1 \in 0 .. n - 1 /\ r \in 0 .. n - 1 /\ r \in 0 .. (n - 1)
    BY <1>1, ComponentExtent
<1>3. PICK h \in Nat, rw \in Nat, rh \in Nat, cx \in {0, 1}, cy \in {0, 1} :
          /\ w \in Nat /\ h = SizeOf(j, n - 1, "Y")
          /\ rw = SizeOf(j, r, "X") /\ rh = SizeOf(j, r, "Y")
          /\ cx = CasOf(j, r, "X") /\ cy = CasOf(j, r, "Y")
    BY <1>1, <1>2, SizeType
<1>4. rw \in 0 .. w /\ rh \in 0 .. h
  <2>1. rw <= w /\ rh <= h
      BY <1>1, <1>2, <1>3, SizeMonotone
  <2> QED BY <1>3, <2>1
<1>5. PICK filter \in Filters : filter = j.filter
    BY JobsAssumption
<1>6. PICK img \in Pictures(filter, rw, rh) : img = im[r]
    BY <1>2, <1>3, <1>5 DEF TakenApart, Kept
<1>7. d \in Buffers(filter, w, h)
    BY <1>2, <1>3, <1>5 DEF TakenApart
<1>8. Placed(d, w, img, rw, rh)
    BY <1>2, <1>3, <1>6 DEF TakenApart, Corner, Columns, Rows, Placed
<1>9. RowsSpared(filter, rw, cx)
    BY <1>3, <1>5 DEF NoEmptyRow, RowsSpared
<1>10. LevelFrom(filter, e, d, w, rw, rh, cx, cy)
    BY <1>3, <1>5 DEF LevelFrom
<1>11. LevelForwarded(filter, e, d, w, h, img, rw, rh, cx, cy)
  <2>1. w \in Nat
      BY <1>3
  <2> QED BY <2>1, <1>4, <1>7, <1>8, <1>9, <1>10, LevelTransformed, SMT
<1>12. Taken(j, r, im[r]) = Rowed(filter, Columned(filter, img, rw, rh, cy), rw, rh, cx)
    BY <1>3, <1>5, <1>6 DEF Taken, ColumnsTaken
<1>13. \A x \in 0 .. w - 1, y \in 0 .. h - 1 :
           Word(e, w, x, y) = IF x < rw /\ y < rh THEN Taken(j, r, im[r])[<<x, y>>] ELSE Word(d, w, x, y)
    BY <1>11, <1>12 DEF LevelForwarded
<1>14. /\ \A x \in 0 .. w - 1 : x < rw <=> x \in Columns(j, r)
       /\ \A y \in 0 .. h - 1 : y < rh <=> y \in Rows(j, r)
       /\ Rows(j, n - 1) = 0 .. h - 1
    BY <1>3 DEF Columns, Rows
<1>15. \A x \in 0 .. w - 1, y \in Rows(j, n - 1) :
           Word(e, w, x, y) = IF x \in Columns(j, r) /\ y \in Rows(j, r) THEN Taken(j, r, im[r])[<<x, y>>]
                              ELSE Word(d, w, x, y)
  <2> TAKE x \in 0 .. w - 1, y \in Rows(j, n - 1)
  <2>1. y \in 0 .. h - 1
      BY <1>14
  <2>2. /\ Word(e, w, x, y) = IF x < rw /\ y < rh THEN Taken(j, r, im[r])[<<x, y>>] ELSE Word(d, w, x, y)
        /\ x < rw <=> x \in Columns(j, r)
        /\ y < rh <=> y \in Rows(j, r)
      BY <1>13, <1>14, <2>1, Zenon
  <2> QED BY <2>2
<1> QED BY <1>2, <1>3, <1>5, <1>11, <1>15 DEF LevelForwarded

\* The corner of buffer e kept as the picture of resolution r - 1, in im2.
CornerKept(j, r, e, im, im2) ==
    im2 = [im EXCEPT ![r - 1] = [p \in Plane(SizeOf(j, r - 1, "X"), SizeOf(j, r - 1, "Y")) |->
                                    e[p[2] * SizeOf(j, Levels(j) - 1, "X") + p[1]]]]

\* im2 is im but for the corner of e that the next level takes apart.
CornerTaken(j, r, e, im, im2) ==
    /\ DOMAIN im2 = 0 .. Levels(j) - 1
    /\ \A k \in 0 .. Levels(j) - 1 : k # r - 1 => im2[k] = im[k]
    /\ im2[r - 1] \in Pictures(j.filter, SizeOf(j, r - 1, "X"), SizeOf(j, r - 1, "Y"))
    /\ Corner(j, r - 1, im2[r - 1], e, SizeOf(j, Levels(j) - 1, "X"))

\* What the encoder keeps of a level is that.
LEMMA CornerKeptAt ==
    ASSUME NEW j \in Jobs, NEW r \in 1 .. Levels(j) - 1, NEW e, NEW im, DOMAIN im = 0 .. Levels(j) - 1,
           e \in Buffers(j.filter, SizeOf(j, Levels(j) - 1, "X"), SizeOf(j, Levels(j) - 1, "Y")),
           NEW im2, CornerKept(j, r, e, im, im2)
    PROVE  CornerTaken(j, r, e, im, im2)
<1>1. PICK n \in Nat \ {0} : n = Levels(j)
  <2>1. "X" \in Axes
      BY DEF Axes
  <2> QED BY <2>1, ComponentExtent
<1>2. r - 1 \in 0 .. n - 1 /\ n - 1 \in 0 .. n - 1 /\ r - 1 \in 0 .. (n - 1)
    BY <1>1
<1>3. PICK w \in Nat, h \in Nat : w = SizeOf(j, n - 1, "X") /\ h = SizeOf(j, n - 1, "Y")
    BY <1>1, <1>2, SizeType DEF Axes
<1>4. PICK pic : pic = [p \in Plane(SizeOf(j, r - 1, "X"), SizeOf(j, r - 1, "Y")) |-> e[p[2] * w + p[1]]]
    OBVIOUS
<1>5. im2 = [im EXCEPT ![r - 1] = pic]
    BY <1>1, <1>3, <1>4 DEF CornerKept
<1>6. DOMAIN im2 = DOMAIN im /\ im2[r - 1] = pic /\ \A k \in DOMAIN im : k # r - 1 => im2[k] = im[k]
    BY <1>1, <1>2, <1>5
<1>7. Plane(SizeOf(j, r - 1, "X"), SizeOf(j, r - 1, "Y")) = Columns(j, r - 1) \X Rows(j, r - 1)
    BY DEF Plane, Columns, Rows
<1>8. \A x \in Columns(j, r - 1), y \in Rows(j, r - 1) : pic[<<x, y>>] = Word(e, w, x, y)
    BY <1>4, <1>7 DEF Word
<1>9. Columns(j, r - 1) \subseteq 0 .. w - 1 /\ Rows(j, r - 1) \subseteq 0 .. h - 1
    BY <1>1, <1>2, <1>3, Nested DEF Columns, Rows
<1>10. e \in [0 .. w * h - 1 -> Values(j.filter)]
    BY <1>1, <1>3 DEF Buffers
<1>11. \A x \in Columns(j, r - 1), y \in Rows(j, r - 1) : Word(e, w, x, y) \in Values(j.filter)
  <2> TAKE x \in Columns(j, r - 1), y \in Rows(j, r - 1)
  <2>1. y * w + x \in 0 .. w * h - 1
      BY <1>9, IndexOf
  <2> QED BY <1>10, <2>1 DEF Word
<1>12. pic \in Pictures(j.filter, SizeOf(j, r - 1, "X"), SizeOf(j, r - 1, "Y"))
  <2>1. \A p \in Columns(j, r - 1) \X Rows(j, r - 1) : e[p[2] * w + p[1]] \in Values(j.filter)
      BY <1>11 DEF Word
  <2> QED BY <1>4, <1>7, <2>1 DEF Pictures
<1>13. Corner(j, r - 1, pic, e, w)
    BY <1>8 DEF Corner
<1> QED BY <1>1, <1>3, <1>6, <1>12, <1>13 DEF CornerTaken

\* The encoder's invariant is kept by a level.
LEMMA EncodeStep ==
    ASSUME NEW j \in Jobs, NoEmptyRow(j), NEW r \in 1 .. Levels(j) - 1, NEW d, NEW im, TakenApart(j, r, d, im),
           NEW w, w = SizeOf(j, Levels(j) - 1, "X"),
           NEW e, e = ForwardRows(j.filter, ForwardColumns(j.filter, d, w, SizeOf(j, r, "X"), SizeOf(j, r, "Y"),
                                                           CasOf(j, r, "Y")),
                                  w, SizeOf(j, r, "Y"), SizeOf(j, r, "X"), CasOf(j, r, "X")),
           NEW im2, CornerKept(j, r, e, im, im2)
    PROVE  TakenApart(j, r - 1, e, im2)
<1>1. PICK n \in Nat \ {0} : n = Levels(j)
  <2>1. "X" \in Axes
      BY DEF Axes
  <2> QED BY <2>1, ComponentExtent
<1>2. /\ e \in Buffers(j.filter, w, SizeOf(j, Levels(j) - 1, "Y"))
      /\ \A x \in 0 .. w - 1, y \in Rows(j, Levels(j) - 1) :
             Word(e, w, x, y) = IF x \in Columns(j, r) /\ y \in Rows(j, r) THEN Taken(j, r, im[r])[<<x, y>>]
                                ELSE Word(d, w, x, y)
    BY LevelEncoded
<1>3. DOMAIN im = 0 .. n - 1 /\ Kept(j, r, im) /\ Around(j, r + 1, n - 1, im, d, w)
    BY <1>1 DEF TakenApart
<1>4. /\ DOMAIN im2 = 0 .. n - 1
      /\ \A k \in 0 .. n - 1 : k # r - 1 => im2[k] = im[k]
      /\ im2[r - 1] \in Pictures(j.filter, SizeOf(j, r - 1, "X"), SizeOf(j, r - 1, "Y"))
      /\ Corner(j, r - 1, im2[r - 1], e, w)
  <2>1. DOMAIN im = 0 .. Levels(j) - 1 /\ e \in Buffers(j.filter, SizeOf(j, Levels(j) - 1, "X"), SizeOf(j, Levels(j) - 1, "Y"))
      BY <1>1, <1>2, <1>3
  <2>2. CornerTaken(j, r, e, im, im2)
      BY <2>1, CornerKeptAt
  <2> QED BY <1>1, <2>2 DEF CornerTaken
<1>5. 0 .. w - 1 = Columns(j, n - 1)
    BY <1>1 DEF Columns
<1>6. \A x \in Columns(j, n - 1), y \in Rows(j, n - 1) :
          Word(e, w, x, y) = IF x \in Columns(j, r) /\ y \in Rows(j, r) THEN Taken(j, r, im[r])[<<x, y>>]
                             ELSE Word(d, w, x, y)
    BY <1>1, <1>2, <1>5, Zenon
<1>7. /\ Columns(j, r) \subseteq Columns(j, n - 1) /\ Rows(j, r) \subseteq Rows(j, n - 1)
      /\ Columns(j, r - 1) \subseteq Columns(j, r) /\ Rows(j, r - 1) \subseteq Rows(j, r)
    BY <1>1, Nested
<1>8. \A x \in Columns(j, r), y \in Rows(j, r) : Word(e, w, x, y) = Taken(j, r, im[r])[<<x, y>>]
    BY <1>6, <1>7
<1>9. Kept(j, r - 1, im2)
  <2>1. \A k \in r - 1 .. n - 1 : im2[k] \in Pictures(j.filter, SizeOf(j, k, "X"), SizeOf(j, k, "Y"))
    <3> TAKE k \in r - 1 .. n - 1
    <3>1. CASE k = r - 1
        BY <1>4, <3>1
    <3>2. CASE k # r - 1
      <4>1. k \in r .. n - 1 /\ k \in 0 .. n - 1
          BY <1>1, <3>2
      <4> QED BY <1>1, <1>3, <1>4, <3>2, <4>1 DEF Kept
    <3> QED BY <3>1, <3>2
  <2>2. \A k \in (r - 1) + 1 .. n - 1 : \A x \in Columns(j, k - 1), y \in Rows(j, k - 1) :
            im2[k - 1][<<x, y>>] = Taken(j, k, im2[k])[<<x, y>>]
    <3> TAKE k \in (r - 1) + 1 .. n - 1
    <3> TAKE x \in Columns(j, k - 1), y \in Rows(j, k - 1)
    <3>1. CASE k = r
      <4>1. im2[r - 1][<<x, y>>] = Word(e, w, x, y)
          BY <1>4, <3>1 DEF Corner
      <4>2. im2[r] = im[r]
          BY <1>1, <1>4
      <4>3. Word(e, w, x, y) = Taken(j, r, im[r])[<<x, y>>]
          BY <1>7, <1>8, <3>1
      <4> QED BY <3>1, <4>1, <4>2, <4>3
    <3>2. CASE k # r
      <4>1. /\ k \in r + 1 .. n - 1 /\ k \in 0 .. n - 1 /\ k - 1 \in 0 .. n - 1
            /\ k # r - 1 /\ k - 1 # r - 1
          BY <1>1, <3>2
      <4>2. im2[k] = im[k] /\ im2[k - 1] = im[k - 1]
          BY <1>4, <4>1
      <4>3. im[k - 1][<<x, y>>] = Taken(j, k, im[k])[<<x, y>>]
          BY <1>1, <1>3, <4>1 DEF Kept
      <4> QED BY <4>2, <4>3
    <3> QED BY <3>1, <3>2
  <2> QED BY <1>1, <2>1, <2>2 DEF Kept
<1>10. Around(j, (r - 1) + 1, n - 1, im2, e, w)
  <2> SUFFICES ASSUME NEW k \in (r - 1) + 1 .. n - 1, NEW x \in Columns(j, k), NEW y \in Rows(j, k),
                      x \notin Columns(j, k - 1) \/ y \notin Rows(j, k - 1)
               PROVE  Word(e, w, x, y) = Taken(j, k, im2[k])[<<x, y>>]
      BY DEF Around
  <2>1. CASE k = r
    <3>1. im2[r] = im[r]
        BY <1>1, <1>4
    <3> QED BY <1>8, <2>1, <3>1
  <2>2. CASE k # r
    <3>1. k \in r + 1 .. n - 1 /\ k \in 0 .. n - 1 /\ k - 1 \in 0 .. n - 1 /\ k # r - 1 /\ r \in 0 .. k - 1
          /\ k \in 0 .. (n - 1)
        BY <1>1, <2>2
    <3>2. im2[k] = im[k]
        BY <1>4, <3>1
    <3>3. Columns(j, r) \subseteq Columns(j, k - 1) /\ Rows(j, r) \subseteq Rows(j, k - 1)
        BY <1>1, <3>1, Nested
    <3>4. Columns(j, k) \subseteq Columns(j, n - 1) /\ Rows(j, k) \subseteq Rows(j, n - 1)
      <4>1. n - 1 \in 0 .. Levels(j) - 1 /\ k \in 0 .. n - 1
          BY <1>1, <3>1
      <4> QED BY <4>1, Nested
    <3>5. Word(e, w, x, y) = Word(d, w, x, y)
        BY <1>6, <3>3, <3>4
    <3>6. Word(d, w, x, y) = Taken(j, k, im[k])[<<x, y>>]
        BY <1>3, <3>1 DEF Around
    <3> QED BY <3>2, <3>5, <3>6
  <2> QED BY <2>1, <2>2
<1>11. r - 1 \in 0 .. Levels(j) - 1
    BY <1>1
<1> QED BY <1>1, <1>2, <1>4, <1>9, <1>10, <1>11 DEF TakenApart

-----------------------------------------------------------------------------
(* The passes of the decoder.                                              *)

\* Outside resolution r the buffers are the same.
Spared(j, r, d, e) ==
    /\ DOMAIN e = 0 .. SizeOf(j, j.min - 1, "X") * SizeOf(j, j.min - 1, "Y") - 1
    /\ \A x \in Columns(j, j.min - 1), y \in Rows(j, j.min - 1) :
           x \notin Columns(j, r) \/ y \notin Rows(j, r) =>
               Word(e, SizeOf(j, j.min - 1, "X"), x, y) = Word(d, SizeOf(j, j.min - 1, "X"), x, y)

\* What is asked of the decoder.
LEMMA JobRanges ==
    ASSUME NEW j \in Jobs
    PROVE  /\ Levels(j) \in Nat \ {0} /\ j.min \in 1 .. Levels(j) /\ j.got \in 1 .. j.min
           /\ j.min - 1 \in 0 .. Levels(j) - 1 /\ j.got - 1 \in 0 .. j.min - 1
           /\ j.filter \in Filters /\ j.threads \in Int
<1>1. "X" \in Axes
    BY DEF Axes
<1>2. Levels(j) \in Nat \ {0}
    BY <1>1, ComponentExtent
<1>3. j.min \in 1 .. Levels(j) /\ j.got \in 1 .. j.min /\ j.filter \in Filters /\ j.threads \in Int
    BY JobsAssumption DEF Levels
<1> QED BY <1>2, <1>3

\* A pass over resolution r leaves the bands of the higher ones alone.
LEMMA UnderwayKept ==
    ASSUME NEW j \in Jobs, NEW r, NEW d, NEW im, Underway(j, r, d, im), NEW e, Spared(j, r, d, e)
    PROVE  Underway(j, r, e, im)
<1>1. PICK n \in Nat, min \in Nat, got \in Nat :
          n = Levels(j) /\ min = j.min /\ got = j.got /\ min \in 1 .. n /\ got \in 1 .. min
    BY JobRanges
<1>2. r \in 1 .. got - 1 /\ Kept(j, 0, im) /\ Around(j, r + 1, got - 1, im, d, SizeOf(j, min - 1, "X"))
    BY <1>1 DEF Underway
<1>3. Around(j, r + 1, got - 1, im, e, SizeOf(j, min - 1, "X"))
  <2> SUFFICES ASSUME NEW k \in r + 1 .. got - 1, NEW x \in Columns(j, k), NEW y \in Rows(j, k),
                      x \notin Columns(j, k - 1) \/ y \notin Rows(j, k - 1)
               PROVE  Word(e, SizeOf(j, min - 1, "X"), x, y) = Taken(j, k, im[k])[<<x, y>>]
      BY DEF Around
  <2>1. /\ k - 1 \in 0 .. n - 1 /\ r \in 0 .. k - 1 /\ min - 1 \in 0 .. n - 1 /\ k \in 0 .. min - 1
      BY <1>1, <1>2
  <2>2. Columns(j, r) \subseteq Columns(j, k - 1) /\ Rows(j, r) \subseteq Rows(j, k - 1)
      BY <1>1, <2>1, Nested
  <2>3. Columns(j, k) \subseteq Columns(j, min - 1) /\ Rows(j, k) \subseteq Rows(j, min - 1)
      BY <1>1, <2>1, Nested
  <2>4. Word(e, SizeOf(j, min - 1, "X"), x, y) = Word(d, SizeOf(j, min - 1, "X"), x, y)
      BY <1>1, <2>2, <2>3 DEF Spared
  <2> QED BY <1>2, <2>4 DEF Around
<1> QED BY <1>1, <1>2, <1>3 DEF Underway, Spared

\* The encoder's pictures, and their columns transformed.
LEMMA TakenPictures ==
    ASSUME NEW j \in Jobs, NEW im, Kept(j, 0, im), NEW r \in 0 .. Levels(j) - 1
    PROVE  /\ im[r] \in Pictures(j.filter, SizeOf(j, r, "X"), SizeOf(j, r, "Y"))
           /\ ColumnsTaken(j, r, im[r]) \in Pictures(j.filter, SizeOf(j, r, "X"), SizeOf(j, r, "Y"))
           /\ SizeOf(j, r, "X") \in Nat /\ SizeOf(j, r, "Y") \in Nat
           /\ CasOf(j, r, "X") \in {0, 1} /\ CasOf(j, r, "Y") \in {0, 1}
<1>1. im[r] \in Pictures(j.filter, SizeOf(j, r, "X"), SizeOf(j, r, "Y"))
    BY DEF Kept
<1>2. /\ SizeOf(j, r, "X") \in Nat /\ SizeOf(j, r, "Y") \in Nat
      /\ CasOf(j, r, "X") \in {0, 1} /\ CasOf(j, r, "Y") \in {0, 1}
    BY SizeType DEF Axes
<1>3. j.filter \in Filters
    BY JobRanges
<1>4. ColumnsTaken(j, r, im[r]) \in Pictures(j.filter, SizeOf(j, r, "X"), SizeOf(j, r, "Y"))
    BY <1>1, <1>2, <1>3, ColumnedAt DEF ColumnsTaken
<1> QED BY <1>1, <1>2, <1>4

\* Rows of resolution r put together.
LEMMA RowsPass ==
    ASSUME NEW j \in Jobs, NEW r, NEW d, NEW im, Underway(j, r, d, im),
           NEW left \in SUBSET Rows(j, r), RowsHalfway(j, r, d, im, left), NEW lines \in SUBSET left,
           NEW e, e = InverseRows(j.filter, d, SizeOf(j, j.min - 1, "X"), lines, SizeOf(j, r, "X"), CasOf(j, r, "X"))
    PROVE  Underway(j, r, e, im) /\ RowsHalfway(j, r, e, im, left \ lines)
<1>1. PICK n \in Nat, min \in Nat, got \in Nat :
          n = Levels(j) /\ min = j.min /\ got = j.got /\ min \in 1 .. n /\ got \in 1 .. min
    BY JobRanges
<1>2. r \in 1 .. got - 1 /\ r \in 0 .. n - 1 /\ r \in 0 .. min - 1 /\ min - 1 \in 0 .. n - 1 /\ Kept(j, 0, im)
    BY <1>1 DEF Underway
<1>3. PICK w \in Nat, h \in Nat : w = SizeOf(j, j.min - 1, "X") /\ h = SizeOf(j, j.min - 1, "Y")
    BY <1>1, <1>2, SizeType DEF Axes
<1>4. PICK rw \in Nat, rh \in Nat, cas \in {0, 1}, filter \in Filters :
          rw = SizeOf(j, r, "X") /\ rh = SizeOf(j, r, "Y") /\ cas = CasOf(j, r, "X") /\ filter = j.filter
    BY <1>1, <1>2, TakenPictures, JobRanges
<1>5. PICK img \in Pictures(filter, rw, rh) : img = ColumnsTaken(j, r, im[r])
    BY <1>1, <1>2, <1>4, TakenPictures
<1>6. Taken(j, r, im[r]) = Rowed(filter, img, rw, rh, cas)
    BY <1>4, <1>5 DEF Taken
<1>7. DOMAIN d = 0 .. w * h - 1
    BY <1>3 DEF Underway
<1>8. RowsInverted(filter, e, d, w, h, lines, rw, cas)
  <2>1. e = InverseRows(filter, d, w, lines, rw, cas)
      BY <1>3, <1>4
  <2> QED BY <1>7, <2>1, InverseRowsAt
<1>9. Columns(j, r) = 0 .. rw - 1 /\ Rows(j, r) = 0 .. rh - 1
      /\ Columns(j, min - 1) = 0 .. w - 1 /\ Rows(j, min - 1) = 0 .. h - 1
    BY <1>1, <1>3, <1>4 DEF Columns, Rows
<1>10. Columns(j, r) \subseteq 0 .. w - 1 /\ Rows(j, r) \subseteq 0 .. h - 1
    BY <1>1, <1>2, <1>9, Nested
<1>11. \A x \in 0 .. w - 1, y \in 0 .. h - 1 :
           Word(e, w, x, y) = IF y \in lines /\ x < rw THEN InverseLine(filter, RowAt(d, w, y, rw), rw, cas)[x]
                              ELSE Word(d, w, x, y)
    BY <1>8 DEF RowsInverted
<1>12. DOMAIN e = 0 .. w * h - 1
    BY <1>8 DEF RowsInverted, Array
<1>13. ASSUME NEW y \in lines, NEW x \in Columns(j, r) PROVE Word(e, w, x, y) = img[<<x, y>>]
  <2>1. y \in 0 .. rh - 1 /\ y \in 0 .. h - 1 /\ x \in 0 .. rw - 1 /\ x \in 0 .. w - 1 /\ x < rw
      BY <1>9, <1>10
  <2>2. \A i \in 0 .. rw - 1 : Word(d, w, i, y) = Rowed(filter, img, rw, rh, cas)[<<i, y>>]
      BY <1>3, <1>6, <1>9, <2>1 DEF RowsHalfway
  <2>3. InverseLine(filter, RowAt(d, w, y, rw), rw, cas)[x] = img[<<x, y>>]
      BY <2>1, <2>2, RowInverted
  <2> QED BY <1>11, <2>1, <2>3
<1>14. Spared(j, r, d, e)
  <2>1. ASSUME NEW x \in 0 .. w - 1, NEW y \in 0 .. h - 1, x \notin Columns(j, r) \/ y \notin Rows(j, r)
        PROVE  Word(e, w, x, y) = Word(d, w, x, y)
    <3>1. ~(y \in lines /\ x < rw)
        BY <1>9, <2>1
    <3> QED BY <1>11, <3>1
  <2> QED BY <1>1, <1>3, <1>9, <1>12, <2>1 DEF Spared
<1>15. RowsHalfway(j, r, e, im, left \ lines)
  <2> SUFFICES ASSUME NEW x \in Columns(j, r), NEW y \in Rows(j, r)
               PROVE  Word(e, w, x, y) = IF y \in left \ lines THEN Taken(j, r, im[r])[<<x, y>>] ELSE img[<<x, y>>]
      BY <1>3, <1>5 DEF RowsHalfway
  <2>1. CASE y \in lines
      BY <1>13, <2>1
  <2>2. CASE y \notin lines
    <3>1. x \in 0 .. w - 1 /\ y \in 0 .. h - 1
        BY <1>10
    <3>2. Word(e, w, x, y) = Word(d, w, x, y)
        BY <1>11, <2>2, <3>1
    <3>3. Word(d, w, x, y) = IF y \in left THEN Taken(j, r, im[r])[<<x, y>>] ELSE img[<<x, y>>]
        BY <1>3, <1>5 DEF RowsHalfway
    <3> QED BY <2>2, <3>2, <3>3
  <2> QED BY <2>1, <2>2
<1> QED BY <1>14, <1>15, UnderwayKept

\* Columns of resolution r put together.
LEMMA ColumnsPass ==
    ASSUME NEW j \in Jobs, NEW r, NEW d, NEW im, Underway(j, r, d, im),
           NEW left \in SUBSET Columns(j, r), ColumnsHalfway(j, r, d, im, left), NEW lines \in SUBSET left,
           NEW e, e = InverseColumns(j.filter, d, SizeOf(j, j.min - 1, "X"), lines, SizeOf(j, r, "Y"), CasOf(j, r, "Y"))
    PROVE  Underway(j, r, e, im) /\ ColumnsHalfway(j, r, e, im, left \ lines)
<1>1. PICK n \in Nat, min \in Nat, got \in Nat :
          n = Levels(j) /\ min = j.min /\ got = j.got /\ min \in 1 .. n /\ got \in 1 .. min
    BY JobRanges
<1>2. r \in 1 .. got - 1 /\ r \in 0 .. n - 1 /\ r \in 0 .. min - 1 /\ min - 1 \in 0 .. n - 1 /\ Kept(j, 0, im)
    BY <1>1 DEF Underway
<1>3. PICK w \in Nat, h \in Nat : w = SizeOf(j, j.min - 1, "X") /\ h = SizeOf(j, j.min - 1, "Y")
    BY <1>1, <1>2, SizeType DEF Axes
<1>4. PICK rw \in Nat, rh \in Nat, cas \in {0, 1}, filter \in Filters :
          rw = SizeOf(j, r, "X") /\ rh = SizeOf(j, r, "Y") /\ cas = CasOf(j, r, "Y") /\ filter = j.filter
    BY <1>1, <1>2, TakenPictures, JobRanges
<1>5. PICK img \in Pictures(filter, rw, rh) : img = im[r]
    BY <1>1, <1>2, <1>4, TakenPictures
<1>6. ColumnsTaken(j, r, im[r]) = Columned(filter, img, rw, rh, cas)
    BY <1>4, <1>5 DEF ColumnsTaken
<1>7. DOMAIN d = 0 .. w * h - 1
    BY <1>3 DEF Underway
<1>8. ColumnsInverted(filter, e, d, w, h, lines, rh, cas)
  <2>1. e = InverseColumns(filter, d, w, lines, rh, cas)
      BY <1>3, <1>4
  <2> QED BY <1>7, <2>1, InverseColumnsAt
<1>9. Columns(j, r) = 0 .. rw - 1 /\ Rows(j, r) = 0 .. rh - 1
      /\ Columns(j, min - 1) = 0 .. w - 1 /\ Rows(j, min - 1) = 0 .. h - 1
    BY <1>1, <1>3, <1>4 DEF Columns, Rows
<1>10. Columns(j, r) \subseteq 0 .. w - 1 /\ Rows(j, r) \subseteq 0 .. h - 1
    BY <1>1, <1>2, <1>9, Nested
<1>11. \A x \in 0 .. w - 1, y \in 0 .. h - 1 :
           Word(e, w, x, y) = IF x \in lines /\ y < rh THEN InverseLine(filter, ColAt(d, w, x, rh), rh, cas)[y]
                              ELSE Word(d, w, x, y)
    BY <1>8 DEF ColumnsInverted
<1>12. DOMAIN e = 0 .. w * h - 1
    BY <1>8 DEF ColumnsInverted, Array
<1>13. ASSUME NEW x \in lines, NEW y \in Rows(j, r) PROVE Word(e, w, x, y) = img[<<x, y>>]
  <2>1. x \in 0 .. rw - 1 /\ x \in 0 .. w - 1 /\ y \in 0 .. rh - 1 /\ y \in 0 .. h - 1 /\ y < rh
      BY <1>9, <1>10
  <2>2. \A i \in 0 .. rh - 1 : Word(d, w, x, i) = Columned(filter, img, rw, rh, cas)[<<x, i>>]
      BY <1>3, <1>6, <1>9, <2>1 DEF ColumnsHalfway
  <2>3. InverseLine(filter, ColAt(d, w, x, rh), rh, cas)[y] = img[<<x, y>>]
      BY <2>1, <2>2, ColumnInverted
  <2> QED BY <1>11, <2>1, <2>3
<1>14. Spared(j, r, d, e)
  <2>1. ASSUME NEW x \in 0 .. w - 1, NEW y \in 0 .. h - 1, x \notin Columns(j, r) \/ y \notin Rows(j, r)
        PROVE  Word(e, w, x, y) = Word(d, w, x, y)
    <3>1. ~(x \in lines /\ y < rh)
        BY <1>9, <2>1
    <3> QED BY <1>11, <3>1
  <2> QED BY <1>1, <1>3, <1>9, <1>12, <2>1 DEF Spared
<1>15. ColumnsHalfway(j, r, e, im, left \ lines)
  <2> SUFFICES ASSUME NEW x \in Columns(j, r), NEW y \in Rows(j, r)
               PROVE  Word(e, w, x, y) = IF x \in left \ lines THEN ColumnsTaken(j, r, im[r])[<<x, y>>] ELSE img[<<x, y>>]
      BY <1>3, <1>5 DEF ColumnsHalfway
  <2>1. CASE x \in lines
      BY <1>13, <2>1
  <2>2. CASE x \notin lines
    <3>1. x \in 0 .. w - 1 /\ y \in 0 .. h - 1
        BY <1>10
    <3>2. Word(e, w, x, y) = Word(d, w, x, y)
        BY <1>11, <2>2, <3>1
    <3>3. Word(d, w, x, y) = IF x \in left THEN ColumnsTaken(j, r, im[r])[<<x, y>>] ELSE img[<<x, y>>]
        BY <1>3, <1>5 DEF ColumnsHalfway
    <3> QED BY <2>2, <3>2, <3>3
  <2> QED BY <2>1, <2>2
<1> QED BY <1>14, <1>15, UnderwayKept

\* A unit of lines, of those that are left.
LEMMA UnitLeft ==
    ASSUME NEW total \in Nat, NEW s, Divided(s, total \div Unit),
           NEW g \in DOMAIN s, s[g][1] # s[g][2], NEW t, TakenBy(s, g, t)
    PROVE  /\ Divided(t, total \div Unit)
           /\ UnitLines(s[g][1]) \subseteq LinesLeft(Unit, s, total)
           /\ LinesLeft(Unit, t, total) = LinesLeft(Unit, s, total) \ UnitLines(s[g][1])
<1>1. PICK n \in Nat : n = total \div Unit
    BY UnitsType
<1>2. PICK a \in 0 .. n - 1 : a = s[g][1]
  <2>1. Divided(s, n)
      BY <1>1
  <2>2. s[g][1] \in 0 .. n - 1
      BY <2>1, LessLeft, Zenon
  <2> QED BY <2>2
<1>3. PICK f \in Int, e \in Nat \ {0} : e = Unit /\ f = n * Unit /\ f <= total
  <2>1. total >= n * Unit <=> n >= n
      BY <1>1, LineOfUnit
  <2>2. PICK e \in Nat \ {0} : e = Unit
      BY UnitType
  <2>3. n * e \in Int
      OBVIOUS
  <2> QED BY <2>1, <2>2, <2>3
<1>4. UnitLines(a) \subseteq 0 .. total - 1
  <2> SUFFICES ASSUME NEW l \in UnitLines(a) PROVE l \in 0 .. total - 1
      OBVIOUS
  <2>1. a * e \in Nat
      BY <1>3
  <2>2. l \in Nat
      BY <1>3, <2>1 DEF UnitLines
  <2>3. l \div Unit = a /\ (l >= n * Unit <=> l \div Unit >= n)
      BY <2>2, LineOfUnit
  <2>4. l < f
      BY <1>3, <2>2, <2>3
  <2> QED BY <1>3, <2>2, <2>4
<1>5. /\ Divided(t, n)
      /\ \A l \in 0 .. total - 1 :
             /\ Undone(Unit, t, total, l) <=> Undone(Unit, s, total, l) /\ l \notin UnitLines(a)
             /\ l \in UnitLines(a) => Undone(Unit, s, total, l)
  <2>1. /\ Divided(t, total \div Unit)
        /\ \A l \in 0 .. total - 1 :
               /\ Undone(Unit, t, total, l) <=> Undone(Unit, s, total, l) /\ l \notin UnitLines(s[g][1])
               /\ l \in UnitLines(s[g][1]) => Undone(Unit, s, total, l)
      BY UnitUndone, Zenon
  <2> QED BY <1>1, <1>2, <2>1
<1> HIDE DEF UnitLines
<1> QED BY <1>1, <1>2, <1>4, <1>5 DEF LinesLeft

\* When all goroutines have ended, the rest is left.
LEMMA RestLeft ==
    ASSUME NEW total \in Nat, NEW s, Divided(s, total \div Unit), \A g \in DOMAIN s : s[g][1] = s[g][2]
    PROVE  LinesLeft(Unit, s, total) = RestOf(total)
<1>1. PICK n \in Nat : n = total \div Unit
    BY UnitsType
<1>2. \A l \in 0 .. total - 1 : Undone(Unit, s, total, l) <=> l \in RestOf(total)
    BY <1>1, RestUndone
<1>3. RestOf(total) \subseteq 0 .. total - 1
  <2>1. PICK f \in Nat : f = n * Unit
      BY UnitType
  <2> QED BY <1>1, <2>1 DEF RestOf
<1> QED BY <1>2, <1>3 DEF LinesLeft

\* When a pass starts, all lines are left.
LEMMA AllLeft ==
    ASSUME NEW total \in Nat, job \in Jobs
    PROVE  Divided(Shares(total), total \div Unit) /\ LinesLeft(Unit, Shares(total), total) = 0 .. total - 1
<1>1. job.threads \in Int
    BY JobRanges
<1>2. Divided(Shares(total), total \div Unit) /\ \A l \in 0 .. total - 1 : Undone(Unit, Shares(total), total, l)
    BY <1>1, AllUndone
<1> QED BY <1>2 DEF LinesLeft

\* A picture's corner and the bands around it are the next picture, taken apart.
LEMMA CornerGrows ==
    ASSUME NEW j \in Jobs, NEW hi \in 0 .. Levels(j) - 1, NEW r \in 1 .. hi, NEW im, Kept(j, 0, im), NEW d,
           Around(j, r, hi, im, d, SizeOf(j, j.min - 1, "X")),
           Corner(j, r - 1, im[r - 1], d, SizeOf(j, j.min - 1, "X"))
    PROVE  RowsHalfway(j, r, d, im, Rows(j, r))
<1>1. PICK n \in Nat : n = Levels(j)
    BY JobRanges
<1> DEFINE w == SizeOf(j, j.min - 1, "X")
<1> SUFFICES ASSUME NEW x \in Columns(j, r), NEW y \in Rows(j, r)
             PROVE  Word(d, w, x, y) = Taken(j, r, im[r])[<<x, y>>]
    BY DEF RowsHalfway
<1>2. CASE x \in Columns(j, r - 1) /\ y \in Rows(j, r - 1)
  <2>1. Word(d, w, x, y) = im[r - 1][<<x, y>>]
      BY <1>2 DEF Corner
  <2>2. r \in 0 + 1 .. n - 1
      BY <1>1
  <2>3. im[r - 1][<<x, y>>] = Taken(j, r, im[r])[<<x, y>>]
      BY <1>1, <1>2, <2>2 DEF Kept
  <2> QED BY <2>1, <2>3
<1>3. CASE ~(x \in Columns(j, r - 1) /\ y \in Rows(j, r - 1))
  <2>1. r \in r .. hi
      BY <1>1
  <2> QED BY <1>3, <2>1 DEF Around
<1> QED BY <1>2, <1>3

\* What the decoder of a whole tile starts from.
DeliveredTile(d) ==
    d = [k \in 0 .. Stride * Size(job.min - 1, "Y") - 1 |-> Delivered(<<k % Stride, k \div Stride>>)]

\* It starts from the encoder's words, as far as it will look (tcd/decode.go).
LEMMA DeliveredWords ==
    ASSUME job \in Jobs, WholeTile, NEW e, DeliveredTile(e)
    PROVE  /\ DOMAIN e = 0 .. SizeOf(job, job.min - 1, "X") * SizeOf(job, job.min - 1, "Y") - 1
           /\ \A x \in Columns(job, job.got - 1), y \in Rows(job, job.got - 1) :
                  Word(e, SizeOf(job, job.min - 1, "X"), x, y) = Word(data, SizeOf(job, Levels(job) - 1, "X"), x, y)
<1>1. PICK n \in Nat, min \in Nat, got \in Nat :
          n = Levels(job) /\ min = job.min /\ got = job.got /\ min \in 1 .. n /\ got \in 1 .. min
    BY JobRanges
<1>2. PICK w \in Nat, h \in Nat : w = SizeOf(job, min - 1, "X") /\ h = SizeOf(job, min - 1, "Y")
    BY <1>1, SizeType DEF Axes
<1>3. PICK wide : wide = SizeOf(job, n - 1, "X")
    OBVIOUS
<1>4. w = Stride /\ h = Size(job.min - 1, "Y") /\ wide = Size(N - 1, "X")
    BY <1>1, <1>2, <1>3, OfThisJob
<1>5. e = [k \in 0 .. w * h - 1 |-> Delivered(<<k % w, k \div w>>)]
    BY <1>4 DEF DeliveredTile
<1>6. ASSUME NEW x \in Columns(job, got - 1), NEW y \in Rows(job, got - 1)
      PROVE  Word(e, w, x, y) = Word(data, wide, x, y)
  <2>1. x \in 0 .. w - 1 /\ y \in 0 .. h - 1
      BY <1>1, <1>2, Nested DEF Columns, Rows
  <2>2. PICK k \in 0 .. w * h - 1 : k = y * w + x /\ k \div w = y /\ k % w = x
      BY <2>1, IndexOf
  <2>3. e[k] = Delivered(<<k % w, k \div w>>)
      BY <1>5
  <2>4. Word(e, w, x, y) = Delivered(<<x, y>>)
      BY <2>2, <2>3 DEF Word
  <2>5. Arrived(<<x, y>>)
      BY <1>1, Delivery
  <2>6. Delivered(<<x, y>>) = data[y * wide + x]
      BY <1>4, <2>5 DEF Delivered
  <2> QED BY <2>4, <2>6 DEF Word
<1> QED BY <1>1, <1>2, <1>3, <1>5, <1>6

-----------------------------------------------------------------------------
(* The invariant.                                                          *)

\* The invariant holds of the picture given to the encoder.
LEMMA InitialInv == Init => WholeInv
<1> SUFFICES ASSUME Init PROVE WholeInv
    OBVIOUS
<1>1. job \in Jobs
    BY DEF Init
<1>2. PICK n \in Nat \ {0} : n = Levels(job) /\ n = N /\ n - 1 \in 0 .. n - 1
    BY <1>1, JobRanges, OfThisJob
<1>3. PICK w \in Nat, h \in Nat : w = SizeOf(job, n - 1, "X") /\ h = SizeOf(job, n - 1, "Y")
    BY <1>1, <1>2, SizeType DEF Axes
<1>4. w = Size(N - 1, "X") /\ h = Size(N - 1, "Y")
    BY <1>2, <1>3, OfThisJob
<1>5. PICK lx \in Nat, ly \in Nat, hx \in Nat, hy \in Nat :
          /\ lx = CompLo(job.tile, 0, "X") /\ hx = CompHi(job.tile, 0, "X")
          /\ ly = CompLo(job.tile, 0, "Y") /\ hy = CompHi(job.tile, 0, "Y")
    BY <1>1, ComponentExtent DEF Axes
<1>6. Lo(N - 1, "X") = lx /\ Lo(N - 1, "Y") = ly /\ w = hx - lx /\ h = hy - ly
  <2>1. Level(job.tile, 0, N - 1) = 0
      BY <1>2 DEF Level, N
  <2>2. 2^0 = 1
      OBVIOUS
  <2>3. CeilDiv(lx, 1) = lx /\ CeilDiv(ly, 1) = ly /\ CeilDiv(hx, 1) = hx /\ CeilDiv(hy, 1) = hy
      BY DEF CeilDiv
  <2> QED BY <1>4, <1>5, <2>1, <2>2, <2>3 DEF Size, Lo, ResLo, ResHi, CeilDivPow2
<1>7. data = [k \in 0 .. w * h - 1 |-> job.picture[<<lx + (k % w), ly + (k \div w)>>]]
    BY <1>4, <1>6 DEF Init
<1>8. data \in Buffers(job.filter, w, h)
  <2>1. ASSUME NEW k \in 0 .. w * h - 1 PROVE job.picture[<<lx + (k % w), ly + (k \div w)>>] \in Values(job.filter)
    <3>1. k % w \in 0 .. w - 1 /\ k \div w \in 0 .. h - 1
        BY IndexBack
    <3>2. PICK x \in 0 .. w - 1, y \in 0 .. h - 1 : x = k % w /\ y = k \div w
        BY <3>1
    <3>3. lx + x \in lx .. hx - 1 /\ ly + y \in ly .. hy - 1
        BY <1>6
    <3>4. job.picture[<<lx + x, ly + y>>] \in Values(job.filter)
        BY <1>1, <1>5, <3>3, JobsAssumption
    <3> QED BY <3>2, <3>4
  <2> QED BY <1>7, <2>1 DEF Buffers
<1>9. images = [r \in 0 .. n - 1 |-> IF r = n - 1 THEN TopLeft(data, w, r) ELSE <<>>]
    BY <1>2, <1>4 DEF Init
<1>10. images[n - 1] = TopLeft(data, w, n - 1) /\ DOMAIN images = 0 .. n - 1
    BY <1>2, <1>9
<1>11. images[n - 1] = [p \in Plane(w, h) |-> data[p[2] * w + p[1]]]
    BY <1>2, <1>4, <1>10 DEF TopLeft, Places, Plane
<1>12. \A x \in 0 .. w - 1, y \in 0 .. h - 1 : Word(data, w, x, y) = images[n - 1][<<x, y>>]
    BY <1>11 DEF Plane, Word
<1>13. images[n - 1] \in Pictures(job.filter, w, h)
  <2>1. ASSUME NEW p \in Plane(w, h) PROVE data[p[2] * w + p[1]] \in Values(job.filter)
    <3>1. PICK x \in 0 .. w - 1, y \in 0 .. h - 1 : p[1] = x /\ p[2] = y
        BY DEF Plane
    <3>2. y * w + x \in 0 .. w * h - 1
        BY IndexOf
    <3>3. data[y * w + x] \in Values(job.filter)
        BY <1>8, <3>2 DEF Buffers
    <3> QED BY <3>1, <3>3
  <2> QED BY <1>11, <2>1 DEF Pictures
<1>14. Kept(job, n - 1, images)
    BY <1>2, <1>3, <1>13 DEF Kept
<1>15. Around(job, (n - 1) + 1, n - 1, images, data, w)
    BY <1>2 DEF Around
<1>16. Corner(job, n - 1, images[n - 1], data, w)
    BY <1>3, <1>12 DEF Corner, Columns, Rows
<1>17. TakenApart(job, n - 1, data, images)
    BY <1>2, <1>3, <1>8, <1>10, <1>14, <1>15, <1>16 DEF TakenApart
<1>18. stage = "encode" /\ res = n - 1
    BY <1>2 DEF Init
<1> QED BY <1>1, <1>17, <1>18 DEF WholeInv, WindowStages

\* What depends on the job alone does not change.
LEMMA Rigid ==
    ASSUME job' = job
    PROVE  (WholeTile' <=> WholeTile) /\ Unit' = Unit
BY DEF WholeTile, Unit, N, Lo

\* A level of the encoder keeps the invariant (dwt53.go, encodeProcedure53).
LEMMA EncodeLevelKeeps ==
    ASSUME WholeInv, NoEmptyRow(job), EncodeLevel
    PROVE  WholeInv'
<1>1. job' = job /\ stage' = "encode" /\ stage = "encode" /\ res' = res - 1 /\ job \in Jobs
    BY DEF EncodeLevel, WholeInv
<1>2. TakenApart(job, res, data, images)
    BY <1>1 DEF WholeInv
<1>3. PICK n \in Nat \ {0} : n = Levels(job) /\ n = N
    BY <1>1, JobRanges, OfThisJob
<1>4. res \in 1 .. Levels(job) - 1
    BY <1>3, <1>2 DEF TakenApart, EncodeLevel
<1>5. PICK w : w = SizeOf(job, Levels(job) - 1, "X") /\ w = Size(N - 1, "X")
    BY <1>3, OfThisJob
<1>6. data' = ForwardRows(job.filter, ForwardColumns(job.filter, data, w, SizeOf(job, res, "X"), SizeOf(job, res, "Y"),
                                                     CasOf(job, res, "Y")),
                          w, SizeOf(job, res, "Y"), SizeOf(job, res, "X"), CasOf(job, res, "X"))
    BY <1>5, OfThisJob DEF EncodeLevel, EncodedLevel
<1>7. CornerKept(job, res, data', images, images')
  <2>1. images' = [images EXCEPT ![res - 1] = TopLeft(data', w, res - 1)]
      BY <1>5 DEF EncodeLevel
  <2>2. TopLeft(data', w, res - 1) = [p \in Plane(SizeOf(job, res - 1, "X"), SizeOf(job, res - 1, "Y")) |->
                                        data'[p[2] * w + p[1]]]
      BY OfThisJob DEF TopLeft, Places, Plane
  <2> QED BY <1>5, <2>1, <2>2 DEF CornerKept
<1>8. TakenApart(job, res - 1, data', images')
    BY <1>1, <1>2, <1>4, <1>5, <1>6, <1>7, EncodeStep
<1> QED BY <1>1, <1>8 DEF WholeInv, WindowStages

\* The next resolution's rows are all left.
LEMMA RowsStart ==
    ASSUME job \in Jobs, NEW r \in 1 .. job.got - 1, NEW e, NEW im, Kept(job, 0, im),
           DOMAIN e = 0 .. SizeOf(job, job.min - 1, "X") * SizeOf(job, job.min - 1, "Y") - 1,
           Around(job, r, job.got - 1, im, e, SizeOf(job, job.min - 1, "X")),
           Corner(job, r - 1, im[r - 1], e, SizeOf(job, job.min - 1, "X"))
    PROVE  Underway(job, r, e, im) /\ RowsUnderway(job, r, e, im, Shares(Size(r, "Y")), Unit)
<1>1. PICK n \in Nat, min \in Nat, got \in Nat :
          n = Levels(job) /\ min = job.min /\ got = job.got /\ min \in 1 .. n /\ got \in 1 .. min
    BY JobRanges
<1>2. got - 1 \in 0 .. Levels(job) - 1 /\ r \in 1 .. got - 1 /\ r \in 0 .. Levels(job) - 1
    BY <1>1
<1>3. RowsHalfway(job, r, e, im, Rows(job, r))
  <2>1. PICK hi \in 0 .. Levels(job) - 1 : hi = job.got - 1 /\ r \in 1 .. hi
      BY <1>1, <1>2
  <2>2. Around(job, r, hi, im, e, SizeOf(job, job.min - 1, "X"))
      BY <2>1
  <2> QED BY <2>1, <2>2, CornerGrows
<1>4. Underway(job, r, e, im)
    BY <1>1, <1>2 DEF Underway, Around
<1>5. PICK h \in Nat : h = SizeOf(job, r, "Y") /\ h = Size(r, "Y")
    BY <1>2, SizeType, OfThisJob DEF Axes
<1>6. Divided(Shares(h), h \div Unit) /\ LinesLeft(Unit, Shares(h), h) = 0 .. h - 1
    BY AllLeft
<1>7. RowsHalfway(job, r, e, im, LinesLeft(Unit, Shares(h), h))
    BY <1>3, <1>5, <1>6 DEF Rows
<1> QED BY <1>4, <1>5, <1>6, <1>7 DEF RowsUnderway

\* The hand-over from tier 1 to the whole tile keeps it.
LEMMA DecodeWholeKeeps ==
    ASSUME WholeInv, DecodeWhole
    PROVE  WholeInv'
<1>1. job' = job /\ images' = images /\ job \in Jobs /\ WholeTile /\ TakenApart(job, 0, data, images)
    BY DEF DecodeWhole, WholeInv
<1>2. WholeTile' /\ Unit' = Unit
    BY <1>1, Rigid
<1>3. PICK n \in Nat, min \in Nat, got \in Nat :
          n = Levels(job) /\ min = job.min /\ got = job.got /\ min \in 1 .. n /\ got \in 1 .. min
    BY <1>1, JobRanges
<1>4. PICK w : w = SizeOf(job, min - 1, "X") /\ w = Stride
    BY <1>3, OfThisJob
<1>5. PICK wide : wide = SizeOf(job, n - 1, "X")
    OBVIOUS
<1>6. /\ DOMAIN data' = 0 .. w * SizeOf(job, min - 1, "Y") - 1
      /\ \A x \in Columns(job, got - 1), y \in Rows(job, got - 1) :
             Word(data', w, x, y) = Word(data, wide, x, y)
  <2>1. DeliveredTile(data')
      BY DEF DecodeWhole, DeliveredTile
  <2> QED BY <1>1, <1>3, <1>4, <1>5, <2>1, DeliveredWords
<1>7. Kept(job, 0, images) /\ Around(job, 1, n - 1, images, data, wide) /\ Corner(job, 0, images[0], data, wide)
    BY <1>1, <1>3, <1>5 DEF TakenApart
<1>8. \A r \in 0 .. got - 1 : Columns(job, r) \subseteq Columns(job, got - 1) /\ Rows(job, r) \subseteq Rows(job, got - 1)
  <2> TAKE r \in 0 .. got - 1
  <2>1. got - 1 \in 0 .. Levels(job) - 1
      BY <1>3
  <2> QED BY <1>1, <2>1, Nested
<1>9. Corner(job, 0, images[0], data', w)
  <2>1. 0 \in 0 .. got - 1
      BY <1>3
  <2>2. Columns(job, 0) \subseteq Columns(job, got - 1) /\ Rows(job, 0) \subseteq Rows(job, got - 1)
      BY <1>8, <2>1
  <2> QED BY <1>6, <1>7, <2>2 DEF Corner
<1>10. Around(job, 1, got - 1, images, data', w)
  <2> SUFFICES ASSUME NEW r \in 1 .. got - 1, NEW x \in Columns(job, r), NEW y \in Rows(job, r),
                      x \notin Columns(job, r - 1) \/ y \notin Rows(job, r - 1)
               PROVE  Word(data', w, x, y) = Taken(job, r, images[r])[<<x, y>>]
      BY DEF Around
  <2>1. r \in 0 .. got - 1 /\ r \in 1 .. n - 1
      BY <1>3
  <2>2. x \in Columns(job, got - 1) /\ y \in Rows(job, got - 1)
      BY <1>8, <2>1
  <2>3. Word(data, wide, x, y) = Taken(job, r, images[r])[<<x, y>>]
      BY <1>7, <2>1 DEF Around
  <2> QED BY <1>6, <2>2, <2>3
<1>11. CASE job.got = 1 \/ Stride = 0
  <2>1. stage' = "done"
      BY <1>11 DEF DecodeWhole
  <2>2. Corner(job, got - 1, images[got - 1], data', w)
    <3>1. CASE got = 1
        BY <1>9, <3>1
    <3>2. CASE w = 0
      <4>1. Columns(job, min - 1) = {}
          BY <1>4, <3>2 DEF Columns
      <4>2. min - 1 \in 0 .. Levels(job) - 1 /\ got - 1 \in 0 .. min - 1
          BY <1>3
      <4>3. Columns(job, got - 1) \subseteq Columns(job, min - 1)
          BY <1>1, <4>2, Nested
      <4> QED BY <4>1, <4>3 DEF Corner
    <3> QED BY <1>3, <1>4, <1>11, <3>1, <3>2
  <2> QED BY <1>1, <1>3, <1>4, <2>1, <2>2 DEF WholeInv, WindowStages
<1>12. CASE ~(job.got = 1 \/ Stride = 0)
  <2>1. stage' = "rows" /\ res' = 1 /\ todo' = Shares(Size(1, "Y"))
      BY <1>12 DEF DecodeWhole
  <2>2. 1 \in 1 .. got - 1 /\ 1 - 1 = 0
      BY <1>3, <1>12
  <2>3. Underway(job, 1, data', images) /\ RowsUnderway(job, 1, data', images, Shares(Size(1, "Y")), Unit)
      BY <1>1, <1>3, <1>4, <1>6, <1>7, <1>9, <1>10, <2>2, RowsStart
  <2> QED BY <1>1, <1>2, <2>1, <2>3 DEF WholeInv, WindowStages
<1> QED BY <1>11, <1>12

\* A goroutine's unit of rows or columns keeps it, whichever goroutine it is (parallel.go, parChunksI32).
LEMMA LinesKeep ==
    ASSUME WholeInv, NEW g \in DOMAIN todo, Lines(g)
    PROVE  WholeInv'
<1>1. /\ job' = job /\ images' = images /\ res' = res /\ stage' = stage /\ stage \in {"rows", "columns"}
      /\ job \in Jobs /\ WholeTile /\ Underway(job, res, data, images)
    BY DEF Lines, WholeInv
<1>2. WholeTile' /\ Unit' = Unit
    BY <1>1, Rigid
<1>3. TakenBy(todo, g, todo')
    BY DEF Lines, TakenBy
<1>4. todo[g][1] # todo[g][2]
    BY DEF Lines, Idle
<1>5. res \in 0 .. Levels(job) - 1
    BY <1>1, JobRanges DEF Underway
<1>6. CASE stage = "rows"
  <2>1. PICK h \in Nat : h = SizeOf(job, res, "Y")
      BY <1>1, <1>5, SizeType DEF Axes
  <2>2. Divided(todo, h \div Unit) /\ RowsHalfway(job, res, data, images, LinesLeft(Unit, todo, h))
      BY <1>6, <2>1 DEF WholeInv, RowsUnderway
  <2>3. /\ Divided(todo', h \div Unit)
        /\ UnitLines(todo[g][1]) \subseteq LinesLeft(Unit, todo, h)
        /\ LinesLeft(Unit, todo', h) = LinesLeft(Unit, todo, h) \ UnitLines(todo[g][1])
      BY <1>3, <1>4, <2>2, UnitLeft
  <2>4. LinesLeft(Unit, todo, h) \subseteq Rows(job, res)
      BY <2>1 DEF LinesLeft, Rows
  <2>5. data' = InverseRows(job.filter, data, SizeOf(job, job.min - 1, "X"), UnitLines(todo[g][1]),
                            SizeOf(job, res, "X"), CasOf(job, res, "X"))
      BY <1>6, OfThisJob DEF Lines, RowsDone
  <2>6. Underway(job, res, data', images) /\ RowsHalfway(job, res, data', images, LinesLeft(Unit, todo', h))
    <3>1. PICK left, lines, left2 : left = LinesLeft(Unit, todo, h) /\ lines = UnitLines(todo[g][1])
                                    /\ left2 = LinesLeft(Unit, todo', h)
        OBVIOUS
    <3>2. left \in SUBSET Rows(job, res) /\ lines \in SUBSET left /\ left2 = left \ lines
        BY <2>3, <2>4, <3>1
    <3>3. data' = InverseRows(job.filter, data, SizeOf(job, job.min - 1, "X"), lines,
                              SizeOf(job, res, "X"), CasOf(job, res, "X"))
        BY <2>5, <3>1
    <3>4. RowsHalfway(job, res, data, images, left)
        BY <2>2, <3>1
    <3>5. Underway(job, res, data', images) /\ RowsHalfway(job, res, data', images, left \ lines)
        BY <1>1, <3>2, <3>3, <3>4, RowsPass
    <3> QED BY <3>1, <3>2, <3>5
  <2>7. RowsUnderway(job, res, data', images, todo', Unit)
      BY <2>1, <2>3, <2>6 DEF RowsUnderway
  <2> QED BY <1>1, <1>2, <1>6, <2>6, <2>7 DEF WholeInv, WindowStages
<1>7. CASE stage = "columns"
  <2>1. PICK w \in Nat : w = SizeOf(job, res, "X")
      BY <1>1, <1>5, SizeType DEF Axes
  <2>2. Divided(todo, w \div Unit) /\ ColumnsHalfway(job, res, data, images, LinesLeft(Unit, todo, w))
      BY <1>7, <2>1 DEF WholeInv, ColumnsUnderway
  <2>3. /\ Divided(todo', w \div Unit)
        /\ UnitLines(todo[g][1]) \subseteq LinesLeft(Unit, todo, w)
        /\ LinesLeft(Unit, todo', w) = LinesLeft(Unit, todo, w) \ UnitLines(todo[g][1])
      BY <1>3, <1>4, <2>2, UnitLeft
  <2>4. LinesLeft(Unit, todo, w) \subseteq Columns(job, res)
      BY <2>1 DEF LinesLeft, Columns
  <2>5. data' = InverseColumns(job.filter, data, SizeOf(job, job.min - 1, "X"), UnitLines(todo[g][1]),
                               SizeOf(job, res, "Y"), CasOf(job, res, "Y"))
      BY <1>7, OfThisJob DEF Lines, ColumnsDone
  <2>6. Underway(job, res, data', images) /\ ColumnsHalfway(job, res, data', images, LinesLeft(Unit, todo', w))
    <3>1. PICK left, lines, left2 : left = LinesLeft(Unit, todo, w) /\ lines = UnitLines(todo[g][1])
                                    /\ left2 = LinesLeft(Unit, todo', w)
        OBVIOUS
    <3>2. left \in SUBSET Columns(job, res) /\ lines \in SUBSET left /\ left2 = left \ lines
        BY <2>3, <2>4, <3>1
    <3>3. data' = InverseColumns(job.filter, data, SizeOf(job, job.min - 1, "X"), lines,
                                 SizeOf(job, res, "Y"), CasOf(job, res, "Y"))
        BY <2>5, <3>1
    <3>4. ColumnsHalfway(job, res, data, images, left)
        BY <2>2, <3>1
    <3>5. Underway(job, res, data', images) /\ ColumnsHalfway(job, res, data', images, left \ lines)
        BY <1>1, <3>2, <3>3, <3>4, ColumnsPass
    <3> QED BY <3>1, <3>2, <3>5
  <2>7. ColumnsUnderway(job, res, data', images, todo', Unit)
      BY <2>1, <2>3, <2>6 DEF ColumnsUnderway
  <2> QED BY <1>1, <1>2, <1>7, <2>6, <2>7 DEF WholeInv, WindowStages
<1> QED BY <1>1, <1>6, <1>7

\* The end of the pass over the rows keeps it, and leaves all columns to do.
LEMMA EndRowsKeeps ==
    ASSUME WholeInv, EndRows
    PROVE  WholeInv'
<1>1. /\ job' = job /\ images' = images /\ res' = res /\ stage' = "columns" /\ stage = "rows"
      /\ job \in Jobs /\ WholeTile /\ Underway(job, res, data, images)
    BY DEF EndRows, WholeInv
<1>2. WholeTile' /\ Unit' = Unit
    BY <1>1, Rigid
<1>3. res \in 0 .. Levels(job) - 1
    BY <1>1, JobRanges DEF Underway
<1>4. PICK h \in Nat, w \in Nat : h = SizeOf(job, res, "Y") /\ w = SizeOf(job, res, "X") /\ w = Size(res, "X")
    BY <1>1, <1>3, SizeType, OfThisJob DEF Axes
<1>5. Divided(todo, h \div Unit) /\ RowsHalfway(job, res, data, images, LinesLeft(Unit, todo, h))
    BY <1>1, <1>4 DEF WholeInv, RowsUnderway
<1>6. LinesLeft(Unit, todo, h) = RestOf(h)
  <2>1. \A g \in DOMAIN todo : todo[g][1] = todo[g][2]
      BY DEF EndRows, AllEnded, Idle
  <2> QED BY <1>5, <2>1, RestLeft
<1>7. RestOf(h) \subseteq Rows(job, res)
    BY <1>4, <1>6 DEF LinesLeft, Rows
<1>8. data' = InverseRows(job.filter, data, SizeOf(job, job.min - 1, "X"), RestOf(h),
                          SizeOf(job, res, "X"), CasOf(job, res, "X"))
    BY <1>4, OfThisJob DEF EndRows, RowsDone
<1>9. Underway(job, res, data', images) /\ RowsHalfway(job, res, data', images, RestOf(h) \ RestOf(h))
    BY <1>1, <1>5, <1>6, <1>7, <1>8, RowsPass
<1>10. todo' = Shares(w)
    BY <1>4 DEF EndRows
<1>11. Divided(Shares(w), w \div Unit) /\ LinesLeft(Unit, Shares(w), w) = 0 .. w - 1
    BY <1>1, AllLeft
<1>12. ColumnsHalfway(job, res, data', images, 0 .. w - 1)
  <2>1. \A x \in Columns(job, res), y \in Rows(job, res) :
            Word(data', SizeOf(job, job.min - 1, "X"), x, y) = ColumnsTaken(job, res, images[res])[<<x, y>>]
      BY <1>9 DEF RowsHalfway
  <2>2. Columns(job, res) = 0 .. w - 1
      BY <1>4 DEF Columns
  <2> QED BY <2>1, <2>2 DEF ColumnsHalfway
<1>13. ColumnsUnderway(job, res, data', images, todo', Unit)
    BY <1>4, <1>10, <1>11, <1>12 DEF ColumnsUnderway
<1> QED BY <1>1, <1>2, <1>9, <1>13 DEF WholeInv, WindowStages

\* The end of the pass over the columns keeps it, and leaves the rows of the next resolution to do.
LEMMA EndColumnsKeeps ==
    ASSUME WholeInv, EndColumns
    PROVE  WholeInv'
<1>1. /\ job' = job /\ images' = images /\ stage = "columns"
      /\ job \in Jobs /\ WholeTile /\ Underway(job, res, data, images)
    BY DEF EndColumns, WholeInv
<1>2. WholeTile' /\ Unit' = Unit
    BY <1>1, Rigid
<1>3. PICK n \in Nat, min \in Nat, got \in Nat :
          n = Levels(job) /\ min = job.min /\ got = job.got /\ min \in 1 .. n /\ got \in 1 .. min
    BY <1>1, JobRanges
<1>4. res \in 1 .. got - 1 /\ res \in 0 .. Levels(job) - 1
    BY <1>1, <1>3 DEF Underway
<1>5. PICK w, stride : w \in Nat /\ w = SizeOf(job, res, "X") /\ stride = SizeOf(job, job.min - 1, "X")
    BY <1>1, <1>4, SizeType DEF Axes
<1>6. Divided(todo, w \div Unit) /\ ColumnsHalfway(job, res, data, images, LinesLeft(Unit, todo, w))
    BY <1>1, <1>5 DEF WholeInv, ColumnsUnderway
<1>7. LinesLeft(Unit, todo, w) = RestOf(w)
  <2>1. \A g \in DOMAIN todo : todo[g][1] = todo[g][2]
      BY DEF EndColumns, AllEnded, Idle
  <2> QED BY <1>5, <1>6, <2>1, RestLeft
<1>8. RestOf(w) \subseteq Columns(job, res)
    BY <1>5, <1>7 DEF LinesLeft, Columns
<1>9. data' = InverseColumns(job.filter, data, SizeOf(job, job.min - 1, "X"), RestOf(w),
                             SizeOf(job, res, "Y"), CasOf(job, res, "Y"))
    BY <1>5, OfThisJob DEF EndColumns, ColumnsDone
<1>10. Underway(job, res, data', images) /\ ColumnsHalfway(job, res, data', images, RestOf(w) \ RestOf(w))
    BY <1>1, <1>6, <1>7, <1>8, <1>9, ColumnsPass
<1>11. Corner(job, res, images[res], data', stride)
    BY <1>5, <1>10 DEF ColumnsHalfway, Corner
<1>12. CASE res + 1 < job.got
  <2>1. stage' = "rows" /\ res' = res + 1 /\ todo' = Shares(Size(res + 1, "Y"))
      BY <1>12 DEF EndColumns
  <2>2. res + 1 \in 1 .. job.got - 1 /\ (res + 1) - 1 = res
      BY <1>3, <1>4, <1>12
  <2>3. /\ Kept(job, 0, images) /\ Around(job, res + 1, job.got - 1, images, data', stride)
        /\ DOMAIN data' = 0 .. SizeOf(job, job.min - 1, "X") * SizeOf(job, job.min - 1, "Y") - 1
      BY <1>5, <1>10 DEF Underway
  <2>4. /\ Underway(job, res + 1, data', images)
        /\ RowsUnderway(job, res + 1, data', images, Shares(Size(res + 1, "Y")), Unit)
      BY <1>1, <1>5, <1>11, <2>2, <2>3, RowsStart
  <2> QED BY <1>1, <1>2, <2>1, <2>4 DEF WholeInv, WindowStages
<1>13. CASE ~(res + 1 < job.got)
  <2>1. stage' = "done"
      BY <1>13 DEF EndColumns
  <2>2. res = job.got - 1
      BY <1>3, <1>4, <1>13
  <2> QED BY <1>1, <1>5, <1>11, <2>1, <2>2 DEF WholeInv, WindowStages
<1> QED BY <1>12, <1>13

\* The steps of a window, in which a tile is not decoded as a whole.
LEMMA WindowKeeps ==
    ASSUME WholeInv,
           DecodeWindow \/ WindowRows \/ WindowRowsEnd \/ WindowColumns \/ WindowColumnsEnd \/ ReadWindow
    PROVE  WholeInv'
<1>1. job' = job /\ stage' \in WindowStages \cup {"done"} /\ ~WholeTile /\ job \in Jobs
    BY DEF WholeInv, WindowStages, DecodeWindow, WindowRows, WindowRowsEnd, WindowColumns, WindowColumnsEnd, ReadWindow
<1>2. ~WholeTile'
    BY <1>1, Rigid
<1> QED BY <1>1, <1>2 DEF WholeInv, WindowStages

\* So does a step that changes nothing.
LEMMA StutterKeeps ==
    ASSUME WholeInv, UNCHANGED vars
    PROVE  WholeInv'
<1>1. /\ job' = job /\ images' = images /\ stage' = stage /\ res' = res /\ data' = data /\ todo' = todo
    BY DEF vars
<1>2. (WholeTile' <=> WholeTile) /\ Unit' = Unit
    BY <1>1, Rigid
<1> QED BY <1>1, <1>2 DEF WholeInv

\* A job stays as it is.
LEMMA JobStays == [Next]_vars => job' = job
BY DEF Next, vars, EncodeLevel, DecodeWhole, Lines, EndRows, EndColumns,
       DecodeWindow, WindowRows, WindowRowsEnd, WindowColumns, WindowColumnsEnd, ReadWindow

\* The encoder is only relied on for components it does not spoil.
WholeTileInv == NoEmptyRow(job) => WholeInv

\* What the encoder's and the decoder's buffer hold at every step, in whatever order the
\* goroutines of the passes take their lines (dwt53.go, DecodeTile; dwt97.go; parallel.go).
THEOREM WholeInvariant == Spec => []WholeTileInv
<1>1. Init => WholeTileInv
    BY InitialInv DEF WholeTileInv
<1>2. WholeTileInv /\ [Next]_vars => WholeTileInv'
  <2> SUFFICES ASSUME WholeTileInv, [Next]_vars, NoEmptyRow(job)' PROVE WholeInv'
      BY DEF WholeTileInv
  <2>1. NoEmptyRow(job)
      BY JobStays DEF NoEmptyRow
  <2>2. WholeInv
      BY <2>1 DEF WholeTileInv
  <2>3. CASE EncodeLevel
      BY <2>1, <2>2, <2>3, EncodeLevelKeeps
  <2>4. CASE DecodeWhole
      BY <2>2, <2>4, DecodeWholeKeeps
  <2>5. ASSUME NEW g \in DOMAIN todo, Lines(g) PROVE WholeInv'
      BY <2>2, <2>5, LinesKeep
  <2>6. CASE EndRows
      BY <2>2, <2>6, EndRowsKeeps
  <2>7. CASE EndColumns
      BY <2>2, <2>7, EndColumnsKeeps
  <2>8. CASE DecodeWindow \/ WindowRows \/ WindowRowsEnd \/ WindowColumns \/ WindowColumnsEnd \/ ReadWindow
      BY <2>2, <2>8, WindowKeeps
  <2>9. CASE UNCHANGED vars
      BY <2>2, <2>9, StutterKeeps
  <2> QED BY <2>3, <2>4, <2>5, <2>6, <2>7, <2>8, <2>9 DEF Next
<1> QED BY <1>1, <1>2, PTL DEF Spec

\* However the goroutines are interleaved, a tile decoded as a whole is the picture that the encoder
\* saw at the resolution decoded, for every component, filter, window and number of goroutines
\* (dwt53.go, DecodeTile and encodeProcedure53; dwt97.go; parallel.go; tcd/decode.go).
THEOREM WholeTileExact == Spec => [](NoEmptyRow(job) => WholeExact)
<1>1. WholeTileInv => (NoEmptyRow(job) => WholeExact)
  <2> SUFFICES ASSUME WholeInv, stage = "done", WholeTile, NEW p \in InWindow
               PROVE  data[p[2] * Stride + p[1]] = images[job.got - 1][p]
      BY DEF WholeExact, WholeTileInv
  <2>1. Corner(job, job.got - 1, images[job.got - 1], data, Stride)
      BY OfThisJob DEF WholeInv
  <2>2. p \in Columns(job, job.got - 1) \X Rows(job, job.got - 1)
      BY OfThisJob DEF InWindow, Places, Columns, Rows
  <2>3. PICK x \in Columns(job, job.got - 1), y \in Rows(job, job.got - 1) : p = <<x, y>>
      BY <2>2
  <2>4. p[1] = x /\ p[2] = y
      BY <2>3
  <2>5. data[y * Stride + x] = images[job.got - 1][<<x, y>>]
      BY <2>1 DEF Corner, Word
  <2> QED BY <2>3, <2>4, <2>5
<1> QED BY <1>1, WholeInvariant, PTL

-----------------------------------------------------------------------------
(* The goroutines keep apart.                                              *)

\* The lines that the goroutines of a pass have yet to take.
PassInv ==
    /\ job \in Jobs
    /\ stage \in {"rows", "columns"} => res \in 1 .. job.got - 1
    /\ stage = "rows" => Divided(todo, Size(res, "Y") \div Unit)
    /\ stage = "columns" => Divided(todo, Size(res, "X") \div Unit)

\* Two goroutines that are not done are about to work on different lines.
LinesApart ==
    stage \in {"rows", "columns"} =>
        \A g, h \in DOMAIN todo :
            g # h /\ ~Idle(g) /\ ~Idle(h) => UnitLines(todo[g][1]) \cap UnitLines(todo[h][1]) = {}

\* The goroutines' shares stay apart.
LEMMA PassStep ==
    ASSUME PassInv, [Next]_vars
    PROVE  PassInv'
<1>1. job' = job /\ job \in Jobs /\ Unit' = Unit
    BY JobStays, Rigid DEF PassInv
<1>2. PICK n \in Nat, got \in Nat : n = Levels(job) /\ got = job.got /\ got \in 1 .. n
  <2>1. Levels(job) \in Nat /\ job.got \in Nat /\ job.got \in 1 .. Levels(job)
      BY <1>1, JobRanges
  <2> QED BY <2>1
<1>3. ASSUME NEW r \in 0 .. n - 1, NEW a \in Axes PROVE Size(r, a) \in Nat /\ Size(r, a)' = Size(r, a)
  <2>1. SizeOf(job, r, a) \in Nat
      BY <1>1, <1>2, SizeType
  <2>2. Size(r, a)' = Size(r, a)
      BY <1>1 DEF Size, Lo
  <2> QED BY <2>1, <2>2, OfThisJob
<1>4. ASSUME NEW r \in 0 .. n - 1, NEW a \in Axes
      PROVE  Divided(Shares(Size(r, a)), Size(r, a) \div Unit)
    BY <1>1, <1>3, AllLeft
<1>5. CASE EncodeLevel
    BY <1>1, <1>5 DEF PassInv, EncodeLevel
<1>6. CASE DecodeWhole
  <2>1. CASE job.got = 1 \/ Stride = 0
      BY <1>1, <1>6, <2>1 DEF PassInv, DecodeWhole
  <2>2. CASE ~(job.got = 1 \/ Stride = 0)
    <3>1. stage' = "rows" /\ res' = 1 /\ todo' = Shares(Size(1, "Y"))
        BY <1>6, <2>2 DEF DecodeWhole
    <3>2. 1 \in 0 .. n - 1 /\ 1 \in 1 .. job.got - 1
        BY <1>2, <2>2
    <3>3. Size(1, "Y")' = Size(1, "Y") /\ Divided(Shares(Size(1, "Y")), Size(1, "Y") \div Unit)
        BY <1>3, <1>4, <3>2 DEF Axes
    <3>4. Size(res, "Y")' = Size(1, "Y")
        BY <1>1, <3>1 DEF Size, Lo
    <3> QED BY <1>1, <3>1, <3>2, <3>3, <3>4 DEF PassInv
  <2> QED BY <2>1, <2>2
<1>7. ASSUME NEW g \in DOMAIN todo, Lines(g) PROVE PassInv'
  <2>1. stage' = stage /\ res' = res /\ stage \in {"rows", "columns"} /\ TakenBy(todo, g, todo') /\ todo[g][1] # todo[g][2]
      BY <1>7 DEF Lines, Idle, TakenBy
  <2>2. res \in 1 .. job.got - 1 /\ res \in 0 .. n - 1
      BY <1>2, <2>1 DEF PassInv
  <2>3. \A a \in Axes : Size(res, a) \in Nat /\ Size(res, a)' = Size(res, a)
      BY <1>1, <1>3, <2>1, <2>2 DEF Size, Lo
  <2>4. CASE stage = "rows"
    <3>1. PICK total \in Nat : total = Size(res, "Y") /\ total = Size(res, "Y")'
        BY <2>3 DEF Axes
    <3>2. Divided(todo, total \div Unit)
        BY <2>4, <3>1 DEF PassInv
    <3>3. Divided(todo', total \div Unit)
        BY <2>1, <3>2, UnitLeft
    <3> QED BY <1>1, <2>1, <2>2, <2>4, <3>1, <3>3 DEF PassInv
  <2>5. CASE stage = "columns"
    <3>1. PICK total \in Nat : total = Size(res, "X") /\ total = Size(res, "X")'
        BY <2>3 DEF Axes
    <3>2. Divided(todo, total \div Unit)
        BY <2>5, <3>1 DEF PassInv
    <3>3. Divided(todo', total \div Unit)
        BY <2>1, <3>2, UnitLeft
    <3> QED BY <1>1, <2>1, <2>2, <2>5, <3>1, <3>3 DEF PassInv
  <2> QED BY <2>1, <2>4, <2>5
<1>8. CASE EndRows
  <2>1. stage' = "columns" /\ res' = res /\ todo' = Shares(Size(res, "X")) /\ res \in 1 .. job.got - 1 /\ res \in 0 .. n - 1
      BY <1>2, <1>8 DEF EndRows, PassInv
  <2>2. Divided(Shares(Size(res, "X")), Size(res, "X") \div Unit)
      BY <1>4, <2>1 DEF Axes
  <2>3. Size(res, "X")' = Size(res, "X")
      BY <1>1, <2>1 DEF Size, Lo
  <2> QED BY <1>1, <2>1, <2>2, <2>3 DEF PassInv
<1>9. CASE EndColumns
  <2>1. CASE res + 1 < job.got
    <3>1. stage' = "rows" /\ res' = res + 1 /\ todo' = Shares(Size(res + 1, "Y")) /\ res \in 1 .. job.got - 1
        BY <1>9, <2>1 DEF EndColumns, PassInv
    <3>2. res + 1 \in 1 .. job.got - 1 /\ res + 1 \in 0 .. n - 1
        BY <1>2, <2>1, <3>1
    <3>3. Divided(Shares(Size(res + 1, "Y")), Size(res + 1, "Y") \div Unit)
        BY <1>4, <3>2 DEF Axes
    <3>4. Size(res, "Y")' = Size(res + 1, "Y")
        BY <1>1, <3>1 DEF Size, Lo
    <3> QED BY <1>1, <3>1, <3>2, <3>3, <3>4 DEF PassInv
  <2>2. CASE ~(res + 1 < job.got)
      BY <1>1, <1>9, <2>2 DEF PassInv, EndColumns
  <2> QED BY <2>1, <2>2
<1>10. CASE DecodeWindow \/ WindowRows \/ WindowRowsEnd \/ WindowColumns \/ WindowColumnsEnd \/ ReadWindow
  <2>1. stage' \notin {"rows", "columns"}
      BY <1>10 DEF DecodeWindow, WindowRows, WindowRowsEnd, WindowColumns, WindowColumnsEnd, ReadWindow
  <2> QED BY <1>1, <2>1 DEF PassInv
<1>11. CASE UNCHANGED vars
  <2>1. stage' = stage /\ res' = res /\ todo' = todo
      BY <1>11 DEF vars
  <2>2. Size(res, "X")' = Size(res, "X") /\ Size(res, "Y")' = Size(res, "Y")
      BY <1>1, <2>1 DEF Size, Lo
  <2> QED BY <1>1, <2>1, <2>2 DEF PassInv
<1> QED BY <1>5, <1>6, <1>7, <1>8, <1>9, <1>10, <1>11 DEF Next

\* Two units have no line in common.
LEMMA UnitsApart ==
    ASSUME NEW a \in Nat, NEW b \in Nat, a # b
    PROVE  UnitLines(a) \cap UnitLines(b) = {}
<1> SUFFICES ASSUME NEW l \in UnitLines(a), l \in UnitLines(b) PROVE FALSE
    OBVIOUS
<1>1. PICK e \in Nat : e = Unit /\ a * e \in Nat
  <2>1. PICK e \in Nat : e = Unit
      BY UnitType
  <2> QED BY <2>1
<1>2. l \in Nat
    BY <1>1 DEF UnitLines
<1> QED BY <1>2, LineOfUnit

\* No two goroutines of a pass ever work on the same row or column: their writes to the shared
\* buffer do not race (parallel.go, parChunksI32).
THEOREM GoroutinesApart == Spec => []LinesApart
<1>1. Init => PassInv
    BY DEF Init, PassInv
<1>2. PassInv /\ [Next]_vars => PassInv'
    BY PassStep
<1>3. PassInv => LinesApart
  <2> SUFFICES ASSUME PassInv, stage \in {"rows", "columns"}, NEW g \in DOMAIN todo, NEW h \in DOMAIN todo,
                      g # h, ~Idle(g), ~Idle(h)
               PROVE  UnitLines(todo[g][1]) \cap UnitLines(todo[h][1]) = {}
      BY DEF LinesApart
  <2>1. PICK units : Divided(todo, units) /\ units \in Nat
    <3>1. res \in 0 .. Levels(job) - 1 /\ job \in Jobs
        BY JobRanges DEF PassInv
    <3>2. \A a \in Axes : Size(res, a) \in Nat
        BY <3>1, SizeType, OfThisJob
    <3>3. Size(res, "X") \div Unit \in Nat /\ Size(res, "Y") \div Unit \in Nat
        BY <3>2, UnitsType DEF Axes
    <3> QED BY <3>3 DEF PassInv
  <2>2. PICK a \in Nat, b \in Nat, c \in Nat, d \in Nat :
            a = todo[g][1] /\ b = todo[g][2] /\ c = todo[h][1] /\ d = todo[h][2] /\ a <= b /\ c <= d
    <3>1. /\ todo[g] \in (0 .. units) \X (0 .. units) /\ todo[g][1] <= todo[g][2]
          /\ todo[h] \in (0 .. units) \X (0 .. units) /\ todo[h][1] <= todo[h][2]
        BY <2>1 DEF Divided
    <3> QED BY <2>1, <3>1
  <2>3. (a .. b - 1) \cap (c .. d - 1) = {}
      BY <2>1, <2>2 DEF Divided, UnitsLeft
  <2>4. a \in a .. b - 1 /\ c \in c .. d - 1
      BY <2>2 DEF Idle
  <2>5. a # c
      BY <2>3, <2>4
  <2> QED BY <2>2, <2>5, UnitsApart
<1> QED BY <1>1, <1>2, <1>3, PTL DEF Spec

-----------------------------------------------------------------------------
(* Lines of which only some elements are known.                            *)

\* Lane l of the scratch memory holds the elements P of a line.
Holds(m, L, l, x, P) == \A q \in P : m[q * L + l] = x[q]

\* What is known after a step that moves the elements of one kind.
After(P, n, cas, h) == {q \in P : IsHigh(q, cas) = h => Left(q) \in P /\ Right(q, n) \in P}
Reached(filter, P, n, cas) ==
    IF filter = "5/3" THEN After(After(P, n, cas, FALSE), n, cas, TRUE)
    ELSE After(After(After(After(P, n, cas, FALSE), n, cas, TRUE), n, cas, FALSE), n, cas, TRUE)

\* The elements P are in the segments.
Segmented(P, cas, seg) == \A q \in P : Within(q \div 2, seg[IsHigh(q, cas)])

\* All elements of a line are in the segments of a whole line.
LEMMA AllMove ==
    ASSUME NEW n \in Nat, NEW cas \in {0, 1}, NEW q \in 0 .. n - 1, NEW h \in BOOLEAN
    PROVE  Moves(q, cas, AllOf(n, cas), h) <=> IsHigh(q, cas) = h
<1>1. IsHigh(q, cas) \in BOOLEAN
    BY DEF IsHigh
<1>2. Within(q \div 2, AllOf(n, cas)[IsHigh(q, cas)])
  <2>1. AllOf(n, cas)[IsHigh(q, cas)] = <<0, IF IsHigh(q, cas) THEN n - LowCount(n, cas) ELSE LowCount(n, cas)>>
      BY <1>1 DEF AllOf
  <2>2. q \div 2 < IF IsHigh(q, cas) THEN n - LowCount(n, cas) ELSE LowCount(n, cas)
      BY DEF LowCount, IsHigh
  <2>6. LowCount(n, cas) \in Int
      BY DEF LowCount
  <2>3. PICK c \in Int : c = (IF IsHigh(q, cas) THEN n - LowCount(n, cas) ELSE LowCount(n, cas)) /\ q \div 2 < c
      BY <2>2, <2>6
  <2>4. AllOf(n, cas)[IsHigh(q, cas)] = <<0, c>>
      BY <2>1, <2>3
  <2>5. q \div 2 >= 0
      OBVIOUS
  <2> QED BY <2>3, <2>4, <2>5 DEF Within
<1> QED BY <1>2 DEF Moves

\* A word of the scratch memory.
LEMMA LaneWord ==
    ASSUME NEW n \in Nat, NEW L \in Nat \ {0}, NEW l \in 0 .. L - 1, NEW q \in 0 .. n - 1
    PROVE  q * L + l \in 0 .. n * L - 1 /\ (q * L + l) \div L = q /\ (q * L + l) % L = l
<1>1. PICK k \in 0 .. L * n - 1 : k = q * L + l /\ k \div L = q /\ k % L = l
    BY IndexOf
<1>2. L * n = n * L
    OBVIOUS
<1> QED BY <1>1, <1>2

\* The memory d long follows a line as far as P.
Follows(filter, m, d, L, l, n, cas, seg, x, P) ==
    /\ DOMAIN m = d /\ x \in LinesOf(filter, n)
    /\ P \in SUBSET (0 .. n - 1) /\ Segmented(P, cas, seg) /\ Holds(m, L, l, x, P)

\* A lifting step in the scratch memory does to what is known of a line what it does to the line.
LEMMA LiftFollows ==
    ASSUME NEW filter \in Filters, NEW n \in Nat, n > 1, NEW cas \in {0, 1}, NEW seg, NEW h \in BOOLEAN, NEW f \in Int,
           NEW L \in Nat \ {0}, NEW l \in 0 .. L - 1, NEW d, 0 .. n * L - 1 \subseteq d, NEW m, NEW x, NEW P,
           Follows(filter, m, d, L, l, n, cas, seg, x, P)
    PROVE  Follows(filter, Lift(filter, m, L, n, cas, seg, Step(h, f)), d, L, l, n, cas, seg,
                   Lift(filter, x, 1, n, cas, AllOf(n, cas), Step(h, f)), After(P, n, cas, h))
<1> DEFINE step == Step(h, f)
           e == Lift(filter, m, L, n, cas, seg, step)
           y == Lift(filter, x, 1, n, cas, AllOf(n, cas), step)
<1>0. /\ DOMAIN m = d /\ x \in LinesOf(filter, n)
      /\ P \in SUBSET (0 .. n - 1) /\ Segmented(P, cas, seg) /\ Holds(m, L, l, x, P)
    BY DEF Follows
<1>1. DOMAIN e = d /\ y \in LinesOf(filter, n)
  <2>1. DOMAIN e = d
      BY <1>0 DEF Lift
  <2>2. y \in LinesOf(filter, n)
      BY <1>0, LiftType
  <2> QED BY <2>1, <2>2
<1>2. step.high = h
    BY DEF Step
<1>3. ASSUME NEW q \in After(P, n, cas, h) PROVE e[q * L + l] = y[q]
  <2>1. q \in P /\ q \in 0 .. n - 1
      BY <1>0, <1>3 DEF After
  <2>2. q * L + l \in d /\ (q * L + l) \div L = q /\ (q * L + l) % L = l
      BY <2>1, LaneWord
  <2>3. e[q * L + l] = IF Moves(q, cas, seg, h)
                       THEN Moved(filter, step, m[q * L + l], m[Left(q) * L + l], m[Right(q, n) * L + l])
                       ELSE m[q * L + l]
      BY <1>0, <1>2, <2>2, Zenon DEF Lift
  <2>4. y[q] = IF Moves(q, cas, AllOf(n, cas), h) THEN Moved(filter, step, x[q], x[Left(q)], x[Right(q, n)]) ELSE x[q]
      BY <1>0, <1>2, <2>1, LiftAt
  <2>5. Moves(q, cas, seg, h) <=> Moves(q, cas, AllOf(n, cas), h)
      BY <1>0, <2>1, AllMove DEF Moves, Segmented
  <2>6. m[q * L + l] = x[q]
      BY <1>0, <2>1 DEF Holds
  <2>7. CASE Moves(q, cas, AllOf(n, cas), h)
    <3>1. Left(q) \in P /\ Right(q, n) \in P
        BY <1>3, <2>1, <2>7, AllMove DEF After
    <3>2. m[Left(q) * L + l] = x[Left(q)] /\ m[Right(q, n) * L + l] = x[Right(q, n)]
        BY <1>0, <3>1 DEF Holds
    <3> QED BY <2>3, <2>4, <2>5, <2>6, <2>7, <3>2
  <2>8. CASE ~Moves(q, cas, AllOf(n, cas), h)
      BY <2>3, <2>4, <2>5, <2>6, <2>8
  <2> QED BY <2>7, <2>8
<1>4. After(P, n, cas, h) \in SUBSET (0 .. n - 1) /\ Segmented(After(P, n, cas, h), cas, seg)
    BY <1>0 DEF After, Segmented
<1>5. Holds(e, L, l, y, After(P, n, cas, h))
    BY <1>3 DEF Holds
<1> QED BY <1>1, <1>4, <1>5 DEF Follows

\* So does the scaling.
LEMMA ScaledFollows ==
    ASSUME NEW filter \in Filters, NEW n \in Nat, NEW cas \in {0, 1}, NEW seg,
           NEW L \in Nat \ {0}, NEW l \in 0 .. L - 1, NEW d, 0 .. n * L - 1 \subseteq d, NEW m, NEW x, NEW P,
           Follows(filter, m, d, L, l, n, cas, seg, x, P)
    PROVE  Follows(filter, Scaled(filter, m, L, cas, seg, K, InvK), d, L, l, n, cas, seg,
                   Scaled(filter, x, 1, cas, AllOf(n, cas), K, InvK), P)
<1>0. /\ DOMAIN m = d /\ x \in LinesOf(filter, n)
      /\ P \in SUBSET (0 .. n - 1) /\ Segmented(P, cas, seg) /\ Holds(m, L, l, x, P)
    BY DEF Follows
<1>1. CASE filter = "5/3"
    BY <1>1 DEF Scaled
<1>2. CASE filter = "9/7"
  <2> DEFINE e == Scaled(filter, m, L, cas, seg, K, InvK)
             y == Scaled(filter, x, 1, cas, AllOf(n, cas), K, InvK)
  <2>1. e = [k \in DOMAIN m |->
                IF Moves(k \div L, cas, seg, FALSE) THEN (m[k] * K) % Field
                ELSE IF Moves(k \div L, cas, seg, TRUE) THEN (m[k] * InvK) % Field ELSE m[k]]
      BY <1>2 DEF Scaled
  <2>2. y = [k \in DOMAIN x |->
                IF Moves(k \div 1, cas, AllOf(n, cas), FALSE) THEN (x[k] * K) % Field
                ELSE IF Moves(k \div 1, cas, AllOf(n, cas), TRUE) THEN (x[k] * InvK) % Field ELSE x[k]]
      BY <1>2 DEF Scaled
  <2> HIDE DEF e, y
  <2>3. ASSUME NEW q \in P PROVE e[q * L + l] = y[q]
    <3>0. q \in 0 .. n - 1
        BY <1>0
    <3>1. q \in DOMAIN x /\ q \div 1 = q
        BY <1>0, <3>0 DEF LinesOf
    <3>2. q * L + l \in d /\ (q * L + l) \div L = q /\ (q * L + l) % L = l
        BY <3>0, LaneWord
    <3>3. m[q * L + l] = x[q]
        BY <1>0 DEF Holds
    <3>4. e[q * L + l] = IF Moves(q, cas, seg, FALSE) THEN (x[q] * K) % Field
                         ELSE IF Moves(q, cas, seg, TRUE) THEN (x[q] * InvK) % Field ELSE x[q]
        BY <1>0, <2>1, <3>2, <3>3, Zenon
    <3>5. y[q] = IF Moves(q, cas, AllOf(n, cas), FALSE) THEN (x[q] * K) % Field
                 ELSE IF Moves(q, cas, AllOf(n, cas), TRUE) THEN (x[q] * InvK) % Field ELSE x[q]
        BY <2>2, <3>1, Zenon
    <3>6. \A h \in BOOLEAN : Moves(q, cas, seg, h) <=> Moves(q, cas, AllOf(n, cas), h)
        BY <1>0, <3>0, AllMove DEF Moves, Segmented
    <3> QED BY <3>4, <3>5, <3>6, Zenon
  <2>4. DOMAIN e = DOMAIN m
      BY <2>1
  <2>5. y \in LinesOf(filter, n)
    <3>1. \A k \in 0 .. n - 1 : x[k] \in 0 .. 30
        BY <1>0, <1>2 DEF LinesOf, Values, Field
    <3>2. \A v \in 0 .. 30 : (v * K) % Field \in 0 .. 30 /\ (v * InvK) % Field \in 0 .. 30
        BY DEF K, InvK, Field
    <3>3. DOMAIN y = 0 .. n - 1 /\ y = [k \in 0 .. n - 1 |-> y[k]]
        BY <1>0, <2>2 DEF LinesOf
    <3>4. ASSUME NEW k \in 0 .. n - 1 PROVE y[k] \in 0 .. 30
      <4>1. k \in DOMAIN x
          BY <1>0 DEF LinesOf
      <4>2. y[k] = IF Moves(k \div 1, cas, AllOf(n, cas), FALSE) THEN (x[k] * K) % Field
                   ELSE IF Moves(k \div 1, cas, AllOf(n, cas), TRUE) THEN (x[k] * InvK) % Field ELSE x[k]
          BY <2>2, <4>1, Zenon
      <4> QED BY <3>1, <3>2, <4>2, Zenon
    <3> QED BY <1>2, <3>3, <3>4 DEF LinesOf, Values, Field
  <2>6. Holds(e, L, l, y, P)
      BY <2>3 DEF Holds
  <2> QED BY <1>0, <2>4, <2>5, <2>6 DEF Follows, e, y
<1> QED BY <1>1, <1>2 DEF Filters

\* The steps of a filter.
LEMMA LiftsFollow ==
    ASSUME NEW filter \in Filters, NEW n \in Nat, n > 1, NEW cas \in {0, 1}, NEW seg,
           NEW L \in Nat \ {0}, NEW l \in 0 .. L - 1, NEW d, 0 .. n * L - 1 \subseteq d, NEW m, NEW x, NEW P,
           Follows(filter, m, d, L, l, n, cas, seg, x, P)
    PROVE  Follows(filter, Lifts(filter, m, L, n, cas, seg, InverseSteps(filter)), d, L, l, n, cas, seg,
                   Lifts(filter, x, 1, n, cas, AllOf(n, cas), InverseSteps(filter)), Reached(filter, P, n, cas))
<1> DEFINE S(e, step) == Lift(filter, e, L, n, cas, seg, step)
           T(y, step) == Lift(filter, y, 1, n, cas, AllOf(n, cas), step)
           A(Q, h) == After(Q, n, cas, h)
           Good(e, y, Q) == Follows(filter, e, d, L, l, n, cas, seg, y, Q)
<1>1. \A h \in BOOLEAN, f \in Int : \A e, y, Q :
          Good(e, y, Q) => Good(S(e, Step(h, f)), T(y, Step(h, f)), A(Q, h))
    BY LiftFollows
<1>2. Good(m, x, P)
    OBVIOUS
<1>3. TRUE \in BOOLEAN /\ FALSE \in BOOLEAN /\ 1 \in Int /\ -1 \in Int
    OBVIOUS
<1>4. CASE filter = "5/3"
  <2> DEFINE T1 == Step(FALSE, -1)
             T2 == Step(TRUE, 1)
  <2>1. /\ Lifts(filter, m, L, n, cas, seg, InverseSteps(filter)) = S(S(m, T1), T2)
        /\ Lifts(filter, x, 1, n, cas, AllOf(n, cas), InverseSteps(filter)) = T(T(x, T1), T2)
      BY <1>4 DEF Lifts, InverseSteps
  <2>2. Reached(filter, P, n, cas) = A(A(P, FALSE), TRUE)
      BY <1>4 DEF Reached
  <2>3. Good(S(S(m, T1), T2), T(T(x, T1), T2), A(A(P, FALSE), TRUE))
    <3> HIDE DEF Good, S, T, A
    <3>1. Good(S(m, T1), T(x, T1), A(P, FALSE))
        BY <1>1, <1>2, <1>3
    <3> QED BY <1>1, <1>3, <3>1
  <2> QED BY <2>1, <2>2, <2>3, Zenon
<1>5. CASE filter = "9/7"
  <2> DEFINE T1 == Step(FALSE, -Delta)
             T2 == Step(TRUE, -Gamma)
             T3 == Step(FALSE, -Beta)
             T4 == Step(TRUE, -Alpha)
  <2>1. -Alpha \in Int /\ -Beta \in Int /\ -Gamma \in Int /\ -Delta \in Int
      BY DEF Alpha, Beta, Gamma, Delta
  <2>2. /\ Lifts(filter, m, L, n, cas, seg, InverseSteps(filter)) = S(S(S(S(m, T1), T2), T3), T4)
        /\ Lifts(filter, x, 1, n, cas, AllOf(n, cas), InverseSteps(filter)) = T(T(T(T(x, T1), T2), T3), T4)
      BY <1>5 DEF Lifts, InverseSteps
  <2>3. Reached(filter, P, n, cas) = A(A(A(A(P, FALSE), TRUE), FALSE), TRUE)
      BY <1>5 DEF Reached
  <2>4. Good(S(S(S(S(m, T1), T2), T3), T4), T(T(T(T(x, T1), T2), T3), T4), A(A(A(A(P, FALSE), TRUE), FALSE), TRUE))
    <3> HIDE DEF Good, S, T, A
    <3>1. Good(S(m, T1), T(x, T1), A(P, FALSE))
        BY <1>1, <1>2, <1>3, <2>1
    <3>2. Good(S(S(m, T1), T2), T(T(x, T1), T2), A(A(P, FALSE), TRUE))
        BY <1>1, <1>3, <2>1, <3>1
    <3>3. Good(S(S(S(m, T1), T2), T3), T(T(T(x, T1), T2), T3), A(A(A(P, FALSE), TRUE), FALSE))
        BY <1>1, <1>3, <2>1, <3>2
    <3> QED BY <1>1, <1>3, <2>1, <3>3
  <2> QED BY <2>2, <2>3, <2>4, Zenon
<1> QED BY <1>4, <1>5 DEF Filters

\* The word of an element is in the pair of elements it belongs to.
LEMMA PairOf ==
    ASSUME NEW n \in Nat, NEW L \in Nat \ {0}, NEW l \in 0 .. L - 1, NEW q \in 0 .. n - 1
    PROVE  (q * L + l) \div (2 * L) = q \div 2
<1>1. PICK c \in 0 .. n - 1 : c = q \div 2 /\ (q = 2 * c \/ q = 2 * c + 1)
    OBVIOUS
<1>2. PICK W \in Nat : W = 2 * L
    OBVIOUS
<1>3. PICK t \in 0 .. W - 1 : q * L + l = c * W + t
  <2>1. CASE q = 2 * c
    <3>1. l \in 0 .. W - 1
        BY <1>2
    <3>2. q * L = c * W
        BY <1>2, <2>1
    <3> QED BY <3>1, <3>2
  <2>2. CASE q = 2 * c + 1
    <3>1. L + l \in 0 .. W - 1
        BY <1>2
    <3>2. q * L = c * W + L
        BY <1>2, <2>2
    <3> QED BY <3>1, <3>2
  <2> QED BY <1>1, <2>1, <2>2
<1>4. (c * W + t) \div W = c
    BY IndexOf
<1> QED BY <1>1, <1>2, <1>3, <1>4

\* What is known of a line in lane l before it is put together.
Given(filter, lines, l, n, cas, x, P) ==
    \A q \in P : lines[l][Place(q, n, cas)] = ForwardLine(filter, x, n, cas)[Place(q, n, cas)]

\* The memory d long is about to be filled with lines, of which l is x taken apart, as far as P.
Filling(filter, m, d, L, l, lines, n, cas, seg, x, P) ==
    /\ DOMAIN m = d /\ l \in DOMAIN lines /\ x \in LinesOf(filter, n)
    /\ P \in SUBSET (0 .. n - 1) /\ Segmented(P, cas, seg) /\ Given(filter, lines, l, n, cas, x, P)

\* What is known of a line when it is put together.
Regained(filter, P, n, cas) == IF n > 1 THEN Reached(filter, P, n, cas) ELSE P

\* A line put together in the scratch memory, of which the elements P were right when it was filled,
\* is right as far as the filter reaches from them, whatever was in the memory before.
LEMMA InvertedFollows ==
    ASSUME NEW filter \in Filters, NEW n \in Nat, n > 0, NEW cas \in {0, 1}, NEW seg,
           NEW L \in Nat \ {0}, NEW l \in 0 .. L - 1, NEW d, 0 .. n * L - 1 \subseteq d, NEW m,
           NEW lines, NEW x, NEW P, Filling(filter, m, d, L, l, lines, n, cas, seg, x, P)
    PROVE  Holds(Inverted(filter, Filled(m, L, lines, n, cas, seg), L, n, cas, seg), L, l, x, Regained(filter, P, n, cas))
<1> DEFINE f == ForwardLine(filter, x, n, cas)
           y == Interleaved(f, n, cas)
           o == Filled(m, L, lines, n, cas, seg)
<1>0. /\ DOMAIN m = d /\ l \in DOMAIN lines /\ x \in LinesOf(filter, n)
      /\ P \in SUBSET (0 .. n - 1) /\ Segmented(P, cas, seg) /\ Given(filter, lines, l, n, cas, x, P)
    BY DEF Filling
<1>8. PICK e : /\ e = Inverted(filter, o, L, n, cas, seg)
               /\ e = Inverted(filter, Filled(m, L, lines, n, cas, seg), L, n, cas, seg)
    OBVIOUS
<1>1. f \in LinesOf(filter, n) /\ Inverted(filter, y, 1, n, cas, AllOf(n, cas)) = x
    BY <1>0, LineReversible DEF InverseLine
<1>2. y \in LinesOf(filter, n) /\ \A q \in 0 .. n - 1 : y[q] = f[Place(q, n, cas)]
  <2> HIDE DEF f
  <2> QED BY <1>1, PlaceOrdinal DEF Interleaved, LinesOf
<1>3. DOMAIN o = d
    BY <1>0 DEF Filled
<1>4. ASSUME NEW q \in P PROVE o[q * L + l] = y[q]
  <2>1. q \in 0 .. n - 1
      BY <1>0
  <2>2. q * L + l \in d /\ (q * L + l) \div L = q /\ (q * L + l) % L = l
      BY <2>1, LaneWord
  <2>3. (q * L + l) \div (2 * L) = q \div 2
      BY <2>1, PairOf
  <2>4. Within(q \div 2, seg[IsHigh(q, cas)])
      BY <1>0 DEF Segmented
  <2>5. o[q * L + l] = lines[l][Place(q, n, cas)]
      BY <1>0, <2>2, <2>3, <2>4, Zenon DEF Filled
  <2> QED BY <1>0, <1>2, <2>1, <2>5 DEF Given
<1>5. Follows(filter, o, d, L, l, n, cas, seg, y, P)
    BY <1>0, <1>2, <1>3, <1>4 DEF Follows, Holds
<1> HIDE DEF o, y, f
<1>6. CASE n > 1
  <2> DEFINE o2 == Scaled(filter, o, L, cas, seg, K, InvK)
             y2 == Scaled(filter, y, 1, cas, AllOf(n, cas), K, InvK)
             o3 == Lifts(filter, o2, L, n, cas, seg, InverseSteps(filter))
             y3 == Lifts(filter, y2, 1, n, cas, AllOf(n, cas), InverseSteps(filter))
  <2>1. Follows(filter, o2, d, L, l, n, cas, seg, y2, P)
      BY <1>5, ScaledFollows
  <2>2. Follows(filter, o3, d, L, l, n, cas, seg, y3, Reached(filter, P, n, cas))
    <3> HIDE DEF o2, y2
    <3> QED BY <1>6, <2>1, LiftsFollow
  <2>3. e = o3 /\ x = y3
      BY <1>1, <1>6, <1>8, Zenon DEF Inverted
  <2> HIDE DEF o3, y3
  <2> QED BY <1>6, <1>8, <2>2, <2>3 DEF Follows, Regained
<1>7. CASE ~(n > 1)
  <2>0. n = 1
      BY <1>7
  <2>1. ASSUME NEW q \in P PROVE q = 0 /\ q * L + l = l /\ l < L /\ l \in d /\ o[l] = y[0] /\ 0 \in DOMAIN y
    <3>1. q = 0 /\ q \in 0 .. n - 1
        BY <1>0, <2>0
    <3>2. q * L + l = l /\ l < L
        BY <3>1
    <3>3. q * L + l \in d
        BY <3>1, LaneWord
    <3>4. o[q * L + l] = y[q] /\ DOMAIN y = 0 .. n - 1
        BY <1>5 DEF Follows, Holds, LinesOf
    <3> QED BY <3>1, <3>2, <3>3, <3>4
  <2>2. CASE cas = 1 /\ filter = "5/3"
    <3>1. e = [k \in DOMAIN o |-> IF k < L THEN Halved(o[k]) ELSE o[k]]
        BY <1>8, <2>0, <2>2 DEF Inverted
    <3>2. x = [k \in DOMAIN y |-> IF k < 1 THEN Halved(y[k]) ELSE y[k]]
        BY <1>1, <2>0, <2>2 DEF Inverted
    <3>3. \A q \in P : e[q * L + l] = x[q]
        BY <1>3, <2>1, <3>1, <3>2
    <3> QED BY <1>7, <1>8, <3>3 DEF Holds, Regained
  <2>3. CASE ~(cas = 1 /\ filter = "5/3")
    <3>1. e = o /\ x = y
        BY <1>1, <1>8, <2>0, <2>3 DEF Inverted
    <3> QED BY <1>5, <1>7, <1>8, <3>1 DEF Follows, Regained
  <2> QED BY <2>2, <2>3
<1> QED BY <1>6, <1>7

-----------------------------------------------------------------------------
(* A window.                                                               *)

\* The window at resolution r, in coordinates of the resolution.
FromOf(j, r, a) == CeilDivPow2(j.win.lo[a], Levels(j) - 1 - r)
ToOf(j, r, a) == CeilDivPow2(j.win.hi[a], Levels(j) - 1 - r)

\* The margin around it within which a resolution is put together exactly: what the filter of the
\* next resolution reaches.
Margin(j, r) ==
    IF j.filter = "5/3" THEN 1
    ELSE IF r = j.got - 1 THEN 0 ELSE IF r = j.got - 2 THEN 2 ELSE 3

\* The elements of resolution r that are exact once it is put together.
Exact(j, r, a) ==
    {q \in 0 .. SizeOf(j, r, a) - 1 :
        /\ FromOf(j, r, a) - Margin(j, r) <= q + LoOf(j, r, a)
        /\ q + LoOf(j, r, a) < ToOf(j, r, a) + Margin(j, r)}

\* The margin of the bands (FilterMargin).
BandMargin(j) == IF j.filter = "5/3" THEN 2 ELSE 3

\* The elements of the low-pass part and of the high-pass band of resolution r that are known.
Known(j, r, a) ==
    {c \in 0 .. SizeOf(j, r, a) - 1 :
        IF c < SizeOf(j, r - 1, a) THEN c \in Exact(j, r - 1, a)
        ELSE LET d == c - SizeOf(j, r - 1, a) + LoOf(j, r, a) \div 2
             IN  /\ FromOf(j, r, a) \div 2 - BandMargin(j) <= d
                 /\ d < ToOf(j, r, a) \div 2 + BandMargin(j)}

\* Resolution r is yet to be put together: rows from next on are taken apart, those before no longer.
RowsKnown(j, r, s, im, nx) ==
    \A y \in Known(j, r, "Y") :
        IF y < nx THEN \A x \in Exact(j, r, "X") : s[<<x, y>>] = ColumnsTaken(j, r, im[r])[<<x, y>>]
        ELSE \A x \in Known(j, r, "X") : s[<<x, y>>] = Taken(j, r, im[r])[<<x, y>>]
ColumnsKnown(j, r, s, im, nx) ==
    \A x \in Exact(j, r, "X") :
        IF x < nx THEN \A y \in Exact(j, r, "Y") : s[<<x, y>>] = im[r][<<x, y>>]
        ELSE \A y \in Known(j, r, "Y") : s[<<x, y>>] = ColumnsTaken(j, r, im[r])[<<x, y>>]

\* The bands of the higher resolutions are as they were delivered.
BandsKnown(j, r, s, im) ==
    \A k \in r + 1 .. j.got - 1 : \A x \in Known(j, k, "X"), y \in Known(j, k, "Y") :
        x \notin Columns(j, k - 1) \/ y \notin Rows(j, k - 1) =>
            s[<<x, y>>] = Taken(j, k, im[k])[<<x, y>>]

-----------------------------------------------------------------------------
(* The elements of a line near the window.                                 *)

\* The elements of a line that are at most e, at even coordinates, or o, at odd ones, from an interval.
Zone(n, lo, from, to, e, o) ==
    {q \in 0 .. n - 1 : /\ from - (IF (q + lo) % 2 = 0 THEN e ELSE o) <= q + lo
                        /\ q + lo < to + (IF (q + lo) % 2 = 0 THEN e ELSE o)}

\* Elements among which are all of a zone.
Covers(P, n, lo, from, to, e, o) == P \in SUBSET (0 .. n - 1) /\ Zone(n, lo, from, to, e, o) \subseteq P

\* A step that moves the elements of one kind leaves those right whose neighbours were.
LEMMA ZoneAfter ==
    ASSUME NEW n \in Nat, n > 1, NEW lo \in Nat, NEW from \in Int, NEW to \in Int,
           NEW e \in Int, NEW o \in Int, NEW P, Covers(P, n, lo, from, to, e, o), NEW h \in BOOLEAN,
           NEW e2 \in Int, NEW o2 \in Int,
           e2 <= e, o2 <= o, h => o2 < e, ~h => e2 < o
    PROVE  Covers(After(P, n, lo % 2, h), n, lo, from, to, e2, o2)
<1>0. P \in SUBSET (0 .. n - 1) /\ Zone(n, lo, from, to, e, o) \subseteq P
    BY DEF Covers
<1>6. After(P, n, lo % 2, h) \in SUBSET (0 .. n - 1)
    BY <1>0 DEF After
<1> SUFFICES ASSUME NEW q \in Zone(n, lo, from, to, e2, o2) PROVE q \in After(P, n, lo % 2, h)
    BY <1>6 DEF Covers
<1>1. q \in 0 .. n - 1
    BY DEF Zone
<1>2. IsHigh(q, lo % 2) <=> (q + lo) % 2 # 0
    BY <1>1 DEF IsHigh
<1>3. q \in Zone(n, lo, from, to, e, o)
    BY <1>1 DEF Zone
<1>4. ASSUME IsHigh(q, lo % 2) = h, NEW s \in 0 .. n - 1, s = q + 1 \/ s = q - 1
      PROVE  s \in Zone(n, lo, from, to, e, o)
  <2>1. (s + lo) % 2 = 0 <=> (q + lo) % 2 # 0
      BY <1>1, <1>4
  <2>2. CASE h
    <3>1. (q + lo) % 2 # 0 /\ (s + lo) % 2 = 0 /\ o2 < e
        BY <1>2, <1>4, <2>1, <2>2
    <3>2. from - o2 <= q + lo /\ q + lo < to + o2
        BY <3>1 DEF Zone
    <3>3. from - e <= s + lo /\ s + lo < to + e
        BY <1>1, <1>4, <3>1, <3>2
    <3> QED BY <1>4, <3>1, <3>3 DEF Zone
  <2>3. CASE ~h
      BY <1>1, <1>2, <1>4, <2>1, <2>3 DEF Zone
  <2> QED BY <2>2, <2>3
<1>5. /\ Left(q) \in 0 .. n - 1 /\ (Left(q) = q + 1 \/ Left(q) = q - 1)
      /\ Right(q, n) \in 0 .. n - 1 /\ (Right(q, n) = q + 1 \/ Right(q, n) = q - 1)
    BY <1>1 DEF Left, Right
<1> QED BY <1>0, <1>3, <1>4, <1>5 DEF After

\* How much farther than the elements it makes a filter reaches.
ReachedFrom(P, filter, n, lo, from, to, margin) ==
    IF filter = "5/3" THEN Covers(P, n, lo, from, to, margin + 1, margin + 2)
    ELSE Covers(P, n, lo, from, to, margin + 3, margin + 4)

\* With that much around them given, the lifting steps get the elements of a zone right: each step
\* costs one element on either side of the kind it moves.
LEMMA ZoneReached ==
    ASSUME NEW filter \in Filters, NEW n \in Nat, n > 1, NEW lo \in Nat, NEW from \in Int, NEW to \in Int,
           NEW P, NEW margin \in Int, ReachedFrom(P, filter, n, lo, from, to, margin)
    PROVE  Zone(n, lo, from, to, margin, margin) \subseteq Reached(filter, P, n, lo % 2)
<1> DEFINE A(Q, h) == After(Q, n, lo % 2, h)
           In(e, o, Q) == Covers(Q, n, lo, from, to, e, o)
<1>0. PICK m1 \in Int, m2 \in Int, m3 \in Int, m4 \in Int :
          m1 = margin + 1 /\ m2 = margin + 2 /\ m3 = margin + 3 /\ m4 = margin + 4
    OBVIOUS
<1>2. \A Q : \A e, o, e2 \in Int : In(e, o, Q) /\ e2 <= e /\ e2 < o => In(e2, o, A(Q, FALSE))
  <2> SUFFICES ASSUME NEW Q, NEW e \in Int, NEW o \in Int, NEW e2 \in Int, In(e, o, Q), e2 <= e, e2 < o
               PROVE  In(e2, o, A(Q, FALSE))
      OBVIOUS
  <2>1. o <= o /\ FALSE \in BOOLEAN
      OBVIOUS
  <2> QED BY <2>1, ZoneAfter
<1>3. \A Q : \A e, o, o2 \in Int : In(e, o, Q) /\ o2 <= o /\ o2 < e => In(e, o2, A(Q, TRUE))
  <2> SUFFICES ASSUME NEW Q, NEW e \in Int, NEW o \in Int, NEW o2 \in Int, In(e, o, Q), o2 <= o, o2 < e
               PROVE  In(e, o2, A(Q, TRUE))
      OBVIOUS
  <2>1. e <= e /\ TRUE \in BOOLEAN
      OBVIOUS
  <2> QED BY <2>1, ZoneAfter
<1>7. /\ m1 <= m1 /\ m1 < m2 /\ margin <= m2 /\ margin < m1
      /\ m3 <= m3 /\ m3 < m4 /\ m2 <= m4 /\ m2 < m3 /\ m1 <= m3
    BY <1>0
<1>4. Zone(n, lo, from, to, margin, margin) \subseteq Zone(n, lo, from, to, m1, margin)
    BY <1>0 DEF Zone
<1>5. CASE filter = "5/3"
  <2>1. In(m1, m2, P)
      BY <1>0, <1>5, Zenon DEF ReachedFrom
  <2>2. Reached(filter, P, n, lo % 2) = A(A(P, FALSE), TRUE)
      BY <1>5 DEF Reached
  <2> HIDE DEF In, A
  <2>3. In(m1, m2, A(P, FALSE))
      BY <1>2, <1>7, <2>1, Zenon
  <2>4. In(m1, margin, A(A(P, FALSE), TRUE))
      BY <1>3, <1>7, <2>3, Zenon
  <2> QED BY <1>4, <2>2, <2>4 DEF In, Covers
<1>6. CASE filter = "9/7"
  <2>1. In(m3, m4, P)
      BY <1>0, <1>6, Zenon DEF ReachedFrom
  <2>2. Reached(filter, P, n, lo % 2) = A(A(A(A(P, FALSE), TRUE), FALSE), TRUE)
      BY <1>6 DEF Reached
  <2> HIDE DEF In, A
  <2>3. In(m3, m4, A(P, FALSE))
      BY <1>2, <1>7, <2>1, Zenon
  <2>4. In(m3, m2, A(A(P, FALSE), TRUE))
      BY <1>3, <1>7, <2>3, Zenon
  <2>5. In(m1, m2, A(A(A(P, FALSE), TRUE), FALSE))
      BY <1>2, <1>7, <2>4, Zenon
  <2>6. In(m1, margin, A(A(A(A(P, FALSE), TRUE), FALSE), TRUE))
      BY <1>3, <1>7, <2>5, Zenon
  <2> QED BY <1>4, <2>2, <2>6 DEF In, Covers
<1> QED BY <1>5, <1>6 DEF Filters

-----------------------------------------------------------------------------
(* The window on each resolution and on its bands.                         *)

\* The window lies in the component, so it does in each resolution, and is halved with them.
LEMMA WindowExtent ==
    ASSUME NEW j \in Jobs, NEW a \in Axes, NEW r \in 0 .. Levels(j) - 1
    PROVE  /\ FromOf(j, r, a) \in Nat /\ ToOf(j, r, a) \in Nat
           /\ LoOf(j, r, a) <= FromOf(j, r, a) /\ FromOf(j, r, a) <= ToOf(j, r, a) /\ ToOf(j, r, a) <= HiOf(j, r, a)
           /\ r > 0 => /\ FromOf(j, r - 1, a) = (FromOf(j, r, a) + 1) \div 2
                       /\ ToOf(j, r - 1, a) = (ToOf(j, r, a) + 1) \div 2
<1>1. PICK l \in Nat, h \in Nat, f \in Nat, t \in Nat :
          /\ l = CompLo(j.tile, 0, a) /\ h = CompHi(j.tile, 0, a) /\ f = j.win.lo[a] /\ t = j.win.hi[a]
          /\ l <= f /\ f <= t /\ t <= h
    BY ComponentExtent, JobsAssumption
<1>0. PICK k \in Nat : k = Levels(j)
    BY ComponentExtent
<1>2. PICK n \in Nat : n = Level(j.tile, 0, r) /\ n = k - 1 - r
    BY <1>0 DEF Level, Levels
<1>3. PICK p \in Nat \ {0} : p = 2^n
  <2>1. 2^n \in Nat /\ 2^n >= 1
      BY PowerPositive
  <2> QED BY <2>1
<1>4. /\ LoOf(j, r, a) = CeilDiv(l, p) /\ HiOf(j, r, a) = CeilDiv(h, p)
      /\ FromOf(j, r, a) = CeilDiv(f, p) /\ ToOf(j, r, a) = CeilDiv(t, p)
    BY <1>0, <1>1, <1>2, <1>3 DEF LoOf, HiOf, ResLo, ResHi, FromOf, ToOf, CeilDivPow2
<1>5. CeilDiv(f, p) \in Nat /\ CeilDiv(t, p) \in Nat
    BY CeilDivNat
<1>6. CeilDiv(l, p) <= CeilDiv(f, p) /\ CeilDiv(f, p) <= CeilDiv(t, p) /\ CeilDiv(t, p) <= CeilDiv(h, p)
    BY <1>1, CeilDivMonotone
<1>7. ASSUME r > 0
      PROVE  /\ FromOf(j, r - 1, a) = (FromOf(j, r, a) + 1) \div 2
             /\ ToOf(j, r - 1, a) = (ToOf(j, r, a) + 1) \div 2
  <2>1. k - 1 - (r - 1) = n + 1
      BY <1>0, <1>2
  <2>2. /\ CeilDivPow2(f, n + 1) = (CeilDivPow2(f, n) + 1) \div 2
        /\ CeilDivPow2(t, n + 1) = (CeilDivPow2(t, n) + 1) \div 2
    <3>1. f \in Int /\ t \in Int
        OBVIOUS
    <3> QED BY <3>1, CeilDivPow2Halves
  <2> QED BY <1>0, <1>1, <1>2, <2>1, <2>2 DEF FromOf, ToOf
<1> QED BY <1>4, <1>5, <1>6, <1>7

\* A coordinate of the window on a band.
LEMMA WindowOnBand ==
    ASSUME job \in Jobs, NEW v \in Nat, NEW r \in 1 .. Levels(job) - 1
    PROVE  /\ BandCoord(v, r, 0) = CeilDivPow2(v, Levels(job) - 1 - (r - 1))
           /\ BandCoord(v, r, 1) = CeilDivPow2(v, Levels(job) - 1 - r) \div 2
<1>0. PICK k \in Nat : k = Levels(job) /\ k = N
    BY JobRanges, OfThisJob
<1>1. PICK n \in Nat : n = k - 1 - r /\ k - r = n + 1 /\ k - 1 - (r - 1) = n + 1 /\ r # 0
    BY <1>0
<1>2. PICK p \in Nat \ {0} : p = 2^n /\ p + p = 2^(n + 1)
  <2>1. 2^n \in Nat /\ 2^n >= 1 /\ 2^(n + 1) = 2^n + 2^n
      BY PowerPositive, PowerDoubles
  <2>2. 2^n \in Nat \ {0}
      BY <2>1
  <2> QED BY <2>1, <2>2, Zenon
<1>3. (n + 1) - 1 = n /\ n + 1 # 0 /\ n + 1 > 0
    OBVIOUS
<1>4. \A high \in {0, 1} : BandCoord(v, r, high) = IF v <= p * high THEN 0 ELSE CeilDiv(v - p * high, p + p)
  <2>1. \A high \in {0, 1} : BandCoord(v, r, high) =
            IF n + 1 > 0 /\ v <= (IF n + 1 = 0 THEN 0 ELSE 2^((n + 1) - 1) * high) THEN 0
            ELSE CeilDiv(v - (IF n + 1 = 0 THEN 0 ELSE 2^((n + 1) - 1) * high), 2^(n + 1))
      BY <1>0, <1>1, Zenon DEF BandCoord, CeilDivPow2
  <2> QED BY <1>2, <1>3, <2>1
<1>5. BandCoord(v, r, 0) = IF v <= 0 THEN 0 ELSE CeilDiv(v, p + p)
  <2>1. p * 0 = 0 /\ v - 0 = v
      OBVIOUS
  <2> QED BY <1>4, <2>1
<1>6. BandCoord(v, r, 1) = IF v <= p THEN 0 ELSE CeilDiv(v - p, p + p)
  <2>1. p * 1 = p
      OBVIOUS
  <2> QED BY <1>4, <2>1
<1>7. ASSUME NEW x \in Int, x <= 0, x >= -p PROVE CeilDiv(x, p + p) = 0
  <2>1. (p + p) * 0 = 0 /\ p + p \in Nat \ {0}
      OBVIOUS
  <2> QED BY <1>7, <2>1, CeilDivUnique
<1>8. BandCoord(v, r, 0) = CeilDivPow2(v, n + 1)
  <2>1. v <= 0 => CeilDiv(v, p + p) = 0
      BY <1>7
  <2> QED BY <1>2, <1>5, <2>1 DEF CeilDivPow2
<1>9. CeilDiv(v - p, p + p) = CeilDivPow2(v, n) \div 2
  <2>1. v \in Int
      OBVIOUS
  <2>2. CeilDiv(v - 2^n, 2^(n + 1)) = CeilDivPow2(v, n) \div 2
      BY <2>1, CeilDivPow2Halves
  <2> QED BY <1>2, <2>2, Zenon
<1>10. BandCoord(v, r, 1) = CeilDivPow2(v, n) \div 2
  <2>1. v <= p => CeilDiv(v - p, p + p) = 0
      BY <1>7
  <2> QED BY <1>6, <1>9, <2>1
<1> QED BY <1>0, <1>1, <1>8, <1>10

\* The numbers of one axis of a resolution.
Ruler(j, r, a, n, lo, from, to) ==
    /\ n \in Nat /\ lo \in Nat /\ from \in Nat /\ to \in Nat
    /\ lo <= from /\ from <= to /\ to <= lo + n
    /\ n = SizeOf(j, r, a) /\ lo = LoOf(j, r, a) /\ from = FromOf(j, r, a) /\ to = ToOf(j, r, a)

\* Those of the resolution below follow from them.
RulerBelow(j, r, a, n, lo, from, to) ==
    /\ LoOf(j, r - 1, a) = (lo + 1) \div 2 /\ SizeOf(j, r - 1, a) = LowCount(n, lo % 2)
    /\ FromOf(j, r - 1, a) = (from + 1) \div 2 /\ ToOf(j, r - 1, a) = (to + 1) \div 2

\* Every axis of a resolution has them.
LEMMA Measured ==
    ASSUME NEW j \in Jobs, NEW a \in Axes, NEW r \in 0 .. Levels(j) - 1
    PROVE  \E n, lo, from, to : Ruler(j, r, a, n, lo, from, to)
<1>1. PICK l \in Nat, h \in Nat, f \in Nat, t \in Nat :
          /\ l = LoOf(j, r, a) /\ h = HiOf(j, r, a) /\ f = FromOf(j, r, a) /\ t = ToOf(j, r, a)
          /\ l <= f /\ f <= t /\ t <= h
    BY WindowExtent, ResolutionExtent
<1>2. h - l \in Nat /\ SizeOf(j, r, a) = h - l /\ t <= l + (h - l)
    BY <1>1 DEF SizeOf
<1>3. Ruler(j, r, a, h - l, l, f, t)
    BY <1>1, <1>2 DEF Ruler
<1> QED BY <1>3

\* A resolution, and the window on it, are halved for the one below.
LEMMA MeasuredBelow ==
    ASSUME NEW j \in Jobs, NEW a \in Axes, NEW r \in 1 .. Levels(j) - 1,
           NEW n, NEW lo, NEW from, NEW to, Ruler(j, r, a, n, lo, from, to)
    PROVE  RulerBelow(j, r, a, n, lo, from, to)
<1>1. r \in 0 .. Levels(j) - 1 /\ r > 0
    OBVIOUS
<1>2. PICK h \in Nat : h = HiOf(j, r, a) /\ n = h - lo /\ lo <= h
    BY <1>1, ResolutionExtent DEF Ruler, SizeOf
<1>3. /\ n \in Nat /\ lo \in Nat /\ lo = LoOf(j, r, a) /\ from = FromOf(j, r, a) /\ to = ToOf(j, r, a)
    BY DEF Ruler
<1>4. LoOf(j, r - 1, a) = (lo + 1) \div 2 /\ HiOf(j, r - 1, a) = (h + 1) \div 2
    BY <1>2, <1>3, ResolutionHalved
<1>5. SizeOf(j, r - 1, a) = (h + 1) \div 2 - (lo + 1) \div 2
    BY <1>4 DEF SizeOf
<1>6. LowCount(n, lo % 2) = (h + 1) \div 2 - (lo + 1) \div 2
  <2>1. PICK c \in Nat : lo = 2 * c \/ lo = 2 * c + 1
    <3>1. lo \div 2 \in Nat /\ (lo = 2 * (lo \div 2) \/ lo = 2 * (lo \div 2) + 1)
        BY <1>3
    <3> QED BY <3>1
  <2>2. LowCount(n, lo % 2) = (h - lo + 1 - (lo % 2)) \div 2
      BY <1>2 DEF LowCount
  <2>3. CASE lo = 2 * c
    <3>1. lo % 2 = 0 /\ (lo + 1) \div 2 = c
        BY <2>3
    <3>2. h - 2 * c + 1 - 0 = (h + 1) - 2 * c /\ ((h + 1) - 2 * c) \div 2 = (h + 1) \div 2 - c
        OBVIOUS
    <3> QED BY <2>2, <2>3, <3>1, <3>2
  <2>4. CASE lo = 2 * c + 1
    <3>1. lo % 2 = 1 /\ (lo + 1) \div 2 = c + 1
        BY <2>4
    <3>2. (h - lo + 1 - 1) \div 2 = (h + 1) \div 2 - (c + 1)
        BY <1>2, <2>4
    <3> QED BY <2>2, <3>1, <3>2
  <2> QED BY <2>1, <2>3, <2>4
<1>7. FromOf(j, r - 1, a) = (from + 1) \div 2 /\ ToOf(j, r - 1, a) = (to + 1) \div 2
    BY <1>1, <1>3, WindowExtent
<1> QED BY <1>4, <1>5, <1>6, <1>7 DEF RulerBelow

-----------------------------------------------------------------------------
(* The margins of the levels are enough.                                   *)

\* Halves of the bounds of a zone.
LEMMA ZoneHalved ==
    ASSUME NEW u \in Int, NEW from \in Int, NEW to \in Int, NEW k \in Int, from - 2 * k <= u, u < to + 2 * k
    PROVE  IF u % 2 = 0 THEN (from + 1) \div 2 - k <= u \div 2 /\ u \div 2 < (to + 1) \div 2 + k
           ELSE from \div 2 - k <= u \div 2 /\ u \div 2 < to \div 2 + k
<1>1. PICK h \in Int : h = u \div 2 /\ ((u = 2 * h /\ u % 2 = 0) \/ (u = 2 * h + 1 /\ u % 2 # 0))
  <2>1. /\ u \div 2 \in Int
        /\ (u = 2 * (u \div 2) /\ u % 2 = 0) \/ (u = 2 * (u \div 2) + 1 /\ u % 2 # 0)
      OBVIOUS
  <2> QED BY <2>1
<1>2. CASE u = 2 * h /\ u % 2 = 0
  <2>1. (from + 1) \div 2 - k <= h /\ h < (to + 1) \div 2 + k
      BY <1>2
  <2> QED BY <1>1, <1>2, <2>1
<1>3. CASE u = 2 * h + 1 /\ u % 2 # 0
  <2>1. from \div 2 - k <= h /\ h < to \div 2 + k
      BY <1>3
  <2> QED BY <1>1, <1>3, <2>1
<1> QED BY <1>1, <1>2, <1>3

\* Where an element is in the transformed line, by its coordinate.
LEMMA PlaceByCoordinate ==
    ASSUME NEW n \in Nat, NEW lo \in Nat, NEW q \in 0 .. n - 1
    PROVE  /\ Place(q, n, lo % 2) \in 0 .. n - 1 /\ q \div 2 \in Nat /\ LowCount(n, lo % 2) \in Nat
           /\ IsHigh(q, lo % 2) <=> (q + lo) % 2 # 0
           /\ (q + lo) % 2 = 0 => /\ Place(q, n, lo % 2) = q \div 2 /\ q \div 2 < LowCount(n, lo % 2)
                                  /\ (q + lo) \div 2 = q \div 2 + (lo + 1) \div 2
           /\ (q + lo) % 2 # 0 => /\ Place(q, n, lo % 2) = LowCount(n, lo % 2) + q \div 2
                                  /\ q \div 2 < n - LowCount(n, lo % 2)
                                  /\ (q + lo) \div 2 = q \div 2 + lo \div 2
<1>1. PICK cas \in {0, 1} : cas = lo % 2
    OBVIOUS
<1>2. Place(q, n, cas) \in 0 .. n - 1
    BY PlaceOrdinal
<1>3. IsHigh(q, cas) <=> (q + lo) % 2 # 0
    BY <1>1 DEF IsHigh
<1>4. q \div 2 \in Nat /\ LowCount(n, cas) \in Nat
    BY DEF LowCount
<1>5. ASSUME (q + lo) % 2 = 0
      PROVE  q \div 2 < LowCount(n, cas) /\ (q + lo) \div 2 = q \div 2 + (lo + 1) \div 2
    BY <1>1, <1>5 DEF LowCount
<1>6. ASSUME (q + lo) % 2 # 0
      PROVE  q \div 2 < n - LowCount(n, cas) /\ (q + lo) \div 2 = q \div 2 + lo \div 2
    BY <1>1, <1>6 DEF LowCount
<1> QED BY <1>1, <1>2, <1>3, <1>4, <1>5, <1>6 DEF Place

\* The elements of resolution r whose places in the transformed line are known.
Found(j, r, a) ==
    {q \in 0 .. SizeOf(j, r, a) - 1 : Place(q, SizeOf(j, r, a), CasOf(j, r, a)) \in Known(j, r, a)}

\* How far a filter reaches.
Reach(filter) == IF filter = "5/3" THEN 1 ELSE 3

\* The margins are enough for the filter, one resolution below the other.
LEMMA MarginsSuffice ==
    ASSUME NEW j \in Jobs, j.filter = "5/3" \/ j.got <= 3, NEW r \in 1 .. j.got - 1
    PROVE  /\ Margin(j, r) \in Nat /\ Margin(j, r - 1) \in Nat /\ BandMargin(j) \in Nat
           /\ Margin(j, r) + Reach(j.filter) <= 2 * Margin(j, r - 1)
           /\ Margin(j, r) + Reach(j.filter) + 1 <= 2 * BandMargin(j)
           /\ Margin(j, r - 1) <= BandMargin(j)
<1>1. PICK got \in Nat : got = j.got /\ r \in Int /\ 1 <= r /\ r <= got - 1
    BY JobRanges
<1>2. CASE j.filter = "5/3"
    BY <1>2 DEF Margin, BandMargin, Reach
<1>3. CASE j.filter = "9/7"
  <2>1. got <= 3 /\ j.filter # "5/3"
      BY <1>1, <1>3
  <2>2. CASE r = got - 1
    <3>1. Margin(j, r) = 0 /\ Margin(j, r - 1) = 2
        BY <1>1, <2>1, <2>2 DEF Margin
    <3> QED BY <2>1, <3>1 DEF BandMargin, Reach
  <2>3. CASE r = got - 2
    <3>1. Margin(j, r) = 2 /\ Margin(j, r - 1) = 3
        BY <1>1, <2>1, <2>3 DEF Margin
    <3> QED BY <2>1, <3>1 DEF BandMargin, Reach
  <2> QED BY <1>1, <2>1, <2>2, <2>3
<1> QED BY <1>2, <1>3, JobRanges DEF Filters

\* What is known of a resolution taken apart reaches as far as the filter needs for what is to be
\* exact of it.
LEMMA FoundCovers ==
    ASSUME NEW j \in Jobs, j.filter = "5/3" \/ j.got <= 3, NEW r \in 1 .. j.got - 1, NEW a \in Axes,
           NEW n \in Nat, NEW lo \in Nat, NEW from \in Nat, NEW to \in Nat, Ruler(j, r, a, n, lo, from, to)
    PROVE  ReachedFrom(Found(j, r, a), j.filter, n, lo, from, to, Margin(j, r))
<1>1. r \in 1 .. Levels(j) - 1
    BY JobRanges
<1>2. /\ n = SizeOf(j, r, a) /\ lo = LoOf(j, r, a)
      /\ from = FromOf(j, r, a) /\ to = ToOf(j, r, a)
    BY DEF Ruler
<1>3. RulerBelow(j, r, a, n, lo, from, to)
    BY <1>1, MeasuredBelow
<1>4. PICK m \in Nat, m1 \in Nat, b \in Nat, e \in Nat :
          /\ m = Margin(j, r) /\ m1 = Margin(j, r - 1) /\ b = BandMargin(j) /\ e = m + Reach(j.filter)
          /\ e <= 2 * m1 /\ e + 1 <= 2 * b
  <2>1. Reach(j.filter) \in Nat
      BY DEF Reach
  <2> QED BY <2>1, MarginsSuffice
<1>5. ASSUME NEW q \in Zone(n, lo, from, to, e, e + 1) PROVE q \in Found(j, r, a)
  <2>1. q \in 0 .. n - 1
      BY <1>5 DEF Zone
  <2>2. Place(q, n, lo % 2) \in 0 .. n - 1
      BY <2>1, PlaceByCoordinate
  <2>4. CASE (q + lo) % 2 = 0
    <3>1. from - 2 * m1 <= q + lo /\ q + lo < to + 2 * m1
        BY <1>2, <1>4, <1>5, <2>1, <2>4 DEF Zone
    <3>2. (from + 1) \div 2 - m1 <= (q + lo) \div 2 /\ (q + lo) \div 2 < (to + 1) \div 2 + m1
      <4>1. PICK u \in Int : u = q + lo /\ u % 2 = 0 /\ from - 2 * m1 <= u /\ u < to + 2 * m1
          BY <2>1, <2>4, <3>1
      <4>2. from \in Int /\ to \in Int /\ m1 \in Int
          OBVIOUS
      <4>3. (from + 1) \div 2 - m1 <= u \div 2 /\ u \div 2 < (to + 1) \div 2 + m1
          BY <4>1, <4>2, ZoneHalved
      <4> QED BY <4>1, <4>3
    <3>3. (q + lo) \div 2 = q \div 2 + (lo + 1) \div 2
        BY <2>1, <2>4, PlaceByCoordinate
    <3>4. Place(q, n, lo % 2) = q \div 2
        BY <2>1, <2>4, PlaceByCoordinate
    <3>5. q \div 2 \in 0 .. LowCount(n, lo % 2) - 1
        BY <2>1, <2>4, PlaceByCoordinate
    <3>6. q \div 2 \in Exact(j, r - 1, a)
        BY <1>3, <1>4, <3>2, <3>3, <3>5 DEF Exact, RulerBelow
    <3>7. q \div 2 < SizeOf(j, r - 1, a)
        BY <1>3, <3>5 DEF RulerBelow, LowCount
    <3>8. Place(q, n, lo % 2) \in Known(j, r, a)
        BY <1>2, <2>2, <3>4, <3>6, <3>7 DEF Known
    <3> QED BY <1>2, <2>1, <3>8 DEF Found, CasOf
  <2>5. CASE (q + lo) % 2 # 0
    <3>1. from - 2 * b <= q + lo /\ q + lo < to + 2 * b
        BY <1>2, <1>4, <1>5, <2>1, <2>5 DEF Zone
    <3>2. from \div 2 - b <= (q + lo) \div 2 /\ (q + lo) \div 2 < to \div 2 + b
        BY <1>2, <2>1, <2>5, <3>1, ZoneHalved
    <3>3. (q + lo) \div 2 = q \div 2 + lo \div 2
        BY <2>1, <2>5, PlaceByCoordinate
    <3>4. PICK c \in Int, k \in Nat : c = Place(q, n, lo % 2) /\ k = LowCount(n, lo % 2) /\ c = k + q \div 2 /\ c >= k
      <4>1. /\ Place(q, n, lo % 2) = LowCount(n, lo % 2) + q \div 2 /\ q \div 2 \in Nat
            /\ LowCount(n, lo % 2) \in Nat
          BY <2>1, <2>5, PlaceByCoordinate
      <4> QED BY <4>1
    <3>5. SizeOf(j, r - 1, a) = k
        BY <1>3, <3>4 DEF RulerBelow
    <3>6. c - k + lo \div 2 = (q + lo) \div 2
        BY <1>2, <2>1, <3>3, <3>4
    <3>7. c \in Known(j, r, a)
        BY <1>2, <1>4, <2>2, <3>2, <3>4, <3>5, <3>6 DEF Known
    <3> QED BY <1>2, <2>1, <3>4, <3>7 DEF Found, CasOf
  <2> QED BY <2>4, <2>5
<1>6. Covers(Found(j, r, a), n, lo, from, to, e, e + 1)
    BY <1>2, <1>5 DEF Covers, Found
<1>7. CASE j.filter = "5/3"
  <2>1. e = m + 1 /\ e + 1 = m + 2
      BY <1>4, <1>7 DEF Reach
  <2> QED BY <1>4, <1>6, <1>7, <2>1 DEF ReachedFrom
<1>8. CASE j.filter = "9/7"
  <2>1. e = m + 3 /\ e + 1 = m + 4
      BY <1>4, <1>8 DEF Reach
  <2> QED BY <1>4, <1>6, <1>8, <2>1 DEF ReachedFrom
<1> QED BY <1>7, <1>8, JobRanges DEF Filters

\* What is to be exact of a resolution is within reach of the filter.
LEMMA ExactReached ==
    ASSUME NEW j \in Jobs, j.filter = "5/3" \/ j.got <= 3, NEW r \in 1 .. j.got - 1, NEW a \in Axes
    PROVE  /\ Found(j, r, a) \in SUBSET (0 .. SizeOf(j, r, a) - 1)
           /\ Exact(j, r, a) \subseteq Found(j, r, a)
           /\ SizeOf(j, r, a) > 1 =>
                  Exact(j, r, a) \subseteq Reached(j.filter, Found(j, r, a), SizeOf(j, r, a), CasOf(j, r, a))
<1>1. r \in 0 .. Levels(j) - 1 /\ j.filter \in Filters
    BY JobRanges
<1>2. PICK n, lo, from, to : Ruler(j, r, a, n, lo, from, to)
    BY <1>1, Measured
<1>3. /\ n \in Nat /\ lo \in Nat /\ from \in Nat /\ to \in Nat
      /\ n = SizeOf(j, r, a) /\ lo = LoOf(j, r, a) /\ from = FromOf(j, r, a) /\ to = ToOf(j, r, a)
    BY <1>2 DEF Ruler
<1>4. PICK m \in Nat : m = Margin(j, r)
    BY MarginsSuffice
<1>5. ReachedFrom(Found(j, r, a), j.filter, n, lo, from, to, m)
    BY <1>2, <1>3, <1>4, FoundCovers
<1>6. Exact(j, r, a) = Zone(n, lo, from, to, m, m)
  <2>1. \A q \in 0 .. n - 1 :
            (from - m <= q + lo /\ q + lo < to + m) <=>
            (/\ from - (IF (q + lo) % 2 = 0 THEN m ELSE m) <= q + lo
             /\ q + lo < to + (IF (q + lo) % 2 = 0 THEN m ELSE m))
      OBVIOUS
  <2> QED BY <1>3, <1>4, <2>1 DEF Exact, Zone
<1>7. PICK e \in Nat : Covers(Found(j, r, a), n, lo, from, to, e, e + 1) /\ e >= m
  <2>1. CASE j.filter = "5/3"
    <3>1. Covers(Found(j, r, a), n, lo, from, to, m + 1, m + 2) /\ m + 1 \in Nat /\ (m + 1) + 1 = m + 2
        BY <1>5, <2>1 DEF ReachedFrom
    <3> QED BY <3>1
  <2>2. CASE j.filter # "5/3"
    <3>1. Covers(Found(j, r, a), n, lo, from, to, m + 3, m + 4) /\ m + 3 \in Nat /\ (m + 3) + 1 = m + 4
        BY <1>5, <2>2 DEF ReachedFrom
    <3> QED BY <3>1
  <2> QED BY <2>1, <2>2
<1>8. Zone(n, lo, from, to, m, m) \subseteq Zone(n, lo, from, to, e, e + 1)
  <2> SUFFICES ASSUME NEW q \in Zone(n, lo, from, to, m, m) PROVE q \in Zone(n, lo, from, to, e, e + 1)
      OBVIOUS
  <2>1. q \in 0 .. n - 1 /\ from - m <= q + lo /\ q + lo < to + m
      BY DEF Zone
  <2>2. /\ from - e <= q + lo /\ q + lo < to + e
        /\ from - (e + 1) <= q + lo /\ q + lo < to + (e + 1)
      BY <1>3, <1>7, <2>1
  <2> QED BY <2>1, <2>2 DEF Zone
<1>9. Exact(j, r, a) \subseteq Found(j, r, a) /\ Found(j, r, a) \in SUBSET (0 .. n - 1)
    BY <1>6, <1>7, <1>8 DEF Covers
<1>10. ASSUME n > 1 PROVE Zone(n, lo, from, to, m, m) \subseteq Reached(j.filter, Found(j, r, a), n, lo % 2)
  <2>1. from \in Int /\ to \in Int /\ m \in Int
      BY <1>3
  <2> QED BY <1>1, <1>3, <1>5, <1>10, <2>1, ZoneReached
<1> QED BY <1>3, <1>6, <1>9, <1>10 DEF CasOf

\* A segment, from f to t on a band that begins at b, takes in a margin m of the band's size elements.
Holding(seg, f, t, b, size, m) ==
    /\ seg[1] \in Int /\ seg[2] \in Int
    /\ \A x \in Nat : x < size /\ f - m <= x + b /\ x + b < t + m => Within(x, seg)

\* A segment grown by the width of the filter holds what lies within the margin of the band.
LEMMA GrownHolds ==
    ASSUME NEW f \in Nat, NEW t \in Nat, NEW b \in Nat, NEW size \in Int, b <= f, f <= t,
           NEW m \in Nat, m <= FilterWidth
    PROVE  Holding(Grown(Less(f, b), Less(t, b), size), f, t, b, size, m)
<1>1. PICK w \in Nat : w = FilterWidth /\ m <= w
    BY DEF FilterWidth
<1>2. PICK c \in Nat, d \in Nat : c = f - b /\ d = t - b /\ c = Less(f, b) /\ d = Less(t, b)
  <2>1. f - b \in Nat /\ t - b \in Nat /\ Less(f, b) = f - b /\ Less(t, b) = t - b
      BY DEF Less
  <2> QED BY <2>1
<1>3. PICK lo \in Int : lo = Less(c, w) /\ (lo = 0 \/ lo = c - w)
    BY DEF Less
<1>4. PICK hi \in Int : hi = Min({d + w, size}) /\ (hi = d + w \/ hi = size) /\ hi <= size
  <2>1. d + w \in Int
      OBVIOUS
  <2>2. Min({d + w, size}) \in {d + w, size} /\ Min({d + w, size}) <= size
      BY <2>1, MinOfTwo
  <2> QED BY <2>1, <2>2
<1>5. Grown(Less(f, b), Less(t, b), size) = <<lo, hi>>
    BY <1>1, <1>2, <1>3, <1>4 DEF Grown
<1>6. ASSUME NEW x \in Nat, x < size, f - m <= x + b, x + b < t + m PROVE lo <= x /\ x < hi
    BY <1>1, <1>2, <1>3, <1>4, <1>6
<1> QED BY <1>5, <1>6 DEF Within, Holding

\* The two segments of a line.
LEMMA SegmentsHold ==
    ASSUME job \in Jobs, NEW r \in 1 .. Levels(job) - 1, NEW a \in Axes,
           NEW n \in Nat, NEW lo \in Nat, NEW from \in Nat, NEW to \in Nat, Ruler(job, r, a, n, lo, from, to),
           NEW m \in Nat, m <= FilterWidth
    PROVE  /\ Holding(LowSeg(r, a), (from + 1) \div 2, (to + 1) \div 2, (lo + 1) \div 2, LowCount(n, lo % 2), m)
           /\ Holding(HighSeg(r, a), from \div 2, to \div 2, lo \div 2, n - LowCount(n, lo % 2), m)
<1>1. /\ n = SizeOf(job, r, a) /\ lo = LoOf(job, r, a) /\ from = FromOf(job, r, a) /\ to = ToOf(job, r, a)
      /\ lo <= from /\ from <= to
    BY DEF Ruler
<1>2. RulerBelow(job, r, a, n, lo, from, to)
    BY MeasuredBelow
<1>3. PICK wl \in Nat, wh \in Nat : wl = job.win.lo[a] /\ wh = job.win.hi[a]
    BY JobsAssumption
<1>4. /\ BandCoord(wl, r, 0) = (from + 1) \div 2 /\ BandCoord(wh, r, 0) = (to + 1) \div 2
      /\ BandCoord(wl, r, 1) = from \div 2 /\ BandCoord(wh, r, 1) = to \div 2
    BY <1>1, <1>2, <1>3, WindowOnBand DEF RulerBelow, FromOf, ToOf
<1>5. BandFirst(r, 0, a) = (lo + 1) \div 2 /\ BandFirst(r, 1, a) = lo \div 2
  <2>1. r # 0 /\ LoOf(job, r - 1, a) = (lo + 1) \div 2
      BY <1>2 DEF RulerBelow
  <2> QED BY <1>1, <2>1, ResolutionHalved DEF BandFirst
<1>6. LowSize(r, a) = LowCount(n, lo % 2) /\ HighSize(r, a) = n - LowCount(n, lo % 2)
    BY <1>1, <1>2, OfThisJob DEF LowSize, HighSize, RulerBelow
<1>7. PICK k \in Int : k = LowCount(n, lo % 2)
    BY DEF LowCount
<1>8. LowSeg(r, a) = Grown(Less((from + 1) \div 2, (lo + 1) \div 2), Less((to + 1) \div 2, (lo + 1) \div 2), k)
    BY <1>3, <1>4, <1>5, <1>6, <1>7 DEF LowSeg, Segment
<1>9. HighSeg(r, a) = Grown(Less(from \div 2, lo \div 2), Less(to \div 2, lo \div 2), n - k)
    BY <1>3, <1>4, <1>5, <1>6, <1>7 DEF HighSeg, Segment
<1>10. /\ (from + 1) \div 2 \in Nat /\ (to + 1) \div 2 \in Nat /\ (lo + 1) \div 2 \in Nat
       /\ (lo + 1) \div 2 <= (from + 1) \div 2 /\ (from + 1) \div 2 <= (to + 1) \div 2
       /\ from \div 2 \in Nat /\ to \div 2 \in Nat /\ lo \div 2 \in Nat
       /\ lo \div 2 <= from \div 2 /\ from \div 2 <= to \div 2 /\ n - k \in Int
    BY <1>1
<1>11. \A f, t, b \in Nat : b <= f /\ f <= t => \A size \in Int : Holding(Grown(Less(f, b), Less(t, b), size), f, t, b, size, m)
    BY GrownHolds
<1> QED BY <1>7, <1>8, <1>9, <1>10, <1>11

\* What is known of a line of resolution r is in its segments, and in what is made of it.
LEMMA FoundSegmented ==
    ASSUME job \in Jobs, WithinReach, NEW r \in 1 .. job.got - 1, NEW a \in Axes
    PROVE  /\ Segmented(Found(job, r, a), CasOf(job, r, a), Seg(r, a))
           /\ \A q \in Found(job, r, a) : Within(q, Made(r, a))
           /\ Made(r, a)[1] \in Int /\ Made(r, a)[2] \in Int /\ Made(r, a)[2] <= SizeOf(job, r, a)
<1>1. r \in 0 .. Levels(job) - 1 /\ r \in 1 .. Levels(job) - 1
    BY JobRanges
<1>2. PICK n \in Nat, lo \in Nat, from \in Nat, to \in Nat : Ruler(job, r, a, n, lo, from, to)
    BY <1>1, Measured DEF Ruler
<1>3. n = SizeOf(job, r, a) /\ lo = LoOf(job, r, a) /\ from = FromOf(job, r, a) /\ to = ToOf(job, r, a)
    BY <1>2 DEF Ruler
<1>4. RulerBelow(job, r, a, n, lo, from, to)
    BY <1>1, <1>2, MeasuredBelow
<1>5. PICK b \in Nat, m1 \in Nat : /\ b = BandMargin(job) /\ m1 = Margin(job, r - 1) /\ m1 <= b
                                   /\ b <= FilterWidth
    BY MarginsSuffice DEF WithinReach, FilterWidth, BandMargin
<1>6. /\ Holding(LowSeg(r, a), (from + 1) \div 2, (to + 1) \div 2, (lo + 1) \div 2, LowCount(n, lo % 2), b)
      /\ Holding(HighSeg(r, a), from \div 2, to \div 2, lo \div 2, n - LowCount(n, lo % 2), b)
    BY <1>1, <1>2, <1>5, SegmentsHold
<1>7. ASSUME NEW q \in Found(job, r, a) PROVE Within(q \div 2, Seg(r, a)[IsHigh(q, lo % 2)])
  <2>1. q \in 0 .. n - 1 /\ Place(q, n, lo % 2) \in Known(job, r, a)
      BY <1>3 DEF Found, CasOf
  <2>2. PICK h \in Nat : h = q \div 2
      BY <2>1
  <2>3. PICK k \in Nat : k = LowCount(n, lo % 2) /\ SizeOf(job, r - 1, a) = k
      BY <1>4, <2>1, PlaceByCoordinate DEF RulerBelow
  <2>4. CASE (q + lo) % 2 = 0
    <3>1. Place(q, n, lo % 2) = h /\ h < k /\ ~IsHigh(q, lo % 2)
        BY <2>1, <2>2, <2>3, <2>4, PlaceByCoordinate
    <3>2. h \in Exact(job, r - 1, a)
        BY <2>1, <2>3, <3>1 DEF Known
    <3>3. (from + 1) \div 2 - m1 <= h + (lo + 1) \div 2 /\ h + (lo + 1) \div 2 < (to + 1) \div 2 + m1
        BY <1>4, <1>5, <3>2 DEF Exact, RulerBelow
    <3>4. Within(h, LowSeg(r, a))
      <4>1. (from + 1) \div 2 - b <= h + (lo + 1) \div 2 /\ h + (lo + 1) \div 2 < (to + 1) \div 2 + b
          BY <1>5, <3>3
      <4> QED BY <1>6, <2>3, <3>1, <4>1 DEF Holding
    <3>5. Seg(r, a)[FALSE] = LowSeg(r, a) /\ IsHigh(q, lo % 2) = FALSE
        BY <3>1 DEF Seg, IsHigh
    <3> QED BY <2>2, <3>4, <3>5
  <2>5. CASE (q + lo) % 2 # 0
    <3>1. Place(q, n, lo % 2) = k + h /\ h < n - k /\ IsHigh(q, lo % 2)
        BY <2>1, <2>2, <2>3, <2>5, PlaceByCoordinate
    <3>2. from \div 2 - b <= (k + h) - k + lo \div 2 /\ (k + h) - k + lo \div 2 < to \div 2 + b
        BY <1>3, <1>5, <2>1, <2>3, <3>1 DEF Known
    <3>3. Within(h, HighSeg(r, a))
      <4>1. from \div 2 - b <= h + lo \div 2 /\ h + lo \div 2 < to \div 2 + b
          BY <3>2
      <4> QED BY <1>6, <2>3, <3>1, <4>1 DEF Holding
    <3>4. Seg(r, a)[TRUE] = HighSeg(r, a) /\ IsHigh(q, lo % 2) = TRUE
        BY <3>1 DEF Seg, IsHigh
    <3> QED BY <2>2, <3>3, <3>4
  <2> QED BY <2>4, <2>5
<1>8. PICK e1 \in Int, e2 \in Int, o1 \in Int, o2 \in Int :
          /\ e1 = EvenSeg(r, a)[1] /\ e2 = EvenSeg(r, a)[2] /\ o1 = OddSeg(r, a)[1] /\ o2 = OddSeg(r, a)[2]
    BY <1>6 DEF EvenSeg, OddSeg, Holding
<1>9. PICK f \in Int, t \in Int : /\ Made(r, a) = <<f, t>>
                                  /\ f <= 2 * e1 /\ f <= 2 * o1 + 1 /\ t <= n
                                  /\ \A q \in Int : q < n /\ (q < 2 * e2 \/ q < 2 * o2 + 1) => q < t
  <2>1. PICK f \in Int : f = Min({2 * e1, 2 * o1 + 1}) /\ f <= 2 * e1 /\ f <= 2 * o1 + 1
    <3>1. PICK x \in Int, y \in Int : x = 2 * e1 /\ y = 2 * o1 + 1
        OBVIOUS
    <3>2. Min({x, y}) \in {x, y} /\ Min({x, y}) <= x /\ Min({x, y}) <= y
        BY MinOfTwo
    <3>3. Min({2 * e1, 2 * o1 + 1}) = Min({x, y})
        BY <3>1
    <3> QED BY <3>1, <3>2, <3>3
  <2>2. PICK g \in Int : g = Max({2 * e2, 2 * o2 + 1}) /\ g >= 2 * e2 /\ g >= 2 * o2 + 1
    <3>1. PICK x \in Int, y \in Int : x = 2 * e2 /\ y = 2 * o2 + 1
        OBVIOUS
    <3>2. Max({x, y}) \in {x, y} /\ Max({x, y}) >= x /\ Max({x, y}) >= y
        BY MaxOfTwo
    <3>3. Max({2 * e2, 2 * o2 + 1}) = Max({x, y})
        BY <3>1
    <3> QED BY <3>1, <3>2, <3>3
  <2>3. PICK t \in Int : t = Min({g, n}) /\ t <= n /\ (t = g \/ t = n)
    <3>1. n \in Int
        OBVIOUS
    <3> QED BY <3>1, MinOfTwo
  <2>4. Made(r, a) = <<f, t>>
      BY <1>3, <1>8, <2>1, <2>2, <2>3, OfThisJob DEF Made
  <2>5. \A q \in Int : q < n /\ (q < 2 * e2 \/ q < 2 * o2 + 1) => q < t
      BY <2>2, <2>3
  <2> QED BY <2>1, <2>3, <2>4, <2>5
<1>10. ASSUME NEW q \in Found(job, r, a) PROVE Within(q, Made(r, a))
  <2>1. q \in 0 .. n - 1 /\ q \in Int
      BY <1>3 DEF Found
  <2>2. PICK h \in Nat : h = q \div 2 /\ ((q = 2 * h /\ q % 2 = 0) \/ (q = 2 * h + 1 /\ q % 2 = 1))
    <3>1. q \div 2 \in Nat /\ ((q = 2 * (q \div 2) /\ q % 2 = 0) \/ (q = 2 * (q \div 2) + 1 /\ q % 2 = 1))
        BY <2>1
    <3> QED BY <3>1
  <2>3. CASE q = 2 * h /\ q % 2 = 0
    <3>1. Within(h, EvenSeg(r, a))
      <4>1. IsHigh(q, lo % 2) = (lo % 2 # 0) /\ Cas(r, a) = lo % 2
          BY <1>3, <2>3, OfThisJob DEF IsHigh, CasOf
      <4> QED BY <1>7, <2>2, <4>1 DEF Seg, EvenSeg
    <3>2. e1 <= h /\ h < e2
        BY <1>8, <3>1 DEF Within
    <3>3. f <= q /\ q < t
      <4>1. f <= 2 * e1 /\ 2 * e1 <= q /\ q < n /\ q < 2 * e2
          BY <1>9, <2>1, <2>3, <3>2
      <4> QED BY <1>9, <2>1, <4>1
    <3> QED BY <1>9, <3>3 DEF Within
  <2>4. CASE q = 2 * h + 1 /\ q % 2 = 1
    <3>1. Within(h, OddSeg(r, a))
      <4>1. IsHigh(q, lo % 2) = (lo % 2 = 0) /\ Cas(r, a) = lo % 2
          BY <1>3, <2>4, OfThisJob DEF IsHigh, CasOf
      <4> QED BY <1>7, <2>2, <4>1 DEF Seg, OddSeg
    <3>2. o1 <= h /\ h < o2
        BY <1>8, <3>1 DEF Within
    <3>3. f <= q /\ q < t
      <4>1. f <= 2 * o1 + 1 /\ 2 * o1 + 1 <= q /\ q < n /\ q < 2 * o2 + 1
          BY <1>9, <2>1, <2>4, <3>2
      <4> QED BY <1>9, <2>1, <4>1
    <3> QED BY <1>9, <3>3 DEF Within
  <2> QED BY <2>2, <2>3, <2>4
<1>11. Segmented(Found(job, r, a), CasOf(job, r, a), Seg(r, a))
    BY <1>3, <1>7 DEF Segmented, CasOf
<1> QED BY <1>3, <1>9, <1>10, <1>11

-----------------------------------------------------------------------------
(* The code-blocks near the window are decoded.                            *)

\* A code-block holds the places around which it is.
LEMMA BlockOfPlace ==
    ASSUME job \in Jobs, NEW a \in Axes, NEW r \in 0 .. Levels(job) - 1, NEW c \in 0 .. SizeOf(job, r, a) - 1,
           NEW high, high = IF r > 0 /\ c >= SizeOf(job, r - 1, a) THEN 1 ELSE 0,
           NEW u, u = BandFirst(r, high, a) + c - high * SizeOf(job, IF r = 0 THEN 0 ELSE r - 1, a)
    PROVE  /\ u \in Int /\ BlockLo(r, high, a, u) \in Int /\ BlockHi(r, high, a, u) \in Int
           /\ BlockLo(r, high, a, u) <= u /\ BlockHi(r, high, a, u) > u
<1>2. PICK first \in Int, end \in Int :
          first = BandFirst(r, high, a) /\ end = BandEnd(r, high, a) /\ u \in Int /\ first <= u /\ u < end
    BY PlaceOnBand
<1>3. PICK side \in Nat \ {0} : side = BlockSide(r, a)
  <2>1. Resolutions(job.tile, 0) = 0 .. Levels(job) - 1
      BY JobsAssumption DEF IsComponent, Levels
  <2>2. PICK pd \in Nat : pd = job.tile.comps[0].pd[r][a] /\ (r > 0 => pd > 0)
      BY <2>1, JobsAssumption DEF IsComponent
  <2>3. PICK e \in Nat : e = pd - IF r = 0 THEN 0 ELSE 1
    <3>1. CASE r = 0
        BY <3>1
    <3>2. CASE r # 0
      <4>1. r > 0
          BY <3>2
      <4>2. pd - 1 \in Nat
          BY <2>2, <4>1
      <4> QED BY <3>2, <4>2
    <3> QED BY <3>1, <3>2
  <2>4. 2^e \in Nat /\ 2^e >= 1
      BY PowerPositive
  <2>5. BlockSide(r, a) = 2^e
      BY <2>2, <2>3 DEF BlockSide
  <2> QED BY <2>4, <2>5
<1>4. /\ Max({first, (u \div side) * side}) \in Int /\ Max({first, (u \div side) * side}) <= u
      /\ Min({end, (u \div side + 1) * side}) \in Int /\ Min({end, (u \div side + 1) * side}) > u
  <2>1. first <= u /\ u < end /\ u \in Int
      BY <1>2
  <2> QED BY <2>1, BlockAround, Zenon
<1> QED BY <1>2, <1>3, <1>4 DEF BlockLo, BlockHi

\* Of interest to the window, along an axis: the code-block of band coordinate u.
Wanted(r, high, a, u) ==
    /\ BlockLo(r, high, a, u) < BandCoord(job.win.hi[a], r, high) + FilterMargin
    /\ BlockHi(r, high, a, u) > Less(BandCoord(job.win.lo[a], r, high), FilterMargin)

\* A code-block that holds a place within the margin of the window is of interest (tcd/decode.go,
\* isSubbandAreaOfInterest).
LEMMA NearWanted ==
    ASSUME NEW r, NEW high, NEW a, NEW u \in Nat, NEW from \in Nat, NEW to \in Nat, NEW m \in Nat, m <= FilterMargin,
           BlockLo(r, high, a, u) \in Int, BlockHi(r, high, a, u) \in Int,
           BlockLo(r, high, a, u) <= u, BlockHi(r, high, a, u) > u,
           from = BandCoord(job.win.lo[a], r, high), to = BandCoord(job.win.hi[a], r, high),
           from - m <= u, u < to + m
    PROVE  Wanted(r, high, a, u)
<1>1. PICK f \in Nat : f = FilterMargin /\ m <= f
    BY DEF FilterMargin
<1>2. PICK lo \in Int, hi \in Int : lo = BlockLo(r, high, a, u) /\ hi = BlockHi(r, high, a, u) /\ lo <= u /\ hi > u
    OBVIOUS
<1>3. lo < to + f /\ hi > Less(from, f)
    BY <1>1, <1>2 DEF Less
<1> QED BY <1>1, <1>2, <1>3 DEF Wanted

\* The code-blocks of what is to be known of the bands are decoded: the margin around the window on
\* a band is that of the code-blocks, and the margin of the resolution below is no wider.
LEMMA KnownWanted ==
    ASSUME job \in Jobs, WithinReach, NEW r \in 1 .. job.got - 1, NEW a \in Axes, NEW c \in Known(job, r, a),
           NEW high, high = IF r > 0 /\ c >= SizeOf(job, r - 1, a) THEN 1 ELSE 0,
           NEW u, u = BandFirst(r, high, a) + c - high * SizeOf(job, IF r = 0 THEN 0 ELSE r - 1, a)
    PROVE  Wanted(r, high, a, u)
<1>1. r \in 0 .. Levels(job) - 1 /\ r \in 1 .. Levels(job) - 1
    BY JobRanges
<1>2. PICK n \in Nat, lo \in Nat, from \in Nat, to \in Nat : Ruler(job, r, a, n, lo, from, to)
    BY <1>1, Measured DEF Ruler
<1>3. n = SizeOf(job, r, a) /\ lo = LoOf(job, r, a) /\ from = FromOf(job, r, a) /\ to = ToOf(job, r, a)
    BY <1>2 DEF Ruler
<1>4. RulerBelow(job, r, a, n, lo, from, to)
    BY <1>1, <1>2, MeasuredBelow
<1>5. PICK b \in Nat, m1 \in Nat : /\ b = BandMargin(job) /\ m1 = Margin(job, r - 1) /\ m1 <= b
                                   /\ b = FilterMargin
    BY MarginsSuffice DEF WithinReach, FilterMargin, BandMargin
<1>6. PICK wl \in Nat, wh \in Nat : wl = job.win.lo[a] /\ wh = job.win.hi[a]
    BY JobsAssumption
<1>7. /\ BandCoord(wl, r, 0) = (from + 1) \div 2 /\ BandCoord(wh, r, 0) = (to + 1) \div 2
      /\ BandCoord(wl, r, 1) = from \div 2 /\ BandCoord(wh, r, 1) = to \div 2
    BY <1>1, <1>3, <1>4, <1>6, WindowOnBand DEF RulerBelow, FromOf, ToOf
<1>8. BandFirst(r, 0, a) = (lo + 1) \div 2 /\ BandFirst(r, 1, a) = lo \div 2
  <2>1. r # 0 /\ LoOf(job, r - 1, a) = (lo + 1) \div 2
      BY <1>1, <1>4 DEF RulerBelow
  <2> QED BY <1>1, <1>3, <2>1, ResolutionHalved DEF BandFirst
<1>9. PICK k \in Nat : k = SizeOf(job, r - 1, a)
  <2>1. r - 1 \in 0 .. Levels(job) - 1
      BY <1>1, JobRanges
  <2> QED BY <2>1, SizeType
<1>10. c \in 0 .. n - 1 /\ r # 0 /\ r > 0
    BY <1>1, <1>3 DEF Known
<1>11. /\ u \in Int /\ BlockLo(r, high, a, u) \in Int /\ BlockHi(r, high, a, u) \in Int
       /\ BlockLo(r, high, a, u) <= u /\ BlockHi(r, high, a, u) > u
    BY <1>1, <1>3, <1>10, BlockOfPlace
<1>12. CASE c < k
  <2>1. high = 0 /\ u = (lo + 1) \div 2 + c - 0 * k
      BY <1>8, <1>9, <1>10, <1>12
  <2>2. u = c + (lo + 1) \div 2 /\ u \in Nat
      BY <1>9, <1>10, <2>1
  <2>3. c \in Exact(job, r - 1, a)
      BY <1>9, <1>12 DEF Known
  <2>4. (from + 1) \div 2 - m1 <= u /\ u < (to + 1) \div 2 + m1
      BY <1>4, <1>5, <2>2, <2>3 DEF Exact, RulerBelow
  <2>5. (from + 1) \div 2 \in Nat /\ (to + 1) \div 2 \in Nat
      OBVIOUS
  <2> QED BY <1>5, <1>6, <1>7, <1>11, <2>1, <2>2, <2>4, <2>5, NearWanted
<1>13. CASE c >= k
  <2>1. high = 1 /\ u = lo \div 2 + c - 1 * k
      BY <1>8, <1>9, <1>10, <1>13
  <2>2. u = c - k + lo \div 2 /\ u \in Nat
      BY <1>9, <1>10, <1>13, <2>1
  <2>3. from \div 2 - b <= u /\ u < to \div 2 + b
    <3>1. ~(c < k)
        BY <1>9, <1>10, <1>13
    <3> QED BY <1>3, <1>5, <1>9, <2>2, <3>1 DEF Known
  <2>4. from \div 2 \in Nat /\ to \div 2 \in Nat
      OBVIOUS
  <2> QED BY <1>5, <1>6, <1>7, <1>11, <2>1, <2>2, <2>3, <2>4, NearWanted
<1> QED BY <1>9, <1>10, <1>12, <1>13

\* So are those of the lowest resolution.
LEMMA LowestWanted ==
    ASSUME job \in Jobs, WithinReach, NEW a \in Axes, NEW c \in Exact(job, 0, a),
           NEW high, high = IF 0 > 0 /\ c >= SizeOf(job, 0 - 1, a) THEN 1 ELSE 0,
           NEW u, u = BandFirst(0, high, a) + c - high * SizeOf(job, IF 0 = 0 THEN 0 ELSE 0 - 1, a)
    PROVE  Wanted(0, high, a, u)
<1>0. PICK k \in Nat \ {0} : k = Levels(job) /\ k = N
    BY JobRanges, OfThisJob
<1>1. 0 \in 0 .. Levels(job) - 1
    BY <1>0
<1>2. PICK n \in Nat, lo \in Nat, from \in Nat, to \in Nat : Ruler(job, 0, a, n, lo, from, to)
    BY <1>1, Measured DEF Ruler
<1>3. n = SizeOf(job, 0, a) /\ lo = LoOf(job, 0, a) /\ from = FromOf(job, 0, a) /\ to = ToOf(job, 0, a)
    BY <1>2 DEF Ruler
<1>4. PICK m \in Nat : m = Margin(job, 0) /\ m <= FilterMargin
  <2>1. job.got \in Nat \ {0} /\ (job.filter = "5/3" \/ job.got <= 3)
      BY JobRanges DEF WithinReach
  <2>2. PICK g \in Nat \ {0} : g = job.got
      BY <2>1
  <2>3. Margin(job, 0) \in Nat /\ Margin(job, 0) <= FilterMargin
      BY <2>1, <2>2 DEF Margin, FilterMargin
  <2> QED BY <2>3
<1>5. c \in 0 .. n - 1 /\ high = 0 /\ 0 * n = 0
  <2>1. c \in 0 .. n - 1
      BY <1>3 DEF Exact
  <2>2. ~(0 > 0) /\ 0 * n = 0
      OBVIOUS
  <2> QED BY <2>1, <2>2
<1>6. u = lo + c /\ u \in Nat
  <2>1. BandFirst(0, 0, a) = lo
      BY <1>3 DEF BandFirst, Lo, LoOf
  <2>2. u = lo + c - 0 * n
      BY <1>3, <1>5, <2>1
  <2> QED BY <1>5, <2>2
<1>7. /\ BlockLo(0, high, a, u) \in Int /\ BlockHi(0, high, a, u) \in Int
      /\ BlockLo(0, high, a, u) <= u /\ BlockHi(0, high, a, u) > u
    BY <1>1, <1>3, <1>5, BlockOfPlace
<1>8. PICK wl \in Nat, wh \in Nat : wl = job.win.lo[a] /\ wh = job.win.hi[a]
    BY JobsAssumption
<1>9. BandCoord(wl, 0, 0) = from /\ BandCoord(wh, 0, 0) = to
  <2>1. PICK nb \in Nat : nb = k - 1
      BY <1>0
  <2>2. ASSUME NEW v \in Nat PROVE BandCoord(v, 0, 0) = CeilDivPow2(v, nb)
    <3>1. (IF nb = 0 THEN 0 ELSE 2^(nb - 1) * 0) = 0
      <4>1. ASSUME nb # 0 PROVE 2^(nb - 1) * 0 = 0
        <5>1. nb - 1 \in Nat
            BY <4>1
        <5>2. 2^(nb - 1) \in Nat
            BY <5>1, PowerPositive
        <5> QED BY <5>2
      <4> QED BY <4>1
    <3>2. BandCoord(v, 0, 0) = IF nb > 0 /\ v <= 0 THEN 0 ELSE CeilDivPow2(v - 0, nb)
      <4>1. BandCoord(v, 0, 0) = IF nb > 0 /\ v <= (IF nb = 0 THEN 0 ELSE 2^(nb - 1) * 0) THEN 0
                                 ELSE CeilDivPow2(v - (IF nb = 0 THEN 0 ELSE 2^(nb - 1) * 0), nb)
          BY <1>0, <2>1, Zenon DEF BandCoord
      <4> QED BY <3>1, <4>1
    <3>3. CeilDivPow2(0, nb) = 0
      <4>1. PICK p \in Nat \ {0} : p = 2^nb
        <5>1. 2^nb \in Nat /\ 2^nb >= 1
            BY PowerPositive
        <5> QED BY <5>1
      <4>2. CeilDiv(0, p) = 0
        <5>1. p * 0 = 0
            OBVIOUS
        <5> QED BY <5>1, CeilDivUnique
      <4> QED BY <4>1, <4>2 DEF CeilDivPow2
    <3> QED BY <3>2, <3>3
  <2>3. from = CeilDivPow2(wl, nb) /\ to = CeilDivPow2(wh, nb)
    <3>1. k - 1 - 0 = nb
        BY <2>1
    <3> QED BY <1>0, <1>3, <1>8, <3>1 DEF FromOf, ToOf
  <2> QED BY <2>2, <2>3
<1>10. from - m <= u /\ u < to + m
    BY <1>3, <1>4, <1>5, <1>6 DEF Exact
<1> QED BY <1>4, <1>5, <1>6, <1>7, <1>8, <1>9, <1>10, NearWanted

\* A place outside the resolutions below is of the first resolution that holds it.
LEMMA ResolutionOf ==
    ASSUME job \in Jobs, NEW k \in 0 .. Levels(job) - 1, NEW x \in Columns(job, k), NEW y \in Rows(job, k),
           k > 0 => x \notin Columns(job, k - 1) \/ y \notin Rows(job, k - 1)
    PROVE  ResOf(<<x, y>>) = k
<1> DEFINE S == {r \in 0 .. N - 1 : \A a \in Axes : Coord(<<x, y>>, a) < Size(r, a)}
<1>1. PICK n \in Nat : n = N /\ n = Levels(job)
    BY JobRanges, OfThisJob
<1>2. \A r \in 0 .. n - 1 : /\ SizeOf(job, r, "X") \in Nat /\ SizeOf(job, r, "Y") \in Nat
                            /\ SizeOf(job, r, "X") = Size(r, "X") /\ SizeOf(job, r, "Y") = Size(r, "Y")
    BY <1>1, SizeType, OfThisJob DEF Axes
<1>3. x \in Nat /\ y \in Nat
    BY <1>1, <1>2 DEF Columns, Rows
<1>4. \A r \in 0 .. n - 1 : r \in S <=> x \in Columns(job, r) /\ y \in Rows(job, r)
  <2> TAKE r \in 0 .. n - 1
  <2>1. r \in S <=> x < SizeOf(job, r, "X") /\ y < SizeOf(job, r, "Y")
      BY <1>1, <1>2 DEF Axes, Coord
  <2> HIDE DEF S
  <2> QED BY <1>2, <1>3, <2>1 DEF Columns, Rows
<1>5. k \in S /\ S \subseteq 0 .. n - 1 /\ ResOf(<<x, y>>) = Min(S)
  <2>1. ResOf(<<x, y>>) = Min(S)
      BY DEF ResOf
  <2>2. S \subseteq 0 .. n - 1
      BY <1>1
  <2> HIDE DEF S
  <2> QED BY <1>1, <1>4, <2>1, <2>2
<1> HIDE DEF S
<1>6. Min(S) \in S /\ Min(S) <= k
  <2>1. S \in SUBSET Nat /\ S # {}
      BY <1>5
  <2> QED BY <1>5, <2>1, LeastElement
<1>7. ASSUME Min(S) < k PROVE FALSE
  <2>1. PICK m \in S : m = Min(S) /\ m < k
      BY <1>6, <1>7
  <2>2. m \in 0 .. n - 1 /\ m \in 0 .. k - 1 /\ k - 1 \in 0 .. n - 1 /\ k > 0
      BY <1>1, <1>5, <2>1
  <2>3. x \in Columns(job, m) /\ y \in Rows(job, m)
      BY <1>4, <2>2, <2>1
  <2>4. x \in Columns(job, k - 1) /\ y \in Rows(job, k - 1)
      BY <1>1, <2>2, <2>3, Nested
  <2> QED BY <2>2, <2>4
<1>8. Min(S) \in Int
  <2>1. S \subseteq 0 .. n - 1 /\ Min(S) \in S
      BY <1>5, <1>6
  <2>2. Min(S) \in 0 .. n - 1
      BY <2>1
  <2> QED BY <2>2
<1> QED BY <1>1, <1>5, <1>6, <1>7, <1>8

\* The code-block of place c of resolution r is of interest along an axis.
Desired(r, a, c) ==
    \A high, u :
        /\ high = IF r > 0 /\ c >= SizeOf(job, r - 1, a) THEN 1 ELSE 0
        /\ u = BandFirst(r, high, a) + c - high * SizeOf(job, IF r = 0 THEN 0 ELSE r - 1, a)
        => Wanted(r, high, a, u)

\* What is of interest along both axes is delivered as the encoder left it.
LEMMA DesiredDelivered ==
    ASSUME job \in Jobs, NEW k \in 0 .. job.got - 1, NEW x \in Columns(job, k), NEW y \in Rows(job, k),
           k > 0 => x \notin Columns(job, k - 1) \/ y \notin Rows(job, k - 1),
           Desired(k, "X", x), Desired(k, "Y", y)
    PROVE  Delivered(<<x, y>>) = Word(data, SizeOf(job, Levels(job) - 1, "X"), x, y)
<1>1. k \in 0 .. Levels(job) - 1 /\ k < job.got
    BY JobRanges
<1> DEFINE p == <<x, y>>
           high == HighAt(p, k)
           u == OnBand(p, k, high)
<1>2. ResOf(p) = k
    BY <1>1, ResolutionOf
<1>3. \A a \in Axes : /\ high[a] = IF k > 0 /\ Coord(p, a) >= SizeOf(job, k - 1, a) THEN 1 ELSE 0
                      /\ u[a] = BandFirst(k, high[a], a) + Coord(p, a)
                                - high[a] * SizeOf(job, IF k = 0 THEN 0 ELSE k - 1, a)
    BY OfThisJob DEF HighAt, OnBand
<1>4. Arrived(p) = Decoded(k, high, u)
    BY <1>2 DEF Arrived
<1>5. Coord(p, "X") = x /\ Coord(p, "Y") = y
    BY DEF Coord
<1>6. Delivered(p) = IF Arrived(p) THEN Word(data, SizeOf(job, Levels(job) - 1, "X"), x, y) ELSE 0
  <2>1. Delivered(p) = IF Arrived(p) THEN data[y * Size(N - 1, "X") + x] ELSE 0
      BY DEF Delivered
  <2>2. Size(N - 1, "X") = SizeOf(job, Levels(job) - 1, "X")
      BY OfThisJob
  <2> HIDE DEF p
  <2> QED BY <2>1, <2>2 DEF Word
<1> HIDE DEF high, u, p
<1>7. ASSUME NEW a \in Axes
      PROVE  /\ BlockLo(k, high[a], a, u[a]) < BandCoord(job.win.hi[a], k, high[a]) + FilterMargin
             /\ BlockHi(k, high[a], a, u[a]) > Less(BandCoord(job.win.lo[a], k, high[a]), FilterMargin)
  <2>1. Desired(k, a, Coord(p, a))
      BY <1>5 DEF Axes
  <2>2. Wanted(k, high[a], a, u[a])
      BY <1>3, <2>1, Zenon DEF Desired
  <2> QED BY <2>2 DEF Wanted
<1>8. OfInterest(k, high, [a \in Axes |-> BlockLo(k, high[a], a, u[a])], [a \in Axes |-> BlockHi(k, high[a], a, u[a])])
    BY <1>7 DEF OfInterest
<1> QED BY <1>1, <1>4, <1>6, <1>8 DEF Decoded, p

\* What is to be known of the bands of a resolution is delivered.
LEMMA KnownDelivered ==
    ASSUME job \in Jobs, WithinReach, TakenApart(job, 0, data, images), NEW k \in 1 .. job.got - 1,
           NEW x \in Known(job, k, "X"), NEW y \in Known(job, k, "Y"),
           x \notin Columns(job, k - 1) \/ y \notin Rows(job, k - 1)
    PROVE  Delivered(<<x, y>>) = Taken(job, k, images[k])[<<x, y>>]
<1>1. k \in 0 .. job.got - 1 /\ k \in 0 + 1 .. Levels(job) - 1 /\ "X" \in Axes /\ "Y" \in Axes
    BY JobRanges DEF Axes
<1>2. x \in Columns(job, k) /\ y \in Rows(job, k)
    BY DEF Known, Columns, Rows
<1>3. Desired(k, "X", x) /\ Desired(k, "Y", y)
    BY <1>1, KnownWanted, Zenon DEF Desired
<1>4. Delivered(<<x, y>>) = Word(data, SizeOf(job, Levels(job) - 1, "X"), x, y)
    BY <1>1, <1>2, <1>3, DesiredDelivered
<1>5. Around(job, 0 + 1, Levels(job) - 1, images, data, SizeOf(job, Levels(job) - 1, "X"))
    BY DEF TakenApart
<1> QED BY <1>1, <1>2, <1>4, <1>5 DEF Around

\* So is what is to be exact of the lowest resolution.
LEMMA LowestDelivered ==
    ASSUME job \in Jobs, WithinReach, TakenApart(job, 0, data, images),
           NEW x \in Exact(job, 0, "X"), NEW y \in Exact(job, 0, "Y")
    PROVE  Delivered(<<x, y>>) = images[0][<<x, y>>]
<1>1. 0 \in 0 .. job.got - 1 /\ "X" \in Axes /\ "Y" \in Axes /\ ~(0 > 0)
    BY JobRanges DEF Axes
<1>2. x \in Columns(job, 0) /\ y \in Rows(job, 0)
    BY DEF Exact, Columns, Rows
<1>3. Desired(0, "X", x) /\ Desired(0, "Y", y)
    BY <1>1, LowestWanted, Zenon DEF Desired
<1>4. Delivered(<<x, y>>) = Word(data, SizeOf(job, Levels(job) - 1, "X"), x, y)
    BY <1>1, <1>2, <1>3, DesiredDelivered
<1>5. Corner(job, 0, images[0], data, SizeOf(job, Levels(job) - 1, "X"))
    BY DEF TakenApart
<1> QED BY <1>2, <1>4, <1>5 DEF Corner

\* What is known of the bands lies in the segments.
LEMMA KnownInSegments ==
    ASSUME job \in Jobs, WithinReach, NEW r \in 1 .. job.got - 1, NEW a \in Axes, NEW c \in Known(job, r, a)
    PROVE  /\ c < SizeOf(job, r - 1, a) =>
                  LowSeg(r, a)[1] \in Int /\ LowSeg(r, a)[2] \in Int /\ Within(c, LowSeg(r, a))
           /\ ~(c < SizeOf(job, r - 1, a)) =>
                  /\ HighSeg(r, a)[1] \in Int /\ HighSeg(r, a)[2] \in Int
                  /\ Within(c - SizeOf(job, r - 1, a), HighSeg(r, a))
<1>1. r \in 0 .. Levels(job) - 1 /\ r \in 1 .. Levels(job) - 1
    BY JobRanges
<1>2. PICK n \in Nat, lo \in Nat, from \in Nat, to \in Nat : Ruler(job, r, a, n, lo, from, to)
    BY <1>1, Measured DEF Ruler
<1>3. n = SizeOf(job, r, a) /\ lo = LoOf(job, r, a) /\ from = FromOf(job, r, a) /\ to = ToOf(job, r, a)
    BY <1>2 DEF Ruler
<1>4. RulerBelow(job, r, a, n, lo, from, to)
    BY <1>1, <1>2, MeasuredBelow
<1>5. PICK b \in Nat, m1 \in Nat : /\ b = BandMargin(job) /\ m1 = Margin(job, r - 1) /\ m1 <= b
                                   /\ b <= FilterWidth
    BY MarginsSuffice DEF WithinReach, FilterWidth, BandMargin
<1>6. /\ Holding(LowSeg(r, a), (from + 1) \div 2, (to + 1) \div 2, (lo + 1) \div 2, LowCount(n, lo % 2), b)
      /\ Holding(HighSeg(r, a), from \div 2, to \div 2, lo \div 2, n - LowCount(n, lo % 2), b)
    BY <1>1, <1>2, <1>5, SegmentsHold
<1>7. PICK k \in Nat : k = LowCount(n, lo % 2) /\ SizeOf(job, r - 1, a) = k
  <2>1. LowCount(n, lo % 2) \in Nat
      BY DEF LowCount
  <2> QED BY <1>4, <2>1 DEF RulerBelow
<1>8. c \in 0 .. n - 1
    BY <1>3 DEF Known
<1>9. CASE c < k
  <2>1. c \in Exact(job, r - 1, a)
      BY <1>7, <1>9 DEF Known
  <2>2. (from + 1) \div 2 - m1 <= c + (lo + 1) \div 2 /\ c + (lo + 1) \div 2 < (to + 1) \div 2 + m1
      BY <1>4, <1>5, <2>1 DEF Exact, RulerBelow
  <2>3. (from + 1) \div 2 - b <= c + (lo + 1) \div 2 /\ c + (lo + 1) \div 2 < (to + 1) \div 2 + b
      BY <1>5, <1>8, <2>2
  <2> QED BY <1>6, <1>7, <1>8, <1>9, <2>3 DEF Holding
<1>10. CASE ~(c < k)
  <2>1. from \div 2 - b <= c - k + lo \div 2 /\ c - k + lo \div 2 < to \div 2 + b
      BY <1>3, <1>5, <1>7, <1>10 DEF Known
  <2>2. PICK d \in Nat : d = c - k /\ d < n - k
      BY <1>7, <1>8, <1>10
  <2> QED BY <1>6, <1>7, <1>10, <2>1, <2>2 DEF Holding
<1> QED BY <1>7, <1>9, <1>10

\* The rows that are known are among those the vertical filter uses.
LEMMA KnownUsed ==
    ASSUME job \in Jobs, WithinReach, NEW r \in 1 .. job.got - 1, NEW y \in Known(job, r, "Y"),
           NEW lanes \in Nat \ {0}, lanes = RowLanes, NEW j \in Nat, j <= y, y <= j + lanes - 1
    PROVE  Used(j, LowSeg(r, "Y")) \/ Used(j - LowSize(r, "Y"), HighSeg(r, "Y"))
<1>1. "Y" \in Axes
    BY DEF Axes
<1>2. PICK k \in Nat : k = SizeOf(job, r - 1, "Y") /\ k = LowSize(r, "Y")
  <2>1. r - 1 \in 0 .. Levels(job) - 1
      BY JobRanges
  <2> QED BY <1>1, <2>1, SizeType, OfThisJob DEF LowSize
<1>3. y \in Nat
  <2>1. r \in 0 .. Levels(job) - 1
      BY JobRanges
  <2>2. SizeOf(job, r, "Y") \in Nat
      BY <1>1, <2>1, SizeType
  <2> QED BY <2>2 DEF Known
<1>4. CASE y < k
  <2>1. PICK s1 \in Int, s2 \in Int : s1 = LowSeg(r, "Y")[1] /\ s2 = LowSeg(r, "Y")[2] /\ s1 <= y /\ y < s2
      BY <1>1, <1>2, <1>4, KnownInSegments DEF Within
  <2>2. j + lanes - 1 >= s1 /\ j < s2
      BY <1>3, <2>1
  <2> QED BY <2>1, <2>2 DEF Used
<1>5. CASE ~(y < k)
  <2>1. PICK s1 \in Int, s2 \in Int : s1 = HighSeg(r, "Y")[1] /\ s2 = HighSeg(r, "Y")[2] /\ s1 <= y - k /\ y - k < s2
      BY <1>1, <1>2, <1>5, KnownInSegments DEF Within
  <2>2. (j - k) + lanes - 1 >= s1 /\ j - k < s2
      BY <1>2, <1>3, <2>1
  <2> QED BY <1>2, <2>1, <2>2 DEF Used
<1> QED BY <1>4, <1>5

-----------------------------------------------------------------------------
(* Lines of a window put together.                                         *)

\* The scratch memory keeps its size.
LEMMA InvertedDomain ==
    ASSUME NEW filter, NEW m, NEW L, NEW n, NEW cas, NEW seg
    PROVE  DOMAIN Inverted(filter, m, L, n, cas, seg) = DOMAIN m
<1>1. \A o, step : DOMAIN Lift(filter, o, L, n, cas, seg, step) = DOMAIN o
    BY Zenon DEF Lift
<1>2. \A o, steps : DOMAIN Lifts(filter, o, L, n, cas, seg, steps) = DOMAIN o
    BY <1>1 DEF Lifts
<1>3. \A o : DOMAIN Scaled(filter, o, L, cas, seg, K, InvK) = DOMAIN o
    BY Zenon DEF Scaled
<1>4. DOMAIN [k \in DOMAIN m |-> IF k < L THEN Halved(m[k]) ELSE m[k]] = DOMAIN m
    OBVIOUS
<1> QED BY <1>2, <1>3, <1>4, Zenon DEF Inverted

\* Lane l of the memory m is given what is to be known of x, a line of resolution r taken apart.
Supplied(m, L, l, lines, r, a, x) ==
    /\ 0 .. SizeOf(job, r, a) * L - 1 \subseteq DOMAIN m /\ l \in DOMAIN lines
    /\ x \in LinesOf(job.filter, SizeOf(job, r, a))
    /\ \A c \in Known(job, r, a) :
           lines[l][c] = ForwardLine(job.filter, x, SizeOf(job, r, a), CasOf(job, r, a))[c]

\* A line put together is exact where it is to be.
LEMMA LineTogether ==
    ASSUME job \in Jobs, WithinReach, NEW r \in 1 .. job.got - 1, NEW a \in Axes,
           NEW L \in Nat \ {0}, NEW l \in 0 .. L - 1, NEW m, NEW lines, NEW x, Supplied(m, L, l, lines, r, a, x)
    PROVE  Holds(Through(m, L, lines, r, a), L, l, x, Exact(job, r, a))
<1>0. /\ 0 .. SizeOf(job, r, a) * L - 1 \subseteq DOMAIN m /\ l \in DOMAIN lines
      /\ x \in LinesOf(job.filter, SizeOf(job, r, a))
      /\ \A c \in Known(job, r, a) :
             lines[l][c] = ForwardLine(job.filter, x, SizeOf(job, r, a), CasOf(job, r, a))[c]
    BY DEF Supplied
<1>1. PICK n \in Nat, cas \in {0, 1} : n = SizeOf(job, r, a) /\ cas = CasOf(job, r, a)
  <2>1. r \in 0 .. Levels(job) - 1
      BY JobRanges
  <2> QED BY <2>1, SizeType
<1>2. PICK filter \in Filters : filter = job.filter
    BY JobRanges
<1>3. PICK P \in SUBSET (0 .. n - 1) : P = Found(job, r, a)
    BY <1>1, ExactReached DEF WithinReach
<1>4. /\ Exact(job, r, a) \subseteq P
      /\ n > 1 => Exact(job, r, a) \subseteq Reached(filter, P, n, cas)
    BY <1>1, <1>2, <1>3, ExactReached DEF WithinReach
<1>5. Segmented(P, cas, Seg(r, a))
    BY <1>1, <1>3, FoundSegmented
<1>6. Given(filter, lines, l, n, cas, x, P)
    BY <1>0, <1>1, <1>2, <1>3 DEF Given, Found
<1>7. Through(m, L, lines, r, a) =
          Inverted(filter, Filled(m, L, lines, n, cas, Seg(r, a)), L, n, cas, Seg(r, a))
    BY <1>1, <1>2, OfThisJob DEF Through
<1>8. SUFFICES ASSUME NEW q \in Exact(job, r, a) PROVE Through(m, L, lines, r, a)[q * L + l] = x[q]
    BY DEF Holds
<1>9. n > 0
    BY <1>1, <1>8 DEF Exact
<1>10. PICK d, seg : /\ d = DOMAIN m /\ 0 .. n * L - 1 \subseteq d /\ seg = Seg(r, a)
                     /\ Filling(filter, m, d, L, l, lines, n, cas, seg, x, P)
    BY <1>0, <1>1, <1>2, <1>3, <1>5, <1>6 DEF Filling
<1>11. Holds(Inverted(filter, Filled(m, L, lines, n, cas, seg), L, n, cas, seg), L, l, x, Regained(filter, P, n, cas))
    BY <1>9, <1>10, InvertedFollows
<1>12. q \in Regained(filter, P, n, cas)
    BY <1>4 DEF Regained
<1> QED BY <1>7, <1>10, <1>11, <1>12 DEF Holds

\* The greatest of natural numbers below a bound.
LEMMA GreatestElement ==
    ASSUME NEW S \in SUBSET Nat, S # {}, NEW b \in Nat, \A y \in S : y <= b
    PROVE  Max(S) \in S /\ \A y \in S : y <= Max(S)
<1> DEFINE T == {n \in Nat : \A y \in S : y <= n}
<1>1. Min(T) \in T /\ \A n \in T : Min(T) <= n
  <2>1. T \in SUBSET Nat /\ b \in T
      OBVIOUS
  <2> HIDE DEF T
  <2> QED BY <2>1, LeastElement
<1>2. PICK m \in T : m = Min(T) /\ \A n \in T : m <= n
    BY <1>1
<1>3. m \in S
  <2> SUFFICES ASSUME m \notin S PROVE FALSE
      OBVIOUS
  <2>1. PICK s \in S : TRUE
      OBVIOUS
  <2>2. m \in Nat /\ \A y \in S : y <= m - 1
      OBVIOUS
  <2>3. m - 1 \in Nat
      BY <2>1, <2>2
  <2>4. m - 1 \in T
      BY <2>2, <2>3
  <2> QED BY <1>2, <2>2, <2>4
<1>4. \E x \in S : \A y \in S : x >= y
    BY <1>3
<1>5. Max(S) \in S /\ \A y \in S : Max(S) >= y
    BY <1>4, Zenon DEF Max
<1> QED BY <1>5

\* The scratch memory holds so many lines of every resolution.
Roomy(j, lanes, d) == \A r \in 1 .. j.got - 1, a \in Axes : 0 .. SizeOf(j, r, a) * lanes - 1 \subseteq d

\* The lines that are taken together.
LEMMA LanesType ==
    RowLanes \in Nat \ {0} /\ ColLanes \in Nat \ {0} /\ RowLanes <= ColLanes
BY V8Assumption DEF RowLanes, ColLanes

\* It is made that large.
LEMMA MemoryRoomy ==
    ASSUME job \in Jobs
    PROVE  Roomy(job, ColLanes, 0 .. ColLanes * Longest - 1)
<1> SUFFICES ASSUME NEW r \in 1 .. job.got - 1, NEW a \in Axes
             PROVE  0 .. SizeOf(job, r, a) * ColLanes - 1 \subseteq 0 .. ColLanes * Longest - 1
    BY DEF Roomy
<1> DEFINE S == {Size(k, b) : k \in 1 .. job.got - 1, b \in Axes}
<1>1. ASSUME NEW k \in 1 .. job.got - 1, NEW b \in Axes
      PROVE  /\ Size(k, b) \in Nat /\ Size(k, b) = SizeOf(job, k, b)
             /\ Size(k, b) <= SizeOf(job, Levels(job) - 1, b)
  <2>1. k \in 0 .. Levels(job) - 1 /\ k \in 0 .. (Levels(job) - 1) /\ Levels(job) - 1 \in 0 .. Levels(job) - 1
      BY JobRanges
  <2> QED BY <2>1, SizeType, SizeMonotone, OfThisJob
<1>2. PICK w \in Nat, h \in Nat : w = SizeOf(job, Levels(job) - 1, "X") /\ h = SizeOf(job, Levels(job) - 1, "Y")
  <2>1. Levels(job) - 1 \in 0 .. Levels(job) - 1
      BY JobRanges
  <2> QED BY <2>1, SizeType DEF Axes
<1>3. ASSUME NEW k \in 1 .. job.got - 1, NEW b \in Axes PROVE Size(k, b) <= w + h
  <2>1. PICK z \in Nat : z = Size(k, b) /\ z <= SizeOf(job, Levels(job) - 1, b)
      BY <1>1
  <2>2. b = "X" \/ b = "Y"
      BY DEF Axes
  <2>3. z <= w \/ z <= h
      BY <1>2, <2>1, <2>2
  <2> QED BY <2>1, <2>3
<1>4. S \in SUBSET Nat /\ Size(r, a) \in S /\ \A y \in S : y <= w + h
    BY <1>1, <1>3
<1>5. Longest = Max(S)
    BY DEF Longest
<1> HIDE DEF S
<1>6. PICK z \in Nat, m \in Nat : z = SizeOf(job, r, a) /\ m = Longest /\ z <= m
  <2>1. w + h \in Nat /\ S # {}
      BY <1>4
  <2>2. Max(S) \in S /\ \A y \in S : y <= Max(S)
      BY <1>4, <2>1, GreatestElement
  <2>3. PICK m \in Nat : m = Longest /\ \A y \in S : y <= m
      BY <1>4, <1>5, <2>2
  <2>4. PICK z \in Nat : z = Size(r, a) /\ z = SizeOf(job, r, a)
      BY <1>1
  <2> QED BY <1>4, <2>3, <2>4
<1>7. PICK e \in Nat : m = z + e
  <2>1. m - z \in Nat /\ m = z + (m - z)
      BY <1>6
  <2> QED BY <2>1
<1>8. PICK c \in Nat : c = ColLanes
    BY LanesType
<1>9. c * m = z * c + c * e /\ c * e \in Nat /\ z * c \in Int
    BY <1>7
<1>10. z * c <= c * m /\ c * m \in Int
    BY <1>9
<1> QED BY <1>6, <1>8, <1>9, <1>10

\* Fewer lines need less.
LEMMA RoomyFewer ==
    ASSUME job \in Jobs, NEW d, Roomy(job, ColLanes, d)
    PROVE  Roomy(job, RowLanes, d)
<1> SUFFICES ASSUME NEW r \in 1 .. job.got - 1, NEW a \in Axes
             PROVE  0 .. SizeOf(job, r, a) * RowLanes - 1 \subseteq d
    BY DEF Roomy
<1>1. PICK z \in Nat : z = SizeOf(job, r, a)
  <2>1. r \in 0 .. Levels(job) - 1
      BY JobRanges
  <2> QED BY <2>1, SizeType
<1>2. PICK c \in Nat, b \in Nat, e \in Nat : c = ColLanes /\ b = RowLanes /\ c = b + e
  <2>1. ColLanes - RowLanes \in Nat /\ ColLanes = RowLanes + (ColLanes - RowLanes)
      BY LanesType
  <2> QED BY <2>1, LanesType
<1>3. z * c = z * b + z * e /\ z * e \in Nat /\ z * b \in Int
    BY <1>2
<1>4. 0 .. z * c - 1 \subseteq d
    BY <1>1, <1>2 DEF Roomy
<1> QED BY <1>1, <1>2, <1>3, <1>4

-----------------------------------------------------------------------------
(* The invariant of a window.                                              *)

\* Resolution r is put together.
PutTogether(j, r, s, im) ==
    \A x \in Exact(j, r, "X"), y \in Exact(j, r, "Y") : s[<<x, y>>] = im[r][<<x, y>>]

\* What the sparse array holds where it is to be exact, of the resolution under way, of the rows
\* and columns of it that are done, and of the bands that are yet to be used.
WindowInv ==
    WithinReach =>
        /\ stage \in WindowStages =>
               /\ Kept(job, 0, images)
               /\ DOMAIN sa = Columns(job, job.got - 1) \X Rows(job, job.got - 1)
        /\ stage \in {"wrows", "wcolumns"} =>
               /\ res \in 1 .. job.got - 1
               /\ Roomy(job, ColLanes, DOMAIN mem)
               /\ BandsKnown(job, res, sa, images)
        /\ stage = "wrows" =>
               /\ next \in 0 .. SizeOf(job, res, "Y")
               /\ next % RowLanes = 0 \/ next = SizeOf(job, res, "Y")
               /\ RowsKnown(job, res, sa, images, next)
        /\ stage = "wcolumns" => next \in Int /\ ColumnsKnown(job, res, sa, images, next)
        /\ stage = "read" => PutTogether(job, job.got - 1, sa, images)
        /\ stage = "done" /\ ~WholeTile => \A p \in InWindow : out[p] = images[job.got - 1][p]

\* What depends on the job alone does not change.
LEMMA WindowRigid ==
    ASSUME job' = job
    PROVE  /\ (WholeTile' <=> WholeTile) /\ (WithinReach' <=> WithinReach)
           /\ RowLanes' = RowLanes /\ ColLanes' = ColLanes /\ InWindow' = InWindow
BY DEF WholeTile, WithinReach, RowLanes, ColLanes, InWindow, Places, WinOf, Coord, Size, N, Lo

\* The rows of a resolution begin from the one below and its bands.
LEMMA RowsBegin ==
    ASSUME NEW j \in Jobs, NEW r \in 1 .. j.got - 1, NEW s, NEW im, Kept(j, 0, im),
           PutTogether(j, r - 1, s, im), BandsKnown(j, r - 1, s, im)
    PROVE  RowsKnown(j, r, s, im, 0) /\ BandsKnown(j, r, s, im)
<1>1. PICK got \in Nat : got = j.got /\ r \in 1 .. got - 1 /\ r \in 0 + 1 .. Levels(j) - 1
    BY JobRanges
<1>2. BandsKnown(j, r, s, im)
  <2>1. \A k \in r + 1 .. got - 1 : k \in (r - 1) + 1 .. got - 1
      BY <1>1
  <2> QED BY <1>1, <2>1 DEF BandsKnown
<1>3. ASSUME NEW y \in Known(j, r, "Y"), NEW x \in Known(j, r, "X")
      PROVE  ~(y < 0) /\ s[<<x, y>>] = Taken(j, r, im[r])[<<x, y>>]
  <2>1. /\ r \in 0 .. Levels(j) - 1 /\ r - 1 \in 0 .. Levels(j) - 1
        /\ "X" \in Axes /\ "Y" \in Axes
      BY <1>1, JobRanges DEF Axes
  <2>2. PICK w \in Nat, h \in Nat, kw \in Nat, kh \in Nat :
            /\ w = SizeOf(j, r, "X") /\ h = SizeOf(j, r, "Y")
            /\ kw = SizeOf(j, r - 1, "X") /\ kh = SizeOf(j, r - 1, "Y")
      BY <2>1, SizeType
  <2>3. x \in 0 .. w - 1 /\ y \in 0 .. h - 1
      BY <2>2 DEF Known
  <2>4. CASE x \in Columns(j, r - 1) /\ y \in Rows(j, r - 1)
    <3>1. x < kw /\ y < kh
        BY <2>2, <2>3, <2>4 DEF Columns, Rows
    <3>2. x \in Exact(j, r - 1, "X") /\ y \in Exact(j, r - 1, "Y")
        BY <2>2, <3>1 DEF Known
    <3>3. s[<<x, y>>] = im[r - 1][<<x, y>>]
        BY <3>2 DEF PutTogether
    <3>4. im[r - 1][<<x, y>>] = Taken(j, r, im[r])[<<x, y>>]
        BY <1>1, <2>4 DEF Kept
    <3> QED BY <2>3, <3>3, <3>4
  <2>5. CASE ~(x \in Columns(j, r - 1) /\ y \in Rows(j, r - 1))
    <3>1. r \in (r - 1) + 1 .. j.got - 1
        BY <1>1
    <3> QED BY <2>3, <2>5, <3>1 DEF BandsKnown
  <2> QED BY <2>4, <2>5
<1>4. \A y \in Known(j, r, "Y") : ~(y < 0)
  <2>1. r \in 0 .. Levels(j) - 1 /\ "Y" \in Axes
      BY <1>1, JobRanges DEF Axes
  <2>2. SizeOf(j, r, "Y") \in Nat
      BY <2>1, SizeType
  <2> QED BY <2>2 DEF Known
<1> QED BY <1>2, <1>3, <1>4 DEF RowsKnown

\* Outside resolution r nothing is changed.
SparedOutside(j, r, s, s2) ==
    \A x \in Columns(j, j.got - 1), y \in Rows(j, j.got - 1) :
        x \notin Columns(j, r) \/ y \notin Rows(j, r) => s2[<<x, y>>] = s[<<x, y>>]

\* The bands of the higher resolutions lie there.
LEMMA BandsSpared ==
    ASSUME NEW j \in Jobs, NEW r \in 1 .. j.got - 1, NEW s, NEW s2, NEW im, BandsKnown(j, r, s, im),
           SparedOutside(j, r, s, s2)
    PROVE  BandsKnown(j, r, s2, im)
<1> SUFFICES ASSUME NEW k \in r + 1 .. j.got - 1, NEW x \in Known(j, k, "X"), NEW y \in Known(j, k, "Y"),
                    x \notin Columns(j, k - 1) \/ y \notin Rows(j, k - 1)
             PROVE  s2[<<x, y>>] = Taken(j, k, im[k])[<<x, y>>]
    BY DEF BandsKnown
<1>1. /\ k - 1 \in 0 .. Levels(j) - 1 /\ r \in 0 .. k - 1
      /\ j.got - 1 \in 0 .. Levels(j) - 1 /\ k \in 0 .. j.got - 1
    BY JobRanges
<1>2. x \in Columns(j, k) /\ y \in Rows(j, k)
    BY DEF Known, Columns, Rows
<1>3. x \in Columns(j, j.got - 1) /\ y \in Rows(j, j.got - 1)
    BY <1>1, <1>2, Nested
<1>4. x \notin Columns(j, r) \/ y \notin Rows(j, r)
    BY <1>1, Nested
<1>5. s2[<<x, y>>] = s[<<x, y>>]
    BY <1>3, <1>4 DEF SparedOutside
<1> QED BY <1>5 DEF BandsKnown

\* Rounded down to a multiple, from another one on.
LEMMA RoundedDown ==
    ASSUME NEW b \in Nat \ {0}, NEW y \in Nat, NEW f \in Nat, f % b = 0, f <= y
    PROVE  \E z \in Nat : z % b = 0 /\ f <= z /\ z <= y /\ y <= z + b - 1
<1>1. PICK q \in Nat, m \in 0 .. b - 1 : y = b * q + m
  <2> DEFINE d == y \div b
             m == y % b
  <2>1. d \in Nat /\ m \in 0 .. b - 1 /\ y = b * d + m
      OBVIOUS
  <2> HIDE DEF d, m
  <2> QED BY <2>1
<1>2. PICK p \in Nat : f = b * p
  <2> DEFINE d == f \div b
             w == f % b
  <2>1. d \in Nat /\ f = b * d + w
      OBVIOUS
  <2>2. w = 0
      OBVIOUS
  <2> HIDE DEF d, w
  <2>3. b * d \in Int
      BY <2>1
  <2> QED BY <2>1, <2>2, <2>3
<1>3. p <= q
  <2> SUFFICES ASSUME p > q PROVE FALSE
      BY <1>1, <1>2
  <2>1. PICK d \in Nat : p = q + 1 + d
    <3>1. p - q - 1 \in Nat /\ p = q + 1 + (p - q - 1)
        OBVIOUS
    <3> QED BY <3>1
  <2>2. f = b * q + b + b * d /\ b * d \in Nat /\ b * q \in Int
      BY <1>2, <2>1
  <2> QED BY <1>1, <2>2
<1>4. PICK d \in Nat : q = p + d
  <2>1. q - p \in Nat /\ q = p + (q - p)
      BY <1>3
  <2> QED BY <2>1
<1>5. PICK z \in Nat : z = b * q
    OBVIOUS
<1>6. z = f + b * d /\ b * d \in Nat
    BY <1>2, <1>4, <1>5
<1>7. z % b = 0
  <2>1. (q * b + 0) % b = 0
    <3>1. 0 \in 0 .. b - 1 /\ q \in 0 .. (q + 1) - 1 /\ q + 1 \in Nat /\ b \in Nat
        OBVIOUS
    <3> QED BY <3>1, IndexOf
  <2>2. q * b + 0 = z
      BY <1>5
  <2> QED BY <2>1, <2>2
<1> QED BY <1>1, <1>5, <1>6, <1>7

\* The multiple after another one.
LEMMA NextMultiple ==
    ASSUME NEW b \in Nat \ {0}, NEW j \in Nat, j % b = 0
    PROVE  (j + b) % b = 0
<1>1. PICK q \in Nat : j = b * q
  <2> DEFINE d == j \div b
             m == j % b
  <2>1. d \in Nat /\ j = b * d + m /\ m = 0
      OBVIOUS
  <2> HIDE DEF d, m
  <2>2. b * d \in Int
      BY <2>1
  <2> QED BY <2>1, <2>2
<1>2. ((q + 1) * b + 0) % b = 0
  <2>1. 0 \in 0 .. b - 1 /\ q + 1 \in 0 .. (q + 2) - 1 /\ q + 2 \in Nat /\ b \in Nat
      OBVIOUS
  <2> QED BY <2>1, IndexOf
<1>3. (q + 1) * b + 0 = j + b
    BY <1>1
<1> QED BY <1>2, <1>3

\* A row that is known and has not been put together is among those left.
LEMMA RowLeft ==
    ASSUME job \in Jobs, WithinReach, res \in 1 .. job.got - 1,
           NEW h \in Nat, h = SizeOf(job, res, "Y"), NEW lanes \in Nat \ {0}, lanes = RowLanes,
           next \in 0 .. h, next % lanes = 0 \/ next = h,
           NEW y \in Known(job, res, "Y"), next <= y
    PROVE  \E z \in RowsLeft : z <= y
<1>1. y \in 0 .. h - 1 /\ next % lanes = 0
    BY DEF Known
<1>2. PICK z \in Nat : z % lanes = 0 /\ next <= z /\ z <= y /\ y <= z + lanes - 1
  <2>1. PICK f \in Nat, t \in Nat : f = next /\ t = y /\ f % lanes = 0 /\ f <= t
      BY <1>1
  <2>2. \E z \in Nat : z % lanes = 0 /\ f <= z /\ z <= t /\ t <= z + lanes - 1
      BY <2>1, RoundedDown
  <2> QED BY <2>1, <2>2
<1>3. Used(z, LowSeg(res, "Y")) \/ Used(z - LowSize(res, "Y"), HighSeg(res, "Y"))
    BY <1>2, KnownUsed
<1>4. z \in next .. h - 1 /\ h = Size(res, "Y")
    BY <1>1, <1>2, OfThisJob
<1> QED BY <1>2, <1>3, <1>4 DEF RowsLeft

-----------------------------------------------------------------------------
(* The rows of a window.                                                   *)

\* The sparse array with the rows from j up to end taken from the scratch memory.
RowsStored(r, s, e, j, end, s2) ==
    /\ DOMAIN s = Columns(job, job.got - 1) \X Rows(job, job.got - 1) /\ end <= SizeOf(job, r, "Y")
    /\ s2 = [p \in DOMAIN s |-> IF Within(p[2], <<j, end>>) /\ Within(p[1], Made(r, "X"))
                                THEN e[p[1] * RowLanes + p[2] - j] ELSE s[p]]

\* Those rows are as in the scratch memory, the others as before.
RowsChanged(r, s, e, j, end, s2) ==
    \A x \in Columns(job, r), y \in Rows(job, r) :
        /\ ~(j <= y /\ y < end) => s2[<<x, y>>] = s[<<x, y>>]
        /\ j <= y /\ y < end /\ x \in Exact(job, r, "X") => s2[<<x, y>>] = e[x * RowLanes + (y - j)]

\* The rows of resolution r in s, from j up to end, put together in e.
RowsLifted(r, s, m, j, end, e) ==
    e = Through(m, RowLanes, [l \in 0 .. end - j - 1 |-> [x \in 0 .. Size(r, "X") - 1 |-> s[<<x, j + l>>]]], r, "X")

\* What is stored of them.
LEMMA RowsStoredAt ==
    ASSUME job \in Jobs, WithinReach, NEW r \in 1 .. job.got - 1, NEW s, NEW e, NEW j \in Nat, NEW end \in Nat,
           NEW s2, RowsStored(r, s, e, j, end, s2)
    PROVE  DOMAIN s2 = DOMAIN s /\ SparedOutside(job, r, s, s2) /\ RowsChanged(r, s, e, j, end, s2)
<1>0. DOMAIN s = Columns(job, job.got - 1) \X Rows(job, job.got - 1) /\ end <= SizeOf(job, r, "Y")
    BY DEF RowsStored
<1>1. PICK w \in Nat, h \in Nat : w = SizeOf(job, r, "X") /\ h = SizeOf(job, r, "Y") /\ end <= h
  <2>1. r \in 0 .. Levels(job) - 1
      BY JobRanges
  <2> QED BY <1>0, <2>1, SizeType DEF Axes
<1>2. Columns(job, r) \subseteq Columns(job, job.got - 1) /\ Rows(job, r) \subseteq Rows(job, job.got - 1)
  <2>1. job.got - 1 \in 0 .. Levels(job) - 1 /\ r \in 0 .. job.got - 1
      BY JobRanges
  <2> QED BY <2>1, Nested
<1>3. PICK f \in Int, t \in Int : f = Made(r, "X")[1] /\ t = Made(r, "X")[2] /\ t <= w
    BY <1>1, FoundSegmented DEF Axes
<1>4. ASSUME NEW x \in Columns(job, job.got - 1), NEW y \in Rows(job, job.got - 1)
      PROVE  s2[<<x, y>>] = IF j <= y /\ y < end /\ f <= x /\ x < t THEN e[x * RowLanes + y - j] ELSE s[<<x, y>>]
  <2>1. <<x, y>> \in DOMAIN s /\ <<x, y>>[1] = x /\ <<x, y>>[2] = y
      BY <1>0
  <2>2. Within(y, <<j, end>>) <=> j <= y /\ y < end
      BY DEF Within
  <2>3. Within(x, Made(r, "X")) <=> f <= x /\ x < t
      BY <1>3 DEF Within
  <2>4. s2[<<x, y>>] = IF Within(y, <<j, end>>) /\ Within(x, Made(r, "X")) THEN e[x * RowLanes + y - j] ELSE s[<<x, y>>]
      BY <2>1 DEF RowsStored
  <2> QED BY <2>2, <2>3, <2>4
<1>5. PICK gw \in Nat, gh \in Nat : gw = SizeOf(job, job.got - 1, "X") /\ gh = SizeOf(job, job.got - 1, "Y")
  <2>1. job.got - 1 \in 0 .. Levels(job) - 1
      BY JobRanges
  <2> QED BY <2>1, SizeType DEF Axes
<1>6. SparedOutside(job, r, s, s2)
  <2> SUFFICES ASSUME NEW x \in Columns(job, job.got - 1), NEW y \in Rows(job, job.got - 1),
                      x \notin Columns(job, r) \/ y \notin Rows(job, r)
               PROVE  s2[<<x, y>>] = s[<<x, y>>]
      BY DEF SparedOutside
  <2>1. x \in 0 .. gw - 1 /\ y \in 0 .. gh - 1
      BY <1>5 DEF Columns, Rows
  <2>2. ~(j <= y /\ y < end /\ f <= x /\ x < t)
      BY <1>1, <1>3, <2>1 DEF Columns, Rows
  <2> QED BY <1>4, <2>2
<1>7. ASSUME NEW x \in Columns(job, r), NEW y \in Rows(job, r)
      PROVE  /\ ~(j <= y /\ y < end) => s2[<<x, y>>] = s[<<x, y>>]
             /\ j <= y /\ y < end /\ x \in Exact(job, r, "X") => s2[<<x, y>>] = e[x * RowLanes + (y - j)]
  <2>1. x \in Columns(job, job.got - 1) /\ y \in Rows(job, job.got - 1)
      BY <1>2
  <2>2. ASSUME x \in Exact(job, r, "X") PROVE f <= x /\ x < t
    <3>1. x \in Found(job, r, "X")
        BY <2>2, ExactReached DEF WithinReach, Axes
    <3> QED BY <1>3, <3>1, FoundSegmented DEF Within, Axes
  <2>3. x * RowLanes + y - j = x * RowLanes + (y - j)
    <3>1. PICK b \in Int : b = RowLanes
        BY LanesType
    <3>2. x \in Int /\ y \in Int
        BY <1>1 DEF Columns, Rows
    <3>3. PICK z \in Int : z = x * b
        BY <3>1, <3>2
    <3> QED BY <3>1, <3>2, <3>3
  <2> QED BY <1>4, <2>1, <2>2, <2>3
<1>8. DOMAIN s2 = DOMAIN s
    BY DEF RowsStored
<1> QED BY <1>6, <1>7, <1>8 DEF RowsChanged

\* A row put together is exact where it is to be.
LEMMA RowTogether ==
    ASSUME job \in Jobs, WithinReach, NEW r \in 1 .. job.got - 1, NEW im, Kept(job, 0, im), NEW s,
           NEW m, Roomy(job, RowLanes, DOMAIN m), NEW j \in Nat, NEW end \in Nat, end <= j + RowLanes,
           NEW e, RowsLifted(r, s, m, j, end, e), NEW y \in Rows(job, r), j <= y, y < end,
           \A c \in Known(job, r, "X") : s[<<c, y>>] = Taken(job, r, im[r])[<<c, y>>]
    PROVE  \A x \in Exact(job, r, "X") : e[x * RowLanes + (y - j)] = ColumnsTaken(job, r, im[r])[<<x, y>>]
<1>1. r \in 0 .. Levels(job) - 1 /\ "X" \in Axes
    BY JobRanges DEF Axes
<1>2. PICK w \in Nat, h \in Nat, cas \in {0, 1}, filter \in Filters :
          /\ w = SizeOf(job, r, "X") /\ h = SizeOf(job, r, "Y") /\ cas = CasOf(job, r, "X") /\ filter = job.filter
    BY <1>1, TakenPictures, JobRanges
<1>3. PICK c \in Pictures(filter, w, h) : c = ColumnsTaken(job, r, im[r])
    BY <1>1, <1>2, TakenPictures
<1>4. PICK x \in LinesOf(filter, w) : x = RowOf(c, y, w)
  <2>1. y \in 0 .. h - 1
      BY <1>2 DEF Rows
  <2> QED BY <2>1, LinesOfPictures
<1>5. PICK b \in Nat \ {0}, l \in Nat : b = RowLanes /\ l = y - j /\ l \in 0 .. b - 1 /\ l \in 0 .. end - j - 1 /\ j + l = y
  <2>1. y \in Nat
      BY <1>2 DEF Rows
  <2>2. PICK b \in Nat \ {0} : b = RowLanes
      BY LanesType
  <2>3. PICK l \in Nat : l = y - j
      BY <2>1
  <2>4. l \in 0 .. b - 1 /\ l \in 0 .. end - j - 1 /\ j + l = y
      BY <2>1, <2>2, <2>3
  <2> QED BY <2>2, <2>3, <2>4
<1>6. PICK lines : /\ lines = [k \in 0 .. end - j - 1 |-> [i \in 0 .. Size(r, "X") - 1 |-> s[<<i, j + k>>]]]
                   /\ e = Through(m, b, lines, r, "X")
    BY <1>5 DEF RowsLifted
<1>7. l \in DOMAIN lines /\ lines[l] = [i \in 0 .. w - 1 |-> s[<<i, y>>]]
    BY <1>2, <1>5, <1>6, OfThisJob
<1>8. ASSUME NEW k \in Known(job, r, "X") PROVE lines[l][k] = ForwardLine(filter, x, w, cas)[k]
  <2>1. k \in 0 .. w - 1 /\ y \in 0 .. h - 1
      BY <1>2 DEF Known, Rows
  <2>2. lines[l][k] = s[<<k, y>>]
      BY <1>7, <2>1
  <2>3. Taken(job, r, im[r]) = Rowed(filter, c, w, h, cas)
      BY <1>2, <1>3 DEF Taken
  <2>4. Rowed(filter, c, w, h, cas)[<<k, y>>] = ForwardLine(filter, RowOf(c, y, w), w, cas)[k]
      BY <2>1, RowedAt
  <2> QED BY <1>4, <2>2, <2>3, <2>4
<1>9. Supplied(m, b, l, lines, r, "X", x)
  <2>1. 0 .. SizeOf(job, r, "X") * b - 1 \subseteq DOMAIN m
      BY <1>1, <1>5 DEF Roomy
  <2> QED BY <1>2, <1>7, <1>8, <2>1 DEF Supplied
<1>10. Holds(e, b, l, x, Exact(job, r, "X"))
    BY <1>1, <1>5, <1>6, <1>9, LineTogether
<1>11. \A q \in Exact(job, r, "X") : x[q] = c[<<q, y>>]
    BY <1>2, <1>4 DEF RowOf, Exact
<1> QED BY <1>3, <1>5, <1>10, <1>11 DEF Holds

\* The scratch memory keeps its size.
LEMMA ThroughDomain ==
    ASSUME NEW m, NEW L, NEW lines, NEW r, NEW a
    PROVE  DOMAIN Through(m, L, lines, r, a) = DOMAIN m
BY InvertedDomain DEF Through, Filled

\* The first of the rows that are left.
LEMMA FirstLeft ==
    ASSUME RowsLeft # {}, next \in Nat, NEW h \in Nat, h = Size(res, "Y")
    PROVE  /\ Min(RowsLeft) \in next .. h - 1 /\ Min(RowsLeft) % RowLanes = 0
           /\ \A z \in RowsLeft : Min(RowsLeft) <= z
<1>1. RowsLeft \in SUBSET Nat
    BY DEF RowsLeft
<1>2. Min(RowsLeft) \in RowsLeft /\ \A z \in RowsLeft : Min(RowsLeft) <= z
    BY <1>1, LeastElement
<1>3. \A z \in RowsLeft : z \in next .. h - 1 /\ z % RowLanes = 0
    BY DEF RowsLeft
<1> QED BY <1>2, <1>3

\* Some rows put together keep the invariant (partial.go, DecodePartialTile).
LEMMA WindowRowsKeeps ==
    ASSUME WholeInv, WindowInv, WindowRows
    PROVE  WindowInv'
<1>1. /\ job' = job /\ images' = images /\ res' = res /\ stage' = "wrows" /\ stage = "wrows" /\ job \in Jobs
    BY DEF WindowRows, WholeInv
<1> SUFFICES ASSUME WithinReach
             PROVE  /\ Kept(job, 0, images)
                    /\ DOMAIN sa' = Columns(job, job.got - 1) \X Rows(job, job.got - 1)
                    /\ res \in 1 .. job.got - 1
                    /\ Roomy(job, ColLanes, DOMAIN mem')
                    /\ BandsKnown(job, res, sa', images)
                    /\ next' \in 0 .. SizeOf(job, res, "Y")
                    /\ next' % RowLanes = 0 \/ next' = SizeOf(job, res, "Y")
                    /\ RowsKnown(job, res, sa', images, next')
    BY <1>1, WindowRigid DEF WindowInv
<1>2. /\ Kept(job, 0, images) /\ DOMAIN sa = Columns(job, job.got - 1) \X Rows(job, job.got - 1)
      /\ res \in 1 .. job.got - 1 /\ Roomy(job, ColLanes, DOMAIN mem) /\ BandsKnown(job, res, sa, images)
      /\ next \in 0 .. SizeOf(job, res, "Y") /\ (next % RowLanes = 0 \/ next = SizeOf(job, res, "Y"))
      /\ RowsKnown(job, res, sa, images, next)
    BY <1>1 DEF WindowInv, WindowStages
<1>3. PICK h \in Nat : h = SizeOf(job, res, "Y") /\ h = Size(res, "Y")
  <2>1. res \in 0 .. Levels(job) - 1
      BY <1>1, <1>2, JobRanges
  <2> QED BY <1>1, <2>1, SizeType, OfThisJob DEF Axes
<1>4. PICK b \in Nat \ {0} : b = RowLanes
    BY LanesType
<1>5. PICK j \in Nat : /\ j = Min(RowsLeft) /\ next <= j /\ j < h /\ j % b = 0
                       /\ \A z \in RowsLeft : j <= z
  <2>1. RowsLeft # {} /\ next \in Nat
      BY <1>2, <1>3 DEF WindowRows
  <2>2. /\ Min(RowsLeft) \in next .. h - 1 /\ Min(RowsLeft) % b = 0
        /\ \A z \in RowsLeft : Min(RowsLeft) <= z
      BY <1>3, <1>4, <2>1, FirstLeft
  <2>3. PICK j \in next .. h - 1 : j = Min(RowsLeft)
      BY <2>2
  <2> QED BY <2>1, <2>2, <2>3
<1>6. PICK end \in Nat : /\ end = Min({j + RowLanes, Size(res, "Y")}) /\ end <= j + b /\ end <= h /\ j < end
                         /\ end % b = 0 \/ end = h
  <2>1. PICK t \in Nat : t = j + b
      BY <1>4
  <2>2. Min({t, h}) \in {t, h} /\ Min({t, h}) <= t /\ Min({t, h}) <= h
      BY MinOfTwo
  <2>3. PICK end \in Nat : end = Min({t, h}) /\ end <= t /\ end <= h /\ (end = t \/ end = h)
      BY <2>2
  <2>4. t % b = 0
      BY <1>5, <2>1, NextMultiple
  <2> QED BY <1>3, <1>4, <1>5, <2>1, <2>3, <2>4
<1>7. PICK m : /\ m = Cleared(mem, res) /\ RowsLifted(res, sa, m, j, end, mem')
               /\ RowsStored(res, sa, mem', j, end, sa') /\ next' = end
    BY <1>2, <1>3, <1>5, <1>6 DEF WindowRows, RowsLifted, RowsStored
<1>8. DOMAIN m = DOMAIN mem /\ DOMAIN mem' = DOMAIN mem
  <2>1. DOMAIN m = DOMAIN mem
      BY <1>7 DEF Cleared
  <2> QED BY <1>7, <2>1, ThroughDomain DEF RowsLifted
<1>9. Roomy(job, RowLanes, DOMAIN m)
    BY <1>1, <1>2, <1>8, RoomyFewer
<1>10. DOMAIN sa' = DOMAIN sa /\ SparedOutside(job, res, sa, sa') /\ RowsChanged(res, sa, mem', j, end, sa')
    BY <1>1, <1>2, <1>7, RowsStoredAt
<1>11. BandsKnown(job, res, sa', images)
    BY <1>1, <1>2, <1>10, BandsSpared
<1>12. ASSUME NEW y \in Known(job, res, "Y"), next <= y PROVE j <= y
  <2>1. \E z \in RowsLeft : z <= y
      BY <1>1, <1>2, <1>3, <1>4, <1>12, RowLeft
  <2>2. y \in Int /\ RowsLeft \in SUBSET Int
      BY <1>2, <1>3 DEF Known, RowsLeft
  <2> QED BY <1>5, <2>1, <2>2
<1>13. ASSUME NEW y \in Known(job, res, "Y")
       PROVE  IF y < end
              THEN \A x \in Exact(job, res, "X") : sa'[<<x, y>>] = ColumnsTaken(job, res, images[res])[<<x, y>>]
              ELSE \A x \in Known(job, res, "X") : sa'[<<x, y>>] = Taken(job, res, images[res])[<<x, y>>]
  <2>1. y \in Rows(job, res) /\ y \in Nat
      BY <1>3 DEF Known, Rows
  <2>2. /\ \A x \in Exact(job, res, "X") : x \in Columns(job, res)
        /\ \A x \in Known(job, res, "X") : x \in Columns(job, res)
      BY DEF Exact, Known, Columns
  <2>3. CASE y < next
    <3>1. y < end /\ ~(j <= y /\ y < end)
        BY <1>2, <1>3, <1>5, <1>6, <2>1, <2>3
    <3>2. \A x \in Exact(job, res, "X") : sa[<<x, y>>] = ColumnsTaken(job, res, images[res])[<<x, y>>]
        BY <1>2, <2>3 DEF RowsKnown
    <3> QED BY <1>10, <2>1, <2>2, <3>1, <3>2 DEF RowsChanged
  <2>4. CASE ~(y < next)
    <3>1. j <= y
        BY <1>2, <1>3, <1>12, <2>1, <2>4
    <3>2. \A x \in Known(job, res, "X") : sa[<<x, y>>] = Taken(job, res, images[res])[<<x, y>>]
        BY <1>2, <2>4 DEF RowsKnown
    <3>3. CASE y < end
      <4>1. end <= j + RowLanes
          BY <1>4, <1>6
      <4>2. \A x \in Exact(job, res, "X") :
                mem'[x * RowLanes + (y - j)] = ColumnsTaken(job, res, images[res])[<<x, y>>]
          BY <1>1, <1>2, <1>7, <1>9, <2>1, <3>1, <3>2, <3>3, <4>1, RowTogether
      <4> QED BY <1>10, <2>1, <2>2, <3>1, <3>3, <4>2 DEF RowsChanged
    <3>4. CASE ~(y < end)
        BY <1>10, <2>1, <2>2, <3>2, <3>4 DEF RowsChanged
    <3> QED BY <3>3, <3>4
  <2> QED BY <2>3, <2>4
<1>14. RowsKnown(job, res, sa', images, next')
    BY <1>7, <1>13, Zenon DEF RowsKnown
<1>15. next' \in 0 .. SizeOf(job, res, "Y") /\ (next' % RowLanes = 0 \/ next' = SizeOf(job, res, "Y"))
    BY <1>3, <1>4, <1>6, <1>7
<1> QED BY <1>2, <1>8, <1>10, <1>11, <1>14, <1>15

\* The columns begin when the rows that are known are all put together.
LEMMA WindowRowsEndKeeps ==
    ASSUME WholeInv, WindowInv, WindowRowsEnd
    PROVE  WindowInv'
<1>1. /\ job' = job /\ images' = images /\ res' = res /\ stage' = "wcolumns" /\ stage = "wrows" /\ job \in Jobs
      /\ sa' = sa /\ mem' = mem /\ RowsLeft = {} /\ next' = Made(res, "X")[1]
    BY DEF WindowRowsEnd, WholeInv
<1> SUFFICES ASSUME WithinReach
             PROVE  /\ Kept(job, 0, images)
                    /\ DOMAIN sa = Columns(job, job.got - 1) \X Rows(job, job.got - 1)
                    /\ res \in 1 .. job.got - 1
                    /\ Roomy(job, ColLanes, DOMAIN mem)
                    /\ BandsKnown(job, res, sa, images)
                    /\ next' \in Int /\ ColumnsKnown(job, res, sa, images, next')
    BY <1>1, WindowRigid DEF WindowInv
<1>2. /\ Kept(job, 0, images) /\ DOMAIN sa = Columns(job, job.got - 1) \X Rows(job, job.got - 1)
      /\ res \in 1 .. job.got - 1 /\ Roomy(job, ColLanes, DOMAIN mem) /\ BandsKnown(job, res, sa, images)
      /\ next \in 0 .. SizeOf(job, res, "Y") /\ (next % RowLanes = 0 \/ next = SizeOf(job, res, "Y"))
      /\ RowsKnown(job, res, sa, images, next)
    BY <1>1 DEF WindowInv, WindowStages
<1>3. PICK h \in Nat, b \in Nat \ {0} : h = SizeOf(job, res, "Y") /\ b = RowLanes
  <2>1. res \in 0 .. Levels(job) - 1
      BY <1>1, <1>2, JobRanges
  <2> QED BY <1>1, <2>1, SizeType, LanesType DEF Axes
<1>4. ASSUME NEW y \in Known(job, res, "Y") PROVE y < next
  <2>1. ~(next <= y)
      BY <1>1, <1>2, <1>3, RowLeft
  <2>2. y \in Int /\ next \in Int
      BY <1>2, <1>3 DEF Known
  <2> QED BY <2>1, <2>2
<1>5. PICK f \in Int : f = next'
    BY <1>1, <1>2, FoundSegmented DEF Axes
<1>6. ASSUME NEW x \in Exact(job, res, "X") PROVE ~(x < f)
  <2>1. x \in Found(job, res, "X")
      BY <1>1, <1>2, ExactReached DEF WithinReach, Axes
  <2>2. Within(x, Made(res, "X"))
      BY <1>1, <1>2, <2>1, FoundSegmented DEF Axes
  <2>3. x \in Int
    <3>1. res \in 0 .. Levels(job) - 1
        BY <1>1, <1>2, JobRanges
    <3>2. SizeOf(job, res, "X") \in Nat
        BY <1>1, <3>1, SizeType DEF Axes
    <3> QED BY <3>2 DEF Exact
  <2> QED BY <1>1, <1>5, <2>2, <2>3 DEF Within
<1>7. ASSUME NEW x \in Exact(job, res, "X"), NEW y \in Known(job, res, "Y")
      PROVE  sa[<<x, y>>] = ColumnsTaken(job, res, images[res])[<<x, y>>]
    BY <1>2, <1>4 DEF RowsKnown
<1>8. ColumnsKnown(job, res, sa, images, f)
    BY <1>6, <1>7 DEF ColumnsKnown
<1> QED BY <1>2, <1>5, <1>8

-----------------------------------------------------------------------------
(* The columns of a window.                                                *)

\* The sparse array with the columns from i up to end taken from the scratch memory.
ColumnsStored(r, s, e, i, end, s2) ==
    /\ DOMAIN s = Columns(job, job.got - 1) \X Rows(job, job.got - 1) /\ end <= Made(r, "X")[2]
    /\ s2 = [p \in DOMAIN s |-> IF Within(p[1], <<i, end>>) /\ Within(p[2], Made(r, "Y"))
                                THEN e[p[2] * ColLanes + p[1] - i] ELSE s[p]]

\* Those columns are as in the scratch memory, the others as before.
ColumnsChanged(r, s, e, i, end, s2) ==
    \A x \in Columns(job, r), y \in Rows(job, r) :
        /\ ~(i <= x /\ x < end) => s2[<<x, y>>] = s[<<x, y>>]
        /\ i <= x /\ x < end /\ y \in Exact(job, r, "Y") => s2[<<x, y>>] = e[y * ColLanes + (x - i)]

\* The columns of resolution r in s, from i up to end, put together in e.
ColumnsLifted(r, s, m, i, end, e) ==
    e = Through(m, ColLanes, [l \in 0 .. end - i - 1 |-> [y \in 0 .. Size(r, "Y") - 1 |-> s[<<i + l, y>>]]], r, "Y")

\* What is stored of them.
LEMMA ColumnsStoredAt ==
    ASSUME job \in Jobs, WithinReach, NEW r \in 1 .. job.got - 1, NEW s, NEW e, NEW i \in Int, NEW end \in Int,
           NEW s2, ColumnsStored(r, s, e, i, end, s2)
    PROVE  DOMAIN s2 = DOMAIN s /\ SparedOutside(job, r, s, s2) /\ ColumnsChanged(r, s, e, i, end, s2)
<1>0. DOMAIN s = Columns(job, job.got - 1) \X Rows(job, job.got - 1) /\ end <= Made(r, "X")[2]
    BY DEF ColumnsStored
<1>1. PICK w \in Nat, h \in Nat : w = SizeOf(job, r, "X") /\ h = SizeOf(job, r, "Y") /\ end <= w
  <2>1. r \in 0 .. Levels(job) - 1
      BY JobRanges
  <2>2. PICK w \in Nat, h \in Nat : w = SizeOf(job, r, "X") /\ h = SizeOf(job, r, "Y")
      BY <2>1, SizeType DEF Axes
  <2>3. PICK t \in Int : t = Made(r, "X")[2] /\ t <= w
      BY <2>2, FoundSegmented DEF Axes
  <2> QED BY <1>0, <2>2, <2>3
<1>2. Columns(job, r) \subseteq Columns(job, job.got - 1) /\ Rows(job, r) \subseteq Rows(job, job.got - 1)
  <2>1. job.got - 1 \in 0 .. Levels(job) - 1 /\ r \in 0 .. job.got - 1
      BY JobRanges
  <2> QED BY <2>1, Nested
<1>3. PICK f \in Int, t \in Int : f = Made(r, "Y")[1] /\ t = Made(r, "Y")[2] /\ t <= h
    BY <1>1, FoundSegmented DEF Axes
<1>4. ASSUME NEW x \in Columns(job, job.got - 1), NEW y \in Rows(job, job.got - 1)
      PROVE  s2[<<x, y>>] = IF i <= x /\ x < end /\ f <= y /\ y < t THEN e[y * ColLanes + x - i] ELSE s[<<x, y>>]
  <2>1. <<x, y>> \in DOMAIN s /\ <<x, y>>[1] = x /\ <<x, y>>[2] = y
      BY <1>0
  <2>2. Within(x, <<i, end>>) <=> i <= x /\ x < end
      BY DEF Within
  <2>3. Within(y, Made(r, "Y")) <=> f <= y /\ y < t
      BY <1>3 DEF Within
  <2>4. s2[<<x, y>>] = IF Within(x, <<i, end>>) /\ Within(y, Made(r, "Y")) THEN e[y * ColLanes + x - i] ELSE s[<<x, y>>]
      BY <2>1 DEF ColumnsStored
  <2> QED BY <2>2, <2>3, <2>4
<1>5. PICK gw \in Nat, gh \in Nat : gw = SizeOf(job, job.got - 1, "X") /\ gh = SizeOf(job, job.got - 1, "Y")
  <2>1. job.got - 1 \in 0 .. Levels(job) - 1
      BY JobRanges
  <2> QED BY <2>1, SizeType DEF Axes
<1>6. SparedOutside(job, r, s, s2)
  <2> SUFFICES ASSUME NEW x \in Columns(job, job.got - 1), NEW y \in Rows(job, job.got - 1),
                      x \notin Columns(job, r) \/ y \notin Rows(job, r)
               PROVE  s2[<<x, y>>] = s[<<x, y>>]
      BY DEF SparedOutside
  <2>1. x \in 0 .. gw - 1 /\ y \in 0 .. gh - 1
      BY <1>5 DEF Columns, Rows
  <2>2. ~(i <= x /\ x < end /\ f <= y /\ y < t)
      BY <1>1, <1>3, <2>1 DEF Columns, Rows
  <2> QED BY <1>4, <2>2
<1>7. ASSUME NEW x \in Columns(job, r), NEW y \in Rows(job, r)
      PROVE  /\ ~(i <= x /\ x < end) => s2[<<x, y>>] = s[<<x, y>>]
             /\ i <= x /\ x < end /\ y \in Exact(job, r, "Y") => s2[<<x, y>>] = e[y * ColLanes + (x - i)]
  <2>1. x \in Columns(job, job.got - 1) /\ y \in Rows(job, job.got - 1)
      BY <1>2
  <2>2. ASSUME y \in Exact(job, r, "Y") PROVE f <= y /\ y < t
    <3>1. y \in Found(job, r, "Y")
        BY <2>2, ExactReached DEF WithinReach, Axes
    <3> QED BY <1>3, <3>1, FoundSegmented DEF Within, Axes
  <2>3. y * ColLanes + x - i = y * ColLanes + (x - i)
    <3>1. PICK b \in Int : b = ColLanes
        BY LanesType
    <3>2. x \in Int /\ y \in Int
        BY <1>1 DEF Columns, Rows
    <3>3. PICK z \in Int : z = y * b
        BY <3>1, <3>2
    <3> QED BY <3>1, <3>2, <3>3
  <2> QED BY <1>4, <2>1, <2>2, <2>3
<1>8. DOMAIN s2 = DOMAIN s
    BY DEF ColumnsStored
<1> QED BY <1>6, <1>7, <1>8 DEF ColumnsChanged

\* A column put together is exact where it is to be.
LEMMA ColumnTogether ==
    ASSUME job \in Jobs, WithinReach, NEW r \in 1 .. job.got - 1, NEW im, Kept(job, 0, im), NEW s,
           NEW m, Roomy(job, ColLanes, DOMAIN m), NEW i \in Int, NEW end \in Int, end <= i + ColLanes,
           NEW e, ColumnsLifted(r, s, m, i, end, e), NEW x \in Columns(job, r), i <= x, x < end,
           \A c \in Known(job, r, "Y") : s[<<x, c>>] = ColumnsTaken(job, r, im[r])[<<x, c>>]
    PROVE  \A y \in Exact(job, r, "Y") : e[y * ColLanes + (x - i)] = im[r][<<x, y>>]
<1>1. r \in 0 .. Levels(job) - 1 /\ "Y" \in Axes
    BY JobRanges DEF Axes
<1>2. PICK w \in Nat, h \in Nat, cas \in {0, 1}, filter \in Filters :
          /\ w = SizeOf(job, r, "X") /\ h = SizeOf(job, r, "Y") /\ cas = CasOf(job, r, "Y") /\ filter = job.filter
    BY <1>1, TakenPictures, JobRanges
<1>3. PICK c \in Pictures(filter, w, h) : c = im[r]
    BY <1>1, <1>2, TakenPictures
<1>4. PICK line \in LinesOf(filter, h) : line = ColOf(c, x, h)
  <2>1. x \in 0 .. w - 1
      BY <1>2 DEF Columns
  <2> QED BY <2>1, LinesOfPictures
<1>5. PICK b \in Nat \ {0}, l \in Nat : b = ColLanes /\ l = x - i /\ l \in 0 .. b - 1 /\ l \in 0 .. end - i - 1 /\ i + l = x
  <2>1. x \in Nat
      BY <1>2 DEF Columns
  <2>2. PICK b \in Nat \ {0} : b = ColLanes
      BY LanesType
  <2>3. PICK l \in Nat : l = x - i
      BY <2>1
  <2>4. l \in 0 .. b - 1 /\ l \in 0 .. end - i - 1 /\ i + l = x
      BY <2>1, <2>2, <2>3
  <2> QED BY <2>2, <2>3, <2>4
<1>6. PICK lines : /\ lines = [k \in 0 .. end - i - 1 |-> [y \in 0 .. Size(r, "Y") - 1 |-> s[<<i + k, y>>]]]
                   /\ e = Through(m, b, lines, r, "Y")
    BY <1>5 DEF ColumnsLifted
<1>7. l \in DOMAIN lines /\ lines[l] = [y \in 0 .. h - 1 |-> s[<<x, y>>]]
    BY <1>2, <1>5, <1>6, OfThisJob
<1>8. ASSUME NEW k \in Known(job, r, "Y") PROVE lines[l][k] = ForwardLine(filter, line, h, cas)[k]
  <2>1. k \in 0 .. h - 1 /\ x \in 0 .. w - 1
      BY <1>2 DEF Known, Columns
  <2>2. lines[l][k] = s[<<x, k>>]
      BY <1>7, <2>1
  <2>3. ColumnsTaken(job, r, im[r]) = Columned(filter, c, w, h, cas)
      BY <1>2, <1>3 DEF ColumnsTaken
  <2>4. Columned(filter, c, w, h, cas)[<<x, k>>] = ForwardLine(filter, ColOf(c, x, h), h, cas)[k]
      BY <2>1, ColumnedAt
  <2> QED BY <1>4, <2>2, <2>3, <2>4
<1>9. Supplied(m, b, l, lines, r, "Y", line)
  <2>1. 0 .. SizeOf(job, r, "Y") * b - 1 \subseteq DOMAIN m
      BY <1>1, <1>5 DEF Roomy
  <2> QED BY <1>2, <1>4, <1>7, <1>8, <2>1 DEF Supplied
<1>10. Holds(e, b, l, line, Exact(job, r, "Y"))
    BY <1>1, <1>5, <1>6, <1>9, LineTogether
<1>11. \A q \in Exact(job, r, "Y") : line[q] = c[<<x, q>>]
    BY <1>2, <1>4 DEF ColOf, Exact
<1> QED BY <1>3, <1>5, <1>10, <1>11 DEF Holds

\* Some columns put together keep the invariant.
LEMMA WindowColumnsKeeps ==
    ASSUME WholeInv, WindowInv, WindowColumns
    PROVE  WindowInv'
<1>1. /\ job' = job /\ images' = images /\ res' = res /\ stage' = "wcolumns" /\ stage = "wcolumns" /\ job \in Jobs
    BY DEF WindowColumns, WholeInv
<1> SUFFICES ASSUME WithinReach
             PROVE  /\ Kept(job, 0, images)
                    /\ DOMAIN sa' = Columns(job, job.got - 1) \X Rows(job, job.got - 1)
                    /\ res \in 1 .. job.got - 1
                    /\ Roomy(job, ColLanes, DOMAIN mem')
                    /\ BandsKnown(job, res, sa', images)
                    /\ next' \in Int /\ ColumnsKnown(job, res, sa', images, next')
    BY <1>1, WindowRigid DEF WindowInv
<1>2. /\ Kept(job, 0, images) /\ DOMAIN sa = Columns(job, job.got - 1) \X Rows(job, job.got - 1)
      /\ res \in 1 .. job.got - 1 /\ Roomy(job, ColLanes, DOMAIN mem) /\ BandsKnown(job, res, sa, images)
      /\ next \in Int /\ ColumnsKnown(job, res, sa, images, next)
    BY <1>1 DEF WindowInv, WindowStages
<1>3. PICK b \in Nat \ {0} : b = ColLanes
    BY LanesType
<1>4. PICK t \in Int : t = Made(res, "X")[2] /\ next < t
    BY <1>1, <1>2, FoundSegmented DEF WindowColumns, Axes
<1>5. PICK i \in Int, end \in Int : i = next /\ end = Min({i + b, t}) /\ end <= i + b /\ end <= t
  <2>1. PICK i \in Int, u \in Int : i = next /\ u = i + b
      BY <1>2
  <2>2. Min({u, t}) \in {u, t} /\ Min({u, t}) <= u /\ Min({u, t}) <= t
      BY MinOfTwo
  <2>3. PICK end \in Int : end = Min({u, t}) /\ end <= u /\ end <= t
      BY <2>2
  <2> QED BY <2>1, <2>3
<1>6. /\ ColumnsLifted(res, sa, mem, i, end, mem') /\ ColumnsStored(res, sa, mem', i, end, sa') /\ next' = end
  <2>1. end = Min({next + ColLanes, Made(res, "X")[2]})
      BY <1>3, <1>4, <1>5
  <2> QED BY <1>2, <1>4, <1>5, <2>1 DEF WindowColumns, ColumnsLifted, ColumnsStored
<1>7. DOMAIN mem' = DOMAIN mem
    BY <1>6, ThroughDomain DEF ColumnsLifted
<1>8. DOMAIN sa' = DOMAIN sa /\ SparedOutside(job, res, sa, sa') /\ ColumnsChanged(res, sa, mem', i, end, sa')
    BY <1>1, <1>2, <1>6, ColumnsStoredAt
<1>9. BandsKnown(job, res, sa', images)
    BY <1>1, <1>2, <1>8, BandsSpared
<1>10. ASSUME NEW x \in Exact(job, res, "X")
       PROVE  IF x < end THEN \A y \in Exact(job, res, "Y") : sa'[<<x, y>>] = images[res][<<x, y>>]
              ELSE \A y \in Known(job, res, "Y") : sa'[<<x, y>>] = ColumnsTaken(job, res, images[res])[<<x, y>>]
  <2>1. x \in Columns(job, res) /\ x \in Int
    <3>1. res \in 0 .. Levels(job) - 1
        BY <1>1, <1>2, JobRanges
    <3>2. SizeOf(job, res, "X") \in Nat
        BY <1>1, <3>1, SizeType DEF Axes
    <3> QED BY <3>2 DEF Exact, Columns
  <2>2. /\ \A y \in Exact(job, res, "Y") : y \in Rows(job, res)
        /\ \A y \in Known(job, res, "Y") : y \in Rows(job, res)
      BY DEF Exact, Known, Rows
  <2>3. CASE x < i
    <3>1. ~(i <= x /\ x < end)
        BY <2>1, <2>3
    <3>2. \A y \in Exact(job, res, "Y") : sa'[<<x, y>>] = images[res][<<x, y>>]
        BY <1>2, <1>5, <1>8, <2>1, <2>2, <2>3, <3>1 DEF ColumnsKnown, ColumnsChanged
    <3>3. x < end
        BY <1>3, <1>4, <1>5, <2>1, <2>3, MinOfTwo
    <3> QED BY <3>2, <3>3
  <2>4. CASE ~(x < i)
    <3>1. i <= x
        BY <2>1, <2>4
    <3>2. \A y \in Known(job, res, "Y") : sa[<<x, y>>] = ColumnsTaken(job, res, images[res])[<<x, y>>]
        BY <1>2, <1>5, <2>4 DEF ColumnsKnown
    <3>3. CASE x < end
      <4>1. end <= i + ColLanes
          BY <1>3, <1>5
      <4>2. \A y \in Exact(job, res, "Y") : mem'[y * ColLanes + (x - i)] = images[res][<<x, y>>]
          BY <1>1, <1>2, <1>6, <2>1, <3>1, <3>2, <3>3, <4>1, ColumnTogether
      <4> QED BY <1>8, <2>1, <2>2, <3>1, <3>3, <4>2 DEF ColumnsChanged
    <3>4. CASE ~(x < end)
        BY <1>8, <2>1, <2>2, <3>2, <3>4 DEF ColumnsChanged
    <3> QED BY <3>3, <3>4
  <2> QED BY <2>3, <2>4
<1>11. ColumnsKnown(job, res, sa', images, next')
    BY <1>6, <1>10, Zenon DEF ColumnsKnown
<1> QED BY <1>2, <1>6, <1>7, <1>8, <1>9, <1>11

\* When its columns are done, a resolution is put together, and the next one begins or the window
\* is read.
LEMMA WindowColumnsEndKeeps ==
    ASSUME WholeInv, WindowInv, WindowColumnsEnd
    PROVE  WindowInv'
<1>1. /\ job' = job /\ images' = images /\ sa' = sa /\ mem' = mem /\ stage = "wcolumns" /\ job \in Jobs
    BY DEF WindowColumnsEnd, WholeInv
<1> SUFFICES ASSUME WithinReach PROVE WindowInv'
    BY <1>1, WindowRigid DEF WindowInv
<1>2. /\ Kept(job, 0, images) /\ DOMAIN sa = Columns(job, job.got - 1) \X Rows(job, job.got - 1)
      /\ res \in 1 .. job.got - 1 /\ Roomy(job, ColLanes, DOMAIN mem) /\ BandsKnown(job, res, sa, images)
      /\ next \in Int /\ ColumnsKnown(job, res, sa, images, next)
    BY <1>1 DEF WindowInv, WindowStages
<1>3. PICK t \in Int : t = Made(res, "X")[2] /\ next >= t
    BY <1>1, <1>2, FoundSegmented DEF WindowColumnsEnd, Axes
<1>4. PutTogether(job, res, sa, images)
  <2>1. ASSUME NEW x \in Exact(job, res, "X") PROVE x < next
    <3>1. x \in Found(job, res, "X")
        BY <1>1, <1>2, ExactReached DEF WithinReach, Axes
    <3>2. Within(x, Made(res, "X"))
        BY <1>1, <1>2, <3>1, FoundSegmented DEF Axes
    <3>3. x \in Int
      <4>1. res \in 0 .. Levels(job) - 1
          BY <1>1, <1>2, JobRanges
      <4>2. SizeOf(job, res, "X") \in Nat
          BY <1>1, <4>1, SizeType DEF Axes
      <4> QED BY <4>2 DEF Exact
    <3> QED BY <1>2, <1>3, <3>2, <3>3 DEF Within
  <2> QED BY <1>2, <2>1 DEF ColumnsKnown, PutTogether
<1>5. PICK got \in Nat, r \in Nat : got = job.got /\ r = res /\ r \in 1 .. got - 1
  <2>1. job.got \in Nat
      BY <1>1, JobRanges
  <2> QED BY <1>2, <2>1
<1>6. CASE res + 1 < job.got
  <2>1. stage' = "wrows" /\ res' = res + 1 /\ next' = 0
      BY <1>6 DEF WindowColumnsEnd
  <2>2. r + 1 \in 1 .. job.got - 1 /\ (r + 1) - 1 = r
      BY <1>5, <1>6
  <2>3. RowsKnown(job, r + 1, sa, images, 0) /\ BandsKnown(job, r + 1, sa, images)
      BY <1>1, <1>2, <1>4, <1>5, <2>2, RowsBegin
  <2>4. 0 \in 0 .. SizeOf(job, r + 1, "Y") /\ 0 % RowLanes = 0
    <3>1. r + 1 \in 0 .. Levels(job) - 1
        BY <1>1, <2>2, JobRanges
    <3>2. SizeOf(job, r + 1, "Y") \in Nat
        BY <1>1, <3>1, SizeType DEF Axes
    <3>3. PICK b \in Nat \ {0} : b = RowLanes
        BY LanesType
    <3>4. 0 % b = 0
        OBVIOUS
    <3> QED BY <3>2, <3>3, <3>4
  <2> QED BY <1>1, <1>2, <1>5, <2>1, <2>2, <2>3, <2>4, WindowRigid DEF WindowInv, WindowStages
<1>7. CASE ~(res + 1 < job.got)
  <2>1. stage' = "read"
      BY <1>7 DEF WindowColumnsEnd
  <2>2. res = job.got - 1
      BY <1>5, <1>7
  <2> QED BY <1>1, <1>2, <1>4, <2>1, <2>2, WindowRigid DEF WindowInv, WindowStages
<1> QED BY <1>6, <1>7

\* The hand-over from tier 1 to the window establishes it (tcd/decode.go, isSubbandAreaOfInterest;
\* partial.go, DecodePartialTile).
LEMMA DecodeWindowKeeps ==
    ASSUME WholeInv, WindowInv, DecodeWindow
    PROVE  WindowInv'
<1>1. /\ job' = job /\ images' = images /\ job \in Jobs /\ TakenApart(job, 0, data, images)
      /\ sa' = [p \in Places(job.got - 1) |-> Delivered(p)]
    BY DEF DecodeWindow, WholeInv
<1> SUFFICES ASSUME WithinReach PROVE WindowInv'
    BY <1>1, WindowRigid DEF WindowInv
<1>2. PICK got \in Nat, n \in Nat : got = job.got /\ n = Levels(job) /\ got \in 1 .. n
    BY <1>1, JobRanges
<1>3. Places(job.got - 1) = Columns(job, job.got - 1) \X Rows(job, job.got - 1)
    BY OfThisJob DEF Places, Columns, Rows
<1>4. Kept(job, 0, images) /\ DOMAIN sa' = Columns(job, job.got - 1) \X Rows(job, job.got - 1)
    BY <1>1, <1>3 DEF TakenApart
<1>5. \A k \in 0 .. job.got - 1 : Columns(job, k) \subseteq Columns(job, job.got - 1) /\ Rows(job, k) \subseteq Rows(job, job.got - 1)
  <2> TAKE k \in 0 .. job.got - 1
  <2>1. job.got - 1 \in 0 .. Levels(job) - 1
      BY <1>2
  <2> QED BY <1>1, <2>1, Nested
<1>6. PutTogether(job, 0, sa', images)
  <2> SUFFICES ASSUME NEW x \in Exact(job, 0, "X"), NEW y \in Exact(job, 0, "Y")
               PROVE  sa'[<<x, y>>] = images[0][<<x, y>>]
      BY DEF PutTogether
  <2>1. x \in Columns(job, 0) /\ y \in Rows(job, 0) /\ 0 \in 0 .. job.got - 1
      BY <1>2 DEF Exact, Columns, Rows
  <2>2. <<x, y>> \in Places(job.got - 1)
      BY <1>3, <1>5, <2>1
  <2>3. Delivered(<<x, y>>) = images[0][<<x, y>>]
      BY <1>1, LowestDelivered
  <2> QED BY <1>1, <2>2, <2>3
<1>7. BandsKnown(job, 0, sa', images)
  <2> SUFFICES ASSUME NEW k \in 0 + 1 .. job.got - 1, NEW x \in Known(job, k, "X"), NEW y \in Known(job, k, "Y"),
                      x \notin Columns(job, k - 1) \/ y \notin Rows(job, k - 1)
               PROVE  sa'[<<x, y>>] = Taken(job, k, images[k])[<<x, y>>]
      BY DEF BandsKnown
  <2>1. x \in Columns(job, k) /\ y \in Rows(job, k) /\ k \in 0 .. job.got - 1 /\ k \in 1 .. job.got - 1
      BY <1>2 DEF Known, Columns, Rows
  <2>2. <<x, y>> \in Places(job.got - 1)
      BY <1>3, <1>5, <2>1
  <2>3. Delivered(<<x, y>>) = Taken(job, k, images[k])[<<x, y>>]
      BY <1>1, <2>1, KnownDelivered
  <2> QED BY <1>1, <2>2, <2>3
<1>8. CASE job.got = 1 \/ Empty
  <2>1. stage' = "read"
      BY <1>8 DEF DecodeWindow
  <2>2. PutTogether(job, job.got - 1, sa', images)
    <3>1. CASE job.got = 1
      <4>1. job.got - 1 = 0
          BY <3>1
      <4> QED BY <1>6, <4>1
    <3>2. CASE Empty
      <4>1. PICK a \in Axes : SizeOf(job, job.got - 1, a) = 0
          BY <3>2, OfThisJob DEF Empty
      <4>2. Exact(job, job.got - 1, a) = {}
          BY <4>1 DEF Exact
      <4> QED BY <4>2 DEF PutTogether, Axes
    <3> QED BY <1>8, <3>1, <3>2
  <2> QED BY <1>1, <1>4, <2>1, <2>2, WindowRigid DEF WindowInv, WindowStages
<1>9. CASE ~(job.got = 1 \/ Empty)
  <2>1. stage' = "wrows" /\ res' = 1 /\ next' = 0 /\ mem' = [k \in 0 .. ColLanes * Longest - 1 |-> 0]
      BY <1>9 DEF DecodeWindow
  <2>2. 1 \in 1 .. job.got - 1 /\ 1 - 1 = 0
      BY <1>2, <1>9
  <2>3. RowsKnown(job, 1, sa', images, 0) /\ BandsKnown(job, 1, sa', images)
      BY <1>1, <1>4, <1>6, <1>7, <2>2, RowsBegin
  <2>4. 0 \in 0 .. SizeOf(job, 1, "Y") /\ 0 % RowLanes = 0
    <3>1. 1 \in 0 .. Levels(job) - 1
        BY <1>2, <2>2
    <3>2. SizeOf(job, 1, "Y") \in Nat
        BY <1>1, <3>1, SizeType DEF Axes
    <3>3. PICK b \in Nat \ {0} : b = RowLanes
        BY LanesType
    <3>4. 0 % b = 0
        OBVIOUS
    <3> QED BY <3>2, <3>3, <3>4
  <2>5. Roomy(job, ColLanes, DOMAIN mem')
      BY <1>1, <2>1, MemoryRoomy
  <2> QED BY <1>1, <1>4, <2>1, <2>2, <2>3, <2>4, <2>5, WindowRigid DEF WindowInv, WindowStages
<1> QED BY <1>8, <1>9

\* What is read of the resolution decoded is where it is to be exact.
LEMMA ReadWindowKeeps ==
    ASSUME WholeInv, WindowInv, ReadWindow
    PROVE  WindowInv'
<1>1. /\ job' = job /\ images' = images /\ stage = "read" /\ stage' = "done" /\ job \in Jobs
      /\ out' = [p \in InWindow |-> sa[p]]
    BY DEF ReadWindow, WholeInv
<1> SUFFICES ASSUME WithinReach, NEW p \in InWindow PROVE out'[p] = images[job.got - 1][p]
    BY <1>1, WindowRigid DEF WindowInv, WindowStages
<1>2. PutTogether(job, job.got - 1, sa, images)
    BY <1>1 DEF WindowInv
<1>3. PICK got \in Nat : got = job.got /\ got - 1 \in 0 .. Levels(job) - 1 /\ N = Levels(job) /\ N \in Nat /\ got >= 1
    BY <1>1, JobRanges, OfThisJob
<1>4. PICK x \in Columns(job, got - 1), y \in Rows(job, got - 1) :
          /\ p = <<x, y>> /\ Within(x, WinOf("X")) /\ Within(y, WinOf("Y"))
    BY <1>3, OfThisJob DEF InWindow, Places, Columns, Rows, Coord, Axes
<1>5. ASSUME NEW a \in Axes, NEW c \in 0 .. SizeOf(job, got - 1, a) - 1, Within(c, WinOf(a))
      PROVE  c \in Exact(job, got - 1, a)
  <2>1. PICK l \in Nat, f \in Nat, t \in Nat, n \in Nat :
            /\ l = LoOf(job, got - 1, a) /\ f = FromOf(job, got - 1, a) /\ t = ToOf(job, got - 1, a)
            /\ n = SizeOf(job, got - 1, a)
      BY <1>1, <1>3, WindowExtent, ResolutionExtent, SizeType
  <2>2. WinOf(a) = <<f - l, t - l>>
    <3>1. N - job.got = Levels(job) - 1 - (got - 1)
        BY <1>3
    <3>2. Lo(job.got - 1, a) = l
        BY <1>3, <2>1, OfThisJob
    <3> QED BY <2>1, <3>1, <3>2 DEF WinOf, FromOf, ToOf
  <2>3. f - l <= c /\ c < t - l
      BY <1>5, <2>2 DEF Within
  <2>4. PICK m \in Nat : m = Margin(job, got - 1)
    <3>1. Margin(job, got - 1) \in Nat
        BY DEF Margin
    <3> QED BY <3>1
  <2>5. f - m <= c + l /\ c + l < t + m
      BY <2>1, <2>3, <2>4
  <2> QED BY <2>1, <2>4, <2>5 DEF Exact
<1>6. x \in Exact(job, got - 1, "X") /\ y \in Exact(job, got - 1, "Y")
    BY <1>4, <1>5 DEF Columns, Rows, Axes
<1> QED BY <1>1, <1>2, <1>3, <1>4, <1>6 DEF PutTogether

\* The other steps leave the window alone.
LEMMA OtherKeeps ==
    ASSUME WholeInv, WindowInv,
           EncodeLevel \/ DecodeWhole \/ (\E g \in DOMAIN todo : Lines(g)) \/ EndRows \/ EndColumns
    PROVE  WindowInv'
<1>1. /\ job' = job /\ stage' \notin WindowStages
      /\ stage' = "done" => WholeTile
    BY DEF EncodeLevel, DecodeWhole, Lines, EndRows, EndColumns, WholeInv, WindowStages
<1>2. WholeTile' <=> WholeTile
    BY <1>1, WindowRigid
<1> QED BY <1>1, <1>2 DEF WindowInv, WindowStages

\* So does a step that changes nothing.
LEMMA WindowStutterKeeps ==
    ASSUME WindowInv, UNCHANGED vars
    PROVE  WindowInv'
<1>1. /\ job' = job /\ images' = images /\ stage' = stage /\ res' = res /\ sa' = sa /\ mem' = mem
      /\ next' = next /\ out' = out
    BY DEF vars
<1> QED BY <1>1, WindowRigid DEF WindowInv

\* The encoder is only relied on for components it does not spoil.
WindowTileInv == NoEmptyRow(job) => WholeInv /\ WindowInv

\* A window is exact at every step as far as its margins reach.
THEOREM WindowInvariant == Spec => []WindowTileInv
<1>1. Init => WindowTileInv
  <2>1. Init => WindowInv
      BY DEF Init, WindowInv, WindowStages
  <2> QED BY <2>1, InitialInv DEF WindowTileInv
<1>2. WindowTileInv /\ WholeTileInv' /\ [Next]_vars => WindowTileInv'
  <2> SUFFICES ASSUME WindowTileInv, WholeTileInv', [Next]_vars, NoEmptyRow(job)' PROVE WindowInv'
      BY DEF WindowTileInv, WholeTileInv
  <2>1. NoEmptyRow(job)
      BY JobStays DEF NoEmptyRow
  <2>2. WholeInv /\ WindowInv
      BY <2>1 DEF WindowTileInv
  <2>3. CASE EncodeLevel \/ DecodeWhole \/ (\E g \in DOMAIN todo : Lines(g)) \/ EndRows \/ EndColumns
      BY <2>2, <2>3, OtherKeeps
  <2>4. CASE DecodeWindow
      BY <2>2, <2>4, DecodeWindowKeeps
  <2>5. CASE WindowRows
      BY <2>2, <2>5, WindowRowsKeeps
  <2>6. CASE WindowRowsEnd
      BY <2>2, <2>6, WindowRowsEndKeeps
  <2>7. CASE WindowColumns
      BY <2>2, <2>7, WindowColumnsKeeps
  <2>8. CASE WindowColumnsEnd
      BY <2>2, <2>8, WindowColumnsEndKeeps
  <2>9. CASE ReadWindow
      BY <2>2, <2>9, ReadWindowKeeps
  <2>10. CASE UNCHANGED vars
      BY <2>2, <2>10, WindowStutterKeeps
  <2> QED BY <2>3, <2>4, <2>5, <2>6, <2>7, <2>8, <2>9, <2>10 DEF Next
<1> QED BY <1>1, <1>2, WholeInvariant, PTL DEF Spec

\* Whatever the code-blocks left out and what was left in the scratch line, a window is the part of
\* the encoder's picture that it covers, for every component, window and size of the lines taken
\* together: always with the 5/3 filter, and within three resolutions with the 9/7 filter
\* (partial.go, DecodePartialTile; tcd/decode.go, isSubbandAreaOfInterest).
THEOREM WindowTileExact == Spec => [](NoEmptyRow(job) => WindowExact)
<1>1. WindowTileInv => (NoEmptyRow(job) => WindowExact)
    BY DEF WindowTileInv, WindowInv, WindowExact
<1> QED BY <1>1, WindowInvariant, PTL
==================================================================================
