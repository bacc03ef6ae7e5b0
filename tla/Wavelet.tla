-------------------------------- MODULE Wavelet --------------------------------
(***************************************************************************)
(* The wavelet transforms of internal/dwt on one line, and on the rows and  *)
(* columns of a buffer: the reversible 5/3 and the irreversible 9/7.        *)
(*                                                                          *)
(* A line of n elements is a function on 0..n-1.  In order, it has low-pass *)
(* and high-pass elements in turn, and cas is 0 if a low-pass one comes     *)
(* first (the line starts at an even coordinate) and 1 if a high-pass one   *)
(* does.  Transformed, the low-pass elements come first.  The kernels of    *)
(* the code take several steps in one pass and write out the cases at the   *)
(* ends; each of them is a sequence of lifting steps, in which elements of  *)
(* one kind move by their two neighbours, and an end has the same neighbour *)
(* on both sides.                                                           *)
(*                                                                          *)
(* The 9/7 filter computes in a finite field instead of floating point:     *)
(* which elements go into which is kept, how a sum is rounded is not.  The  *)
(* factor of two in its inverse, which the decoder's step sizes undo, is    *)
(* left out with them.                                                      *)
(***************************************************************************)
EXTENDS TileGeometry

Field == 31
Alpha == 7
Beta == 12
Gamma == 3
Delta == 19
K == 5
InvK == 25

\* Go divides towards zero.
Halved(v) == IF v < 0 THEN -((-v) \div 2) ELSE v \div 2

\* A lifting step moves the high-pass or the low-pass elements.
Step(high, factor) == [high |-> high, factor |-> factor]
InverseSteps(filter) ==
    IF filter = "5/3" THEN <<Step(FALSE, -1), Step(TRUE, 1)>>
    ELSE <<Step(FALSE, -Delta), Step(TRUE, -Gamma), Step(FALSE, -Beta), Step(TRUE, -Alpha)>>
ForwardSteps(filter) ==
    IF filter = "5/3" THEN <<Step(TRUE, -1), Step(FALSE, 1)>>
    ELSE <<Step(TRUE, Alpha), Step(FALSE, Beta), Step(TRUE, Gamma), Step(FALSE, Delta)>>

Moved(filter, step, v, a, b) ==
    IF filter = "9/7" THEN (v + step.factor * (a + b)) % Field
    ELSE IF step.high THEN v + step.factor * ((a + b) \div 2)
    ELSE v + step.factor * ((a + b + 2) \div 4)

\* Lines are lifted L at a time: element q of line l is word q * L + l of m.
\* Only the elements of their kind from seg[kind][1] up to seg[kind][2] move.
Within(i, range) == range[1] <= i /\ i < range[2]
Left(q) == IF q = 0 THEN 1 ELSE q - 1
Right(q, n) == IF q + 1 < n THEN q + 1 ELSE q - 1

IsHigh(q, cas) == q % 2 # cas
Moves(q, cas, seg, high) == IsHigh(q, cas) = high /\ Within(q \div 2, seg[high])

Lift(filter, m, L, n, cas, seg, step) ==
    [k \in DOMAIN m |->
        IF Moves(k \div L, cas, seg, step.high)
        THEN Moved(filter, step, m[k], m[Left(k \div L) * L + (k % L)], m[Right(k \div L, n) * L + (k % L)])
        ELSE m[k]]

\* Two lifting steps for the 5/3 filter, four for the 9/7.
Lifts(filter, m, L, n, cas, seg, steps) ==
    LET Then(line, i) == Lift(filter, line, L, n, cas, seg, steps[i])
    IN  IF filter = "5/3" THEN Then(Then(m, 1), 2) ELSE Then(Then(Then(Then(m, 1), 2), 3), 4)

Scaled(filter, m, L, cas, seg, low, high) ==
    IF filter = "5/3" THEN m
    ELSE [k \in DOMAIN m |->
            IF Moves(k \div L, cas, seg, FALSE) THEN (m[k] * low) % Field
            ELSE IF Moves(k \div L, cas, seg, TRUE) THEN (m[k] * high) % Field
            ELSE m[k]]

\* Nothing is done to one element, but that the 5/3 filter keeps one high-pass
\* element at twice its value.
Inverted(filter, m, L, n, cas, seg) ==
    IF n > 1
    THEN Lifts(filter, Scaled(filter, m, L, cas, seg, K, InvK), L, n, cas, seg, InverseSteps(filter))
    ELSE IF n = 1 /\ cas = 1 /\ filter = "5/3"
    THEN [k \in DOMAIN m |-> IF k < L THEN Halved(m[k]) ELSE m[k]]
    ELSE m

Forwarded(filter, m, n, cas, seg) ==
    IF n > 1
    THEN Scaled(filter, Lifts(filter, m, 1, n, cas, seg, ForwardSteps(filter)), 1, cas, seg, InvK, K)
    ELSE IF n = 1 /\ cas = 1 /\ filter = "5/3" THEN [m EXCEPT ![0] = 2 * @]
    ELSE m

LowCount(n, cas) == (n + 1 - cas) \div 2
AllOf(n, cas) == [high \in BOOLEAN |-> <<0, IF high THEN n - LowCount(n, cas) ELSE LowCount(n, cas)>>]

\* Where element q of the line in order is in the transformed line.
Place(q, n, cas) == IF IsHigh(q, cas) THEN LowCount(n, cas) + q \div 2 ELSE q \div 2
Interleaved(line, n, cas) == [q \in 0..n-1 |-> line[Place(q, n, cas)]]
Ordinal(k, n, cas) ==
    IF k < LowCount(n, cas) THEN 2 * k + cas ELSE 2 * (k - LowCount(n, cas)) + 1 - cas
Deinterleaved(line, n, cas) == [k \in 0..n-1 |-> line[Ordinal(k, n, cas)]]

InverseLine(filter, line, n, cas) ==
    Inverted(filter, Interleaved(line, n, cas), 1, n, cas, AllOf(n, cas))
ForwardLine(filter, line, n, cas) ==
    Deinterleaved(Forwarded(filter, line, n, cas, AllOf(n, cas)), n, cas)

-----------------------------------------------------------------------------
(* Rows and columns of a buffer, in which row j begins at word j * w.      *)

RowAt(buf, w, j, n) == [i \in 0..n-1 |-> buf[j * w + i]]
ColAt(buf, w, j, n) == [i \in 0..n-1 |-> buf[i * w + j]]

InverseRows(filter, buf, w, lines, n, cas) ==
    LET row == [j \in lines |-> InverseLine(filter, RowAt(buf, w, j, n), n, cas)]
    IN  [k \in DOMAIN buf |-> IF k \div w \in lines /\ k % w < n THEN row[k \div w][k % w] ELSE buf[k]]
InverseColumns(filter, buf, w, lines, n, cas) ==
    LET column == [j \in lines |-> InverseLine(filter, ColAt(buf, w, j, n), n, cas)]
    IN  [k \in DOMAIN buf |-> IF k % w \in lines /\ k \div w < n THEN column[k % w][k \div w] ELSE buf[k]]

ForwardColumns(filter, buf, w, cols, n, cas) ==
    LET column == [c \in 0..cols-1 |-> ForwardLine(filter, ColAt(buf, w, c, n), n, cas)]
    IN  [k \in DOMAIN buf |-> IF k % w < cols /\ k \div w < n THEN column[k % w][k \div w] ELSE buf[k]]

\* The tail of the odd case of the 5/3 filter runs for an empty row too, and
\* writes over the word the row would begin with, from it and the word after
\* it (zero beyond the buffer).  An empty column is left alone.
WordAt(buf, k) == IF k \in DOMAIN buf THEN buf[k] ELSE 0
EmptyRow(buf, k) == WordAt(buf, k + 1) + (2 * (buf[k] - WordAt(buf, k + 1)) + 2) \div 4

ForwardRows(filter, buf, w, rows, n, cas) ==
    LET row == [j \in 0..rows-1 |-> ForwardLine(filter, RowAt(buf, w, j, n), n, cas)]
    IN  [k \in DOMAIN buf |->
            IF k \div w >= rows THEN buf[k]
            ELSE IF k % w < n THEN row[k \div w][k % w]
            ELSE IF filter = "5/3" /\ n = 0 /\ cas = 1 /\ k % w = 0 THEN EmptyRow(buf, k)
            ELSE buf[k]]
===============================================================================
