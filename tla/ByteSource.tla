------------------------------- MODULE ByteSource -------------------------------
(***************************************************************************)
(* What an input stream of internal/cio promises its users: a position in a *)
(* sequence of bytes, and reads that deliver the bytes at that position and *)
(* move it behind them.  A byte is named by its offset.                     *)
(***************************************************************************)
EXTENDS Integers, Sequences

CONSTANT MaxAsk         \* the longest read, skip or seek asked for

VARIABLES
    size,       \* the length of the data
    reliable,   \* the medium never fails
    at,         \* the position
    got         \* the bytes delivered, if the last call was a Read

vars == <<size, reliable, at, got>>

\* The bytes from offset a on, n of them.
Bytes(a, n) == [i \in 1 .. n |-> a + i - 1]

Upto(n) == IF at + n <= size THEN n ELSE size - at

Init ==
    /\ size \in Nat
    /\ reliable \in BOOLEAN
    /\ at = 0
    /\ got = <<>>

\* All that was asked for or all there is; less only when the medium fails.
Read(n) ==
    \E k \in 0 .. n :
        /\ reliable => k = Upto(n)
        /\ k <= Upto(n)
        /\ got' = Bytes(at, k)
        /\ at' = at + k
        /\ UNCHANGED <<size, reliable>>

Skip(n) ==
    \E k \in 0 .. n :
        /\ reliable => k = Upto(n)
        /\ k <= Upto(n)
        /\ got' = <<>>
        /\ at' = at + k
        /\ UNCHANGED <<size, reliable>>

Seek(n) ==
    /\ at' \in {n} \union (IF reliable THEN {} ELSE {at})
    /\ got' = <<>>
    /\ UNCHANGED <<size, reliable>>

Next == \/ \E n \in 0 .. MaxAsk : Read(n) \/ Skip(n)
        \/ \E n \in 0 .. size : Seek(n)

Spec == Init /\ [][Next]_vars

===============================================================================
