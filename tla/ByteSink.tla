-------------------------------- MODULE ByteSink --------------------------------
(***************************************************************************)
(* What an output stream of internal/cio promises its users: a file, and a  *)
(* position in it at which what is written is put, in one piece or several; *)
(* what has been written elsewhere stays.  A gap left by a skip or a seek   *)
(* beyond the end reads as zero.  Once a write, a skip or a seek has        *)
(* failed, the file is void.                                                *)
(***************************************************************************)
EXTENDS Integers, Sequences

CONSTANT Zero   \* what fills a gap

VARIABLES
    file,       \* the bytes, <<>> once void
    at,         \* the position, the number of bytes before it
    rest,       \* what is still to be put of the bytes being written
    void        \* an operation has failed

vars == <<file, at, rest, void>>

\* The length of the file once it has at least n bytes, and the file of that length.
Grown(n) == IF n <= Len(file) THEN Len(file) ELSE n
Extended(n) == [i \in 1 .. Grown(n) |-> IF i <= Len(file) THEN file[i] ELSE Zero]

Init == file = <<>> /\ at = 0 /\ rest = <<>> /\ void = FALSE

\* A write is asked for, of any bytes.
Begin ==
    /\ rest = <<>>
    /\ UNCHANGED <<file, at, void>>

\* The next n bytes are put at the position, and nothing else changes.
Put(n) ==
    /\ at' = at + n
    /\ file' = [i \in 1 .. Grown(at + n) |->
                    IF i \in at + 1 .. at + n THEN rest[i - at] ELSE file[i]]
    /\ rest' = SubSeq(rest, n + 1, Len(rest))
    /\ UNCHANGED void

\* A skip moves the position forward, a seek anywhere.
Move(n) ==
    /\ rest = <<>>
    /\ at' = n
    /\ file' = Extended(n)
    /\ UNCHANGED <<rest, void>>

Fail ==
    /\ void' = TRUE
    /\ file' = <<>>
    /\ at' = 0
    /\ rest' = <<>>

Next ==
    /\ ~void
    /\ \/ Begin
       \/ \E n \in 0 .. Len(rest) : Put(n)
       \/ Move(at')
       \/ Fail

Spec == Init /\ [][Next]_vars

===============================================================================
