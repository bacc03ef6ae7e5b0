--------------------------------- MODULE BitIO ---------------------------------
(***************************************************************************)
(* The bit streams of packet headers, internal/bio: a writer (PutBit,       *)
(* Flush) and a reader (getbit, InAlign) over one buffer.  A byte that is   *)
(* all ones is followed by a byte whose top bit is zero and is no data, so  *)
(* that no marker appears in a header.                                      *)
(*                                                                          *)
(* A byte is a sequence of bits, most significant first.  The register of   *)
(* the code holds two bytes, of which only the one in use and whether the   *)
(* one before it is all ones matter; ct is what is left of the first.       *)
(***************************************************************************)
EXTENDS Integers, Sequences, FiniteSets

CONSTANTS
    Width,      \* bits of a byte: 8 in the code
    MaxBits,    \* bound: the most bits written
    Rooms       \* the buffer sizes

ASSUME BitIOAssumption ==
    /\ Width \in Nat /\ Width >= 2
    /\ MaxBits \in Nat
    /\ Rooms \subseteq Nat

Bit == {0, 1}
Byte == [1 .. Width -> Bit]
Ones == [i \in 1 .. Width |-> 1]
Zeros == [i \in 1 .. Width |-> 0]

VARIABLES
    room,       \* len(buf)
    buf,        \* the bytes in it (pos of the writer is their number)
    filled,     \* the writer's byte in use: the bits put into it so far
    written,    \* history: the bits put
    lost,       \* history: a byte did not fit
    limit,      \* how much of the buffer the reader is given
    rpos,       \* the reader's pos
    rbyte,      \* its byte in use
    rct,        \* its ct
    read,       \* history: the bits got
    pc          \* "write", "read", and how either side ended

writer == <<room, buf, filled, written, lost>>
reader == <<limit, rpos, rbyte, rct, read>>
vars == <<room, buf, filled, written, lost, limit, rpos, rbyte, rct, read, pc>>

Init ==
    /\ room \in Rooms
    /\ buf = <<>>
    /\ filled = <<>>
    /\ written = <<>>
    /\ lost = FALSE
    /\ limit = 0
    /\ rpos = 0
    /\ rbyte = Zeros
    /\ rct = 0
    /\ read = <<>>
    /\ pc = "write"

-------------------------------------------------------------------------------
(* The writer. *)

\* The byte in use, its free bits zero.
Padded == [i \in 1 .. Width |-> IF i <= Len(filled) THEN filled[i] ELSE 0]

\* Mutant: no stuffing.
NextUnstuffed(byte) == <<>>

\* What byteout leaves of the next byte: ct is 7 behind a byte of ones.
NextFilled(byte) == IF byte = Ones THEN <<0>> ELSE <<>>

\* byteout: the byte goes to the buffer if there is room.
Stored(byte) == IF Len(buf) < room THEN Append(buf, byte) ELSE buf

\* PutBit, which does not look at what byteout returns.
PutBit ==
    /\ pc = "write"
    /\ Len(written) < MaxBits
    /\ \E b \in Bit :
          /\ written' = Append(written, b)
          /\ IF Len(filled) < Width
               THEN /\ filled' = Append(filled, b)
                    /\ UNCHANGED <<buf, lost>>
               ELSE /\ filled' = Append(NextFilled(Padded), b)
                    /\ buf' = Stored(Padded)
                    /\ lost' = (lost \/ Len(buf) = room)
    /\ UNCHANGED <<room, reader, pc>>

\* Mutant: only the byte behind a byte of ones is looked at.
SecondByteFails == Padded = Ones /\ Len(buf) + 1 = room

\* Flush fails when a byte does not fit.
FlushFails ==
    \/ Len(buf) = room
    \/ Padded = Ones /\ Len(buf) + 1 = room

\* Behind the last bit, and a header has at least one.  The reader gets the
\* buffer, or the beginning of it.
Flush ==
    /\ pc = "write"
    /\ written # <<>>
    /\ IF FlushFails
         THEN /\ pc' = "overflow"
              /\ UNCHANGED <<buf, filled, limit>>
         ELSE /\ buf' = IF Padded = Ones THEN buf \o <<Ones, Zeros>> ELSE Append(buf, Padded)
              /\ filled' = IF Padded = Ones THEN <<>> ELSE NextFilled(Padded)
              /\ limit' \in 0 .. Len(buf')
              /\ pc' = "read"
    /\ UNCHANGED <<room, written, lost, rpos, rbyte, rct, read>>

-------------------------------------------------------------------------------
(* The reader. *)

\* bytein: behind the end of the buffer there are zeros.
ByteIn == IF rpos < limit THEN buf[rpos + 1] ELSE Zeros

\* Mutant: the stuffed bit is taken for data.
CtAlwaysFull(before) == Width

\* The bits of a byte, by the byte before it.
CtAfter(before) == IF before = Ones THEN Width - 1 ELSE Width

\* getbit.  No more bits are asked for than were put: both sides know the
\* header's syntax.
GetBit ==
    /\ pc = "read"
    /\ Len(read) < Len(written)
    /\ IF rct = 0
         THEN /\ rbyte' = ByteIn
              /\ rpos' = IF rpos < limit THEN rpos + 1 ELSE rpos
              /\ rct' = CtAfter(rbyte) - 1
         ELSE /\ rct' = rct - 1
              /\ UNCHANGED <<rbyte, rpos>>
    /\ read' = Append(read, rbyte'[Width - rct'])
    /\ UNCHANGED <<writer, limit, pc>>

\* Mutant: the byte behind a byte of ones stays.
AlignInPlace ==
    /\ pc = "read"
    /\ Len(read) = Len(written)
    /\ pc' = "aligned"
    /\ rct' = 0
    /\ UNCHANGED <<writer, limit, rpos, rbyte, read>>

\* InAlign, behind the last bit: a byte of ones has one more behind it.
InAlign ==
    /\ pc = "read"
    /\ Len(read) = Len(written)
    /\ IF rbyte = Ones
         THEN /\ rbyte' = ByteIn
              /\ rpos' = IF rpos < limit THEN rpos + 1 ELSE rpos
              /\ pc' = IF rpos < limit THEN "aligned" ELSE "cut"
              /\ rct' = IF rpos < limit THEN 0 ELSE CtAfter(rbyte)
         ELSE /\ pc' = "aligned"
              /\ rct' = 0
              /\ UNCHANGED <<rbyte, rpos>>
    /\ UNCHANGED <<writer, limit, read>>

Next == PutBit \/ Flush \/ GetBit \/ InAlign

Spec == Init /\ [][Next]_vars

-------------------------------------------------------------------------------
(* Properties. *)

\* The types of the variables (the fields of BIO, bio.go:11).
TypeOK ==
    /\ room \in Rooms
    /\ buf \in Seq(Byte) /\ Len(buf) <= room
    /\ filled \in Seq(Bit) /\ Len(filled) <= Width
    /\ written \in Seq(Bit)
    /\ lost \in BOOLEAN
    /\ limit \in Nat /\ limit <= Len(buf)
    /\ rpos \in Nat /\ rpos <= limit
    /\ rbyte \in Byte
    /\ rct \in 0 .. Width
    /\ read \in Seq(Bit)
    /\ pc \in {"write", "read", "overflow", "aligned", "cut"}

\* No marker can appear in a header: the byte behind a byte of ones begins with a
\* zero, and a header does not end with a byte of ones (byteout and Flush,
\* bio.go:44 and 117).
NoMarker ==
    /\ \A i \in 1 .. Len(buf) - 1 : buf[i] = Ones => buf[i + 1][1] = 0
    /\ pc \in {"read", "aligned", "cut"} => buf[Len(buf)] # Ones

\* PutBit drops what does not fit without a word; Flush then reports it, so that
\* no header that has lost bits is taken for a whole one (bio.go:78 and 117).
NoSilentLoss == pc \in {"read", "aligned", "cut"} => ~lost

\* The bits of data in the first k bytes: all but the stuffed ones.
DataBits(k) == k * Width - Cardinality({i \in 1 .. k - 1 : buf[i] = Ones})

\* The reader gets the bits that were put, and zeros from the first byte on that
\* it was not given; it never gets a stuffed bit (getbit, bio.go:89).
ReadsBack ==
    \A i \in 1 .. Len(read) : read[i] = IF i <= DataBits(limit) THEN written[i] ELSE 0

\* Behind InAlign the reader stands where the writer's header ends, which is where
\* the packet's data begins (InAlign, bio.go:132, NumBytes, bio.go:37).
Aligned ==
    limit = Len(buf) => /\ pc # "cut"
                        /\ pc = "aligned" => rpos = Len(buf)
===============================================================================
