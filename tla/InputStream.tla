------------------------------- MODULE InputStream -------------------------------
(***************************************************************************)
(* The input side of internal/cio/stream.go: Read (readData), Skip          *)
(* (readSkip) and SeekTo (readSeek) over a medium read in chunks of         *)
(* bufferSize bytes.  Three positions have to agree: byteOffset, which      *)
(* Tell and NumberByteLeft report, the cursor of the medium, and the        *)
(* buffer between them.                                                     *)
(*                                                                          *)
(* The medium is that of constructors.go: memReader, which never fails, or  *)
(* rsReader over an io.ReadSeeker, which may deliver fewer bytes than asked *)
(* for and fail to seek.  A byte is named by its offset, so what a read     *)
(* delivers says where it was taken from.                                   *)
(***************************************************************************)
EXTENDS Integers, Sequences

CONSTANTS
    MaxSize,        \* bound on the length of the data
    MaxBuffer,      \* bound on bufferSize
    MaxAsk          \* bound on the bytes of one Read or Skip

ASSUME StreamAssumption ==
    /\ MaxSize \in Nat
    /\ MaxBuffer \in Nat \ {0}
    /\ MaxAsk \in Nat

VARIABLES
    size,           \* userDataLength, and the length of the data
    bufferSize,
    reliable,       \* the medium never fails
    media,          \* the cursor of the medium
    stored,         \* storedData: the byte in each place of the buffer
    currentPos,
    bytesInBuffer,
    byteOffset,
    end,            \* status&statusEnd
    pc,             \* "idle", or "fill" in the loop of readData
    want,           \* pSize, in that loop
    dst,            \* what has been copied to the caller's slice, in that loop
    got,            \* the bytes delivered, if the last call to return was a Read
    skipped         \* what it returned, -1 for ErrEnd, if it was a Skip

conf == <<size, bufferSize, reliable>>
loop == <<pc, want, dst>>
vars == <<conf, media, stored, currentPos, bytesInBuffer, byteOffset, end, loop, got, skipped>>

None == -1      \* a place of the buffer that has not been written

Init ==
    /\ size \in 0 .. MaxSize
    /\ bufferSize \in 1 .. MaxBuffer
    /\ reliable \in BOOLEAN
    /\ media = 0
    /\ stored = [i \in 0 .. bufferSize - 1 |-> None]
    /\ currentPos = 0
    /\ bytesInBuffer = 0
    /\ byteOffset = 0
    /\ end = FALSE
    /\ pc = "idle"
    /\ want = 0
    /\ dst = <<>>
    /\ got = <<>>
    /\ skipped = 0

\* The first n bytes of the buffer.
FromBuffer(n) == [i \in 1 .. n |-> stored[currentPos + i - 1]]

-------------------------------------------------------------------------------
(* Read *)

\* Enough in the buffer.
ReadBuffered(n) ==
    /\ pc = "idle"
    /\ bytesInBuffer >= n
    /\ got' = FromBuffer(n)
    /\ currentPos' = currentPos + n
    /\ bytesInBuffer' = bytesInBuffer - n
    /\ byteOffset' = byteOffset + n
    /\ skipped' = 0
    /\ UNCHANGED <<conf, media, stored, end, loop>>

\* Too little, and the medium has ended: what there is.
ReadAtEnd(n) ==
    /\ pc = "idle"
    /\ bytesInBuffer < n
    /\ end
    /\ got' = FromBuffer(bytesInBuffer)
    /\ currentPos' = currentPos + bytesInBuffer
    /\ byteOffset' = byteOffset + bytesInBuffer
    /\ bytesInBuffer' = 0
    /\ skipped' = 0
    /\ UNCHANGED <<conf, media, stored, end, loop>>

\* Mutant: the position does not count what the buffer has delivered.
ReadForgetsOffset(n) ==
    /\ pc = "idle"
    /\ bytesInBuffer < n
    /\ ~end
    /\ dst' = FromBuffer(bytesInBuffer)
    /\ want' = n - bytesInBuffer
    /\ bytesInBuffer' = 0
    /\ currentPos' = 0
    /\ pc' = "fill"
    /\ UNCHANGED <<conf, media, stored, end, got, skipped, byteOffset>>

\* Too little: take what there is and go to the medium for the rest.
ReadStart(n) ==
    /\ pc = "idle"
    /\ bytesInBuffer < n
    /\ ~end
    /\ dst' = FromBuffer(bytesInBuffer)
    /\ want' = n - bytesInBuffer
    /\ byteOffset' = byteOffset + bytesInBuffer
    /\ bytesInBuffer' = 0
    /\ currentPos' = 0
    /\ pc' = "fill"
    /\ UNCHANGED <<conf, media, stored, end, got, skipped>>

Smaller(a, b) == IF a < b THEN a ELSE b

\* Mutant: the end of the data is a read of 0 bytes.
MediaReadsZero(n) ==
    LET left == IF media < size THEN size - media ELSE 0
        most == Smaller(n, left)
    IN  IF reliable THEN {most} ELSE 0 .. most

\* How many bytes the medium may deliver of n, None for the end of the stream:
\* memRead and rsRead return -1 when they have nothing.
MediaRead(n) ==
    LET left == IF media < size THEN size - media ELSE 0
        most == Smaller(n, left)
    IN  {IF k = 0 THEN None ELSE k : k \in IF reliable THEN {most} ELSE 0 .. most}

Return(bytes) ==
    /\ got' = bytes
    /\ pc' = "idle"
    /\ want' = 0
    /\ dst' = <<>>
    /\ skipped' = 0

\* The buffer after k bytes have been read to its front.
Refilled(k) ==
    [i \in 0 .. bufferSize - 1 |-> IF i < k THEN media + i ELSE stored[i]]

\* want < bufferSize: a chunk to the buffer, and from there to the caller.
FillBuffer ==
    /\ pc = "fill"
    /\ want < bufferSize
    /\ \E k \in MediaRead(bufferSize) \ {None} :
           LET n == Smaller(k, want)
               bytes == dst \o [i \in 1 .. n |-> Refilled(k)[currentPos + i - 1]]
           IN  /\ media' = media + k
               /\ stored' = Refilled(k)
               /\ byteOffset' = byteOffset + n
               /\ IF k < want
                    THEN /\ currentPos' = 0
                         /\ bytesInBuffer' = 0
                         /\ dst' = bytes
                         /\ want' = want - k
                         /\ UNCHANGED <<pc, got, skipped>>
                    ELSE /\ currentPos' = currentPos + want
                         /\ bytesInBuffer' = k - want
                         /\ Return(bytes)
    /\ UNCHANGED <<conf, end>>

\* Otherwise straight to the caller's slice.
ReadDirect ==
    /\ pc = "fill"
    /\ want >= bufferSize
    /\ \E k \in MediaRead(want) \ {None} :
           LET bytes == dst \o [i \in 1 .. k |-> media + i - 1]
           IN  /\ media' = media + k
               /\ byteOffset' = byteOffset + k
               /\ currentPos' = 0
               /\ bytesInBuffer' = 0
               /\ IF k < want
                    THEN /\ dst' = bytes
                         /\ want' = want - k
                         /\ UNCHANGED <<pc, got, skipped>>
                    ELSE Return(bytes)
    /\ UNCHANGED <<conf, stored, end>>

\* Either way, nothing comes any more: the status is END, and the caller gets
\* what there was.
MediaEnds ==
    /\ pc = "fill"
    /\ None \in MediaRead(IF want < bufferSize THEN bufferSize ELSE want)
    /\ bytesInBuffer' = 0
    /\ end' = TRUE
    /\ Return(dst)
    /\ UNCHANGED <<conf, media, stored, currentPos, byteOffset>>

-------------------------------------------------------------------------------
(* Skip and SeekTo *)

OrEnd(n) == IF n = 0 THEN -1 ELSE n

SkipBuffered(n) ==
    /\ pc = "idle"
    /\ bytesInBuffer >= n
    /\ currentPos' = currentPos + n
    /\ bytesInBuffer' = bytesInBuffer - n
    /\ byteOffset' = byteOffset + n
    /\ skipped' = n
    /\ got' = <<>>
    /\ UNCHANGED <<conf, media, stored, end, loop>>

SkipAtEnd(n) ==
    /\ pc = "idle"
    /\ bytesInBuffer < n
    /\ end
    /\ currentPos' = currentPos + bytesInBuffer
    /\ bytesInBuffer' = 0
    /\ byteOffset' = byteOffset + bytesInBuffer
    /\ skipped' = OrEnd(bytesInBuffer)
    /\ got' = <<>>
    /\ UNCHANGED <<conf, media, stored, end, loop>>

\* readSeek, which both ways drops the buffer; off is the position it leaves
\* behind when the medium cannot seek.
SeekMedia(n, off) ==
    /\ currentPos' = 0
    /\ bytesInBuffer' = 0
    /\ \/ /\ media' = n
          /\ byteOffset' = n
          /\ end' = FALSE
       \/ /\ ~reliable
          /\ byteOffset' = off
          /\ end' = TRUE
          /\ UNCHANGED media

\* Beyond userDataLength: the position goes to the end.  The count returned is
\* taken after byteOffset has moved over the buffered bytes.
SkipBeyond(n) ==
    /\ pc = "idle"
    /\ bytesInBuffer < n
    /\ ~end
    /\ byteOffset + n > size
    /\ currentPos' = 0
    /\ bytesInBuffer' = 0
    /\ end' = TRUE
    /\ \/ media' = size /\ byteOffset' = size
       \/ ~reliable /\ byteOffset' = byteOffset + bytesInBuffer /\ UNCHANGED media
    /\ skipped' = OrEnd(size - (byteOffset + bytesInBuffer))
    /\ got' = <<>>
    /\ UNCHANGED <<conf, stored, loop>>

\* Within the data: over the buffer, and on over the medium, which may fail.
SkipMedia(n) ==
    /\ pc = "idle"
    /\ bytesInBuffer < n
    /\ ~end
    /\ byteOffset + n <= size
    /\ currentPos' = IF bytesInBuffer # 0 THEN 0 ELSE currentPos
    /\ bytesInBuffer' = 0
    /\ \/ /\ media' = media + (n - bytesInBuffer)
          /\ byteOffset' = byteOffset + n
          /\ skipped' = n
          /\ UNCHANGED end
       \/ /\ ~reliable
          /\ byteOffset' = byteOffset + bytesInBuffer
          /\ skipped' = OrEnd(bytesInBuffer)
          /\ end' = TRUE
          /\ UNCHANGED media
    /\ got' = <<>>
    /\ UNCHANGED <<conf, stored, loop>>

\* Mutant: a seek that keeps the buffer.
SeekKeepsBuffer(n) ==
    /\ pc = "idle"
    /\ media' = n
    /\ byteOffset' = n
    /\ end' = FALSE
    /\ got' = <<>>
    /\ skipped' = 0
    /\ UNCHANGED <<conf, currentPos, bytesInBuffer, stored, loop>>

SeekTo(n) ==
    /\ pc = "idle"
    /\ SeekMedia(n, byteOffset)
    /\ got' = <<>>
    /\ skipped' = 0
    /\ UNCHANGED <<conf, stored, loop>>

-------------------------------------------------------------------------------
Fill == FillBuffer \/ ReadDirect \/ MediaEnds

Read(n) == ReadBuffered(n) \/ ReadAtEnd(n) \/ ReadStart(n)

Skip(n) == SkipBuffered(n) \/ SkipAtEnd(n) \/ SkipBeyond(n) \/ SkipMedia(n)

\* The users seek to positions inside the data: those Tell has reported.
Next == \/ \E n \in 0 .. MaxAsk : Read(n) \/ Skip(n)
        \/ \E n \in 0 .. size : SeekTo(n)
        \/ Fill

Spec == Init /\ [][Next]_vars

\* The loop of readData runs on.
FairSpec == Spec /\ WF_vars(Fill)

-------------------------------------------------------------------------------
(* Properties *)

Offsets == 0 .. size

\* Every variable has its type, and the buffer stays within its bounds.
TypeOK ==
    /\ size \in 0 .. MaxSize
    /\ bufferSize \in 1 .. MaxBuffer
    /\ reliable \in BOOLEAN
    /\ media \in Offsets
    /\ stored \in [0 .. bufferSize - 1 -> Nat \union {None}]
    /\ currentPos \in Nat /\ bytesInBuffer \in Nat
    /\ currentPos + bytesInBuffer <= bufferSize
    /\ byteOffset \in Offsets
    /\ end \in BOOLEAN
    /\ pc \in {"idle", "fill"}
    /\ want \in 0 .. MaxAsk
    /\ dst \in Seq(Offsets)
    /\ got \in Seq(Offsets)
    /\ skipped \in Int

\* The buffer holds the bytes at byteOffset, and the medium stands behind them.
\* Only a failed seek parts the two, and then the stream is at its end until a
\* seek succeeds.
Coherent ==
    /\ \A i \in 0 .. bytesInBuffer - 1 : stored[currentPos + i] = byteOffset + i
    /\ media = byteOffset + bytesInBuffer \/ (end /\ bytesInBuffer = 0)

\* In the loop of readData the buffer is empty, and dst is the bytes before
\* byteOffset.
LoopInv ==
    IF pc = "fill"
      THEN /\ bytesInBuffer = 0 /\ currentPos = 0 /\ ~end /\ want > 0
           /\ Len(dst) <= byteOffset /\ Len(dst) + want <= MaxAsk
           /\ \A i \in 1 .. Len(dst) : dst[i] = byteOffset - Len(dst) + i - 1
      ELSE dst = <<>> /\ want = 0

\* The status END means that a reliable medium is used up.
EndInv == reliable /\ end => byteOffset + bytesInBuffer = size

\* The three positions of the stream agree, between the calls and in the loop of
\* readData: what the buffer holds is what Tell says comes next.
StreamInv == Coherent /\ LoopInv /\ EndInv

\* A read delivers the bytes at the position and moves it behind them, whatever
\* reads, skips and seeks came before and however the buffer lies; a medium that
\* fails can only shorten what is delivered.
Source == INSTANCE ByteSource
              WITH at <- IF pc = "fill" THEN byteOffset - Len(dst) ELSE byteOffset

ImplementsSource == Source!Spec

\* Read returns, however short the reads of the medium are.
ReadReturns == pc = "fill" ~> pc = "idle"

===============================================================================
