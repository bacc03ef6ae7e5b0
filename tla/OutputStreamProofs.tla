--------------------------- MODULE OutputStreamProofs ---------------------------
(***************************************************************************)
(* The output stream for a buffer of every size and every user: whatever is *)
(* written, skipped and sought, and however the medium takes it, the stream *)
(* is a ByteSink.  The inductive invariant is StreamInv with the types: the *)
(* medium's position and the bytes pending add up to byteOffset, and the    *)
(* pending bytes lie where a write puts the next one and flush takes them.  *)
(***************************************************************************)
EXTENDS OutputStream, SequenceTheorems, TLAPS

CONSTANT NonZero   \* the bytes but Zero

Byte == NonZero \union {Zero}

\* What fills a gap is a byte.
LEMMA ZeroIsByte == Zero \in Byte
  BY DEF Byte

\* One call of a user, who makes none after a failure.
UserCalls ==
    /\ result = "ok"
    /\ \/ \E bytes \in Seq(Byte) : Write(bytes)
       \/ \E n \in Nat : Skip(n) \/ SeekTo(n)
       \/ Flush

StreamSpec == StreamInit /\ [][UserCalls \/ StreamNext]_streamVars

USE BufferAssumption, ZeroIsByte

-------------------------------------------------------------------------------
(* The invariant *)

TypeOK ==
    /\ reliable \in BOOLEAN
    /\ data \in Seq(Byte)
    /\ pos \in Nat
    /\ stored \in [0 .. BufferSize - 1 -> Byte]
    /\ currentPos \in 0 .. BufferSize
    /\ bytesInBuffer \in 0 .. BufferSize
    /\ byteOffset \in Nat
    /\ error \in BOOLEAN
    /\ call \in {"none", "write", "skip", "seek", "flush"}
    /\ flushing \in BOOLEAN
    /\ src \in Seq(Byte)
    /\ target \in Nat
    /\ result \in {"ok", "failed"}

\* What is pending is at the front of the buffer until flush has taken some of it.
Placed ==
    /\ byteOffset = pos + bytesInBuffer
    /\ pos <= Len(data)
    /\ ~flushing => currentPos = bytesInBuffer
    /\ flushing => currentPos + bytesInBuffer <= BufferSize

\* Only a write has bytes to put, and only a write copies to a buffer that is not empty.
Ordered ==
    /\ call # "write" => src = <<>>
    /\ call \in {"skip", "seek"} /\ ~flushing => bytesInBuffer = 0
    /\ call = "flush" => flushing
    /\ call = "none" => ~flushing

\* After a failure nothing happens.
Ended == call = "none" /\ ~flushing /\ src = <<>> /\ result = "failed"

StreamInv == IF error THEN Ended ELSE Placed /\ Ordered

Inv == TypeOK /\ StreamInv

-------------------------------------------------------------------------------
(* Files *)

\* A function on 1 .. n is a sequence of length n.
LEMMA FunctionIsSeq ==
    ASSUME NEW S, NEW n \in Nat, NEW f \in [1 .. n -> S]
    PROVE  f \in Seq(S) /\ Len(f) = n /\ DOMAIN f = 1 .. n
  OBVIOUS

\* ensure: the bytes there were, and zeros behind them.
LEMMA EnsuredFacts ==
    ASSUME NEW d \in Seq(Byte), NEW n \in Nat
    PROVE  /\ Ensured(d, n) \in Seq(Byte)
           /\ Len(Ensured(d, n)) = IF n <= Len(d) THEN Len(d) ELSE n
           /\ \A i \in 1 .. Len(Ensured(d, n)) :
                  Ensured(d, n)[i] = IF i <= Len(d) THEN d[i] ELSE Zero
  <1>1. CASE n <= Len(d)
    BY <1>1 DEF Ensured
  <1>2. CASE ~(n <= Len(d))
    <2> DEFINE m == n - Len(d)
               z == [i \in 1 .. m |-> Zero]
    <2>1. m \in Nat /\ Len(d) \in Nat
      BY <1>2
    <2>2. z \in [1 .. m -> Byte]
      OBVIOUS
    <2>3. z \in Seq(Byte) /\ Len(z) = m /\ \A i \in 1 .. m : z[i] = Zero
      <3>1. \A i \in 1 .. m : z[i] = Zero
        OBVIOUS
      <3> HIDE DEF z, m
      <3> QED  BY <2>1, <2>2, <3>1, FunctionIsSeq
    <2>4. Ensured(d, n) = d \o z
      BY <1>2 DEF Ensured
    <2> HIDE DEF z
    <2>5. /\ d \o z \in Seq(Byte) /\ Len(d \o z) = Len(d) + m
          /\ \A i \in 1 .. Len(d) + m : (d \o z)[i] = IF i <= Len(d) THEN d[i] ELSE z[i - Len(d)]
      BY <2>1, <2>3, ConcatProperties
    <2>6. ASSUME NEW i \in 1 .. n PROVE (d \o z)[i] = IF i <= Len(d) THEN d[i] ELSE Zero
      BY <1>2, <2>1, <2>3, <2>5
    <2> QED  BY <1>2, <2>4, <2>5, <2>6
  <1> QED  BY <1>1, <1>2

\* memWrite: the bytes at the position, and the file otherwise as it was.
LEMMA PutFacts ==
    ASSUME NEW b \in Seq(Byte), data \in Seq(Byte), pos \in Nat, pos <= Len(data)
    PROVE  /\ Put(b) \in Seq(Byte)
           /\ Len(Put(b)) = IF pos + Len(b) <= Len(data) THEN Len(data) ELSE pos + Len(b)
           /\ \A i \in 1 .. Len(Put(b)) :
                  Put(b)[i] = IF i \in pos + 1 .. pos + Len(b) THEN b[i - pos] ELSE data[i]
  <1> DEFINE n == pos + Len(b)
             d == Ensured(data, n)
             f == [i \in DOMAIN d |-> IF i \in pos + 1 .. n THEN b[i - pos] ELSE d[i]]
  <1>1. n \in Nat /\ Len(data) \in Nat /\ Len(b) \in Nat
    OBVIOUS
  <1>2. Put(b) = f
    BY DEF Put
  <1>3. /\ d \in Seq(Byte) /\ Len(d) = IF n <= Len(data) THEN Len(data) ELSE n
        /\ \A i \in 1 .. Len(d) : d[i] = IF i <= Len(data) THEN data[i] ELSE Zero
    BY <1>1, EnsuredFacts
  <1> HIDE DEF d, n
  <1>4. DOMAIN d = 1 .. Len(d) /\ Len(d) \in Nat
    BY <1>3
  <1>5. f \in [1 .. Len(d) -> Byte]
    <2> SUFFICES ASSUME NEW i \in 1 .. Len(d)
                 PROVE  (IF i \in pos + 1 .. n THEN b[i - pos] ELSE d[i]) \in Byte
      BY <1>4
    <2>1. CASE i \in pos + 1 .. n
      <3>1. i - pos \in 1 .. Len(b)
        BY <1>1, <2>1 DEF n
      <3> QED  BY <2>1, <3>1
    <2>2. CASE i \notin pos + 1 .. n
      BY <1>3, <2>2
    <2> QED  BY <2>1, <2>2
  <1>6. f \in Seq(Byte) /\ Len(f) = Len(d)
    <2> HIDE DEF f
    <2> QED  BY <1>4, <1>5, FunctionIsSeq
  <1>7. ASSUME NEW i \in 1 .. Len(f)
        PROVE  f[i] = IF i \in pos + 1 .. n THEN b[i - pos] ELSE data[i]
    <2>1. f[i] = IF i \in pos + 1 .. n THEN b[i - pos] ELSE d[i]
      BY <1>4, <1>6, <1>7
    <2>2. i \notin pos + 1 .. n => d[i] = data[i]
      <3>1. i \in 1 .. Len(d)
        BY <1>6, <1>7
      <3>2. i \notin pos + 1 .. n => i <= Len(data)
        <4> HIDE DEF f
        <4> QED  BY <1>1, <1>3, <3>1 DEF n
      <3> QED  BY <1>3, <3>1, <3>2
    <2> QED  BY <2>1, <2>2
  <1> HIDE DEF f
  <1> QED  BY <1>1, <1>2, <1>3, <1>6, <1>7 DEF n

\* The file as users see it has the length it ought to have.
LEMMA FileFacts ==
    ASSUME Inv, ~error
    PROVE  /\ FileEnd \in Nat /\ FileEnd >= byteOffset /\ FileEnd >= Len(data)
           /\ FlushedFile \in Seq(Byte)
           /\ Len(FlushedFile) = FileEnd
           /\ \A i \in 1 .. FileEnd :
                  FlushedFile[i] = IF i \in pos + 1 .. pos + bytesInBuffer
                                     THEN stored[PendingFrom + i - pos - 1] ELSE data[i]
  <1> DEFINE f == [i \in 1 .. FileEnd |->
                     IF i \in pos + 1 .. pos + bytesInBuffer THEN stored[PendingFrom + i - pos - 1] ELSE data[i]]
  <1>1. FlushedFile = f
    BY DEF FlushedFile
  <1>2. /\ FileEnd \in Nat /\ FileEnd >= byteOffset /\ FileEnd >= Len(data) /\ Len(data) \in Nat
        /\ pos \in Nat /\ bytesInBuffer \in Nat /\ BufferSize \in Nat
        /\ FileEnd = byteOffset \/ (FileEnd = Len(data) /\ byteOffset = pos + bytesInBuffer)
    BY DEF Inv, TypeOK, StreamInv, Placed, FileEnd
  <1>3. PendingFrom \in Nat /\ PendingFrom + bytesInBuffer <= BufferSize
    BY DEF Inv, TypeOK, StreamInv, Placed, PendingFrom
  <1>4. ASSUME NEW i \in 1 .. FileEnd
        PROVE  (IF i \in pos + 1 .. pos + bytesInBuffer THEN stored[PendingFrom + i - pos - 1] ELSE data[i])
                   \in Byte
    <2>1. CASE i \in pos + 1 .. pos + bytesInBuffer
      <3>1. PendingFrom + i - pos - 1 \in 0 .. BufferSize - 1
        BY <1>2, <1>3, <2>1
      <3> QED  BY <2>1, <3>1 DEF Inv, TypeOK
    <2>2. CASE i \notin pos + 1 .. pos + bytesInBuffer
      <3>1. i \in 1 .. Len(data)
        BY <1>2, <2>2 DEF Inv, TypeOK, StreamInv, Placed, FileEnd
      <3> QED  BY <2>2, <3>1 DEF Inv, TypeOK
    <2> QED  BY <2>1, <2>2
  <1>5. f \in [1 .. FileEnd -> Byte]
    BY <1>4
  <1>6. \A i \in 1 .. FileEnd : f[i] = IF i \in pos + 1 .. pos + bytesInBuffer
                                     THEN stored[PendingFrom + i - pos - 1] ELSE data[i]
    OBVIOUS
  <1> HIDE DEF f
  <1>7. f \in Seq(Byte) /\ Len(f) = FileEnd
    BY <1>2, <1>5, FunctionIsSeq
  <1> QED  BY <1>1, <1>2, <1>6, <1>7

-------------------------------------------------------------------------------
(* The invariant holds *)

\* The buffer is still one after a copy that fits.
LEMMA StoredType ==
    ASSUME TypeOK, NEW b \in Seq(Byte), currentPos + Len(b) <= BufferSize
    PROVE  /\ StoredWith(b) \in [0 .. BufferSize - 1 -> Byte]
           /\ \A i \in 0 .. BufferSize - 1 :
                  StoredWith(b)[i] = IF i \in currentPos .. currentPos + Len(b) - 1
                                       THEN b[i - currentPos + 1] ELSE stored[i]
  <1>1. Len(b) \in Nat /\ currentPos \in Nat
    BY DEF TypeOK
  <1>2. ASSUME NEW i \in currentPos .. currentPos + Len(b) - 1 PROVE b[i - currentPos + 1] \in Byte
    <2>1. i - currentPos + 1 \in 1 .. Len(b)
      BY <1>1
    <2> QED  BY <2>1
  <1> QED  BY <1>2 DEF StoredWith, TypeOK

\* A user calls.
LEMMA CallsInv ==
    ASSUME Inv, UserCalls
    PROVE  Inv'
  <1>1. ~error /\ Placed /\ Ordered
    BY DEF Inv, StreamInv, Ended, UserCalls
  <1>2. PICK method \in {"write", "skip", "seek", "flush"}, bytes \in Seq(Byte), n \in Nat :
            Start(method, bytes, n) /\ (method # "write" => bytes = <<>>)
    <2>1. <<>> \in Seq(Byte) /\ 0 \in Nat
      OBVIOUS
    <2>2. CASE \E bytes \in Seq(Byte) : Write(bytes)
      BY <2>1, <2>2 DEF Write
    <2>3. CASE \E n \in Nat : Skip(n) \/ SeekTo(n)
      BY <2>1, <2>3 DEF Skip, SeekTo
    <2>4. CASE Flush
      BY <2>1, <2>4 DEF Flush
    <2> QED  BY <2>2, <2>3, <2>4 DEF UserCalls
  <1>3. TypeOK'
    BY <1>2 DEF Inv, TypeOK, Start, medium
  <1>4. ~error' /\ Placed'
    <2>1. /\ call = "none" /\ flushing' = (method # "write")
          /\ currentPos' = IF method = "write" THEN currentPos ELSE 0
          /\ pos' = pos /\ data' = data /\ bytesInBuffer' = bytesInBuffer
          /\ byteOffset' = byteOffset /\ error' = error
      BY <1>2 DEF Start, medium
    <2>2. /\ byteOffset = pos + bytesInBuffer /\ pos <= Len(data)
          /\ ~flushing /\ currentPos = bytesInBuffer
      BY <1>1, <2>1 DEF Placed, Ordered
    <2>3. bytesInBuffer \in Nat /\ bytesInBuffer <= BufferSize /\ BufferSize \in Nat
      BY BufferAssumption DEF Inv, TypeOK
    <2>4. flushing' => currentPos' = 0
      BY <2>1
    <2>5. 0 + bytesInBuffer <= BufferSize
      BY <2>3
    <2> QED  BY <1>1, <2>1, <2>2, <2>4, <2>5 DEF Placed
  <1>5. Ordered'
    BY <1>1, <1>2 DEF Ordered, Start
  <1> QED  BY <1>3, <1>4, <1>5 DEF Inv, StreamInv

\* A write copies.
LEMMA WriteInv ==
    ASSUME Inv, WriteBuffered \/ WriteFull
    PROVE  Inv'
  <1>1. ~error /\ Placed /\ Ordered /\ TypeOK
    BY DEF Inv, StreamInv, Ended, WriteBuffered, WriteFull
  <1>2. /\ currentPos = bytesInBuffer /\ currentPos \in Nat /\ Len(src) \in Nat
        /\ Room = BufferSize - currentPos /\ Room \in Nat /\ BufferSize \in Nat
    BY <1>1 DEF Placed, TypeOK, WriteBuffered, WriteFull, Room
  <1>3. CASE WriteBuffered
    <2>1. currentPos + Len(src) <= BufferSize
      BY <1>2, <1>3 DEF WriteBuffered
    <2>2. StoredWith(src) \in [0 .. BufferSize - 1 -> Byte]
      BY <1>1, <2>1, StoredType DEF TypeOK
    <2>3. stored' \in [0 .. BufferSize - 1 -> Byte]
      BY <1>3, <2>2 DEF WriteBuffered
    <2>4. <<>> \in Seq(Byte)
      OBVIOUS
    <2>5. TypeOK'
      <3>1. /\ currentPos' \in 0 .. BufferSize /\ bytesInBuffer' \in 0 .. BufferSize
            /\ byteOffset' \in Nat
        BY <1>1, <1>2, <1>3, <2>1 DEF TypeOK, WriteBuffered
      <3>2. Return("ok") /\ UNCHANGED <<reliable, data, pos, error>>
        BY <1>3 DEF WriteBuffered, medium
      <3> QED  BY <1>1, <2>3, <2>4, <3>1, <3>2 DEF TypeOK, Return
    <2>6. Placed' /\ Ordered' /\ ~error'
      BY <1>1, <1>2, <1>3 DEF TypeOK, WriteBuffered, Return, medium, Placed, Ordered
    <2> QED  BY <2>5, <2>6 DEF Inv, StreamInv
  <1>4. CASE WriteFull
    <2> DEFINE b == SubSeq(src, 1, Room)
               r == SubSeq(src, Room + 1, Len(src))
    <2>1. b \in Seq(Byte) /\ Len(b) = Room /\ r \in Seq(Byte)
      BY <1>1, <1>2, <1>4, SubSeqProperties DEF TypeOK, WriteFull
    <2>2. stored' = StoredWith(b) /\ src' = r
      BY <1>4 DEF WriteFull
    <2> HIDE DEF b, r
    <2>3. stored' \in [0 .. BufferSize - 1 -> Byte]
      BY <1>1, <1>2, <2>1, <2>2, StoredType
    <2>4. TypeOK'
      BY <1>1, <1>2, <1>4, <2>1, <2>2, <2>3 DEF TypeOK, WriteFull, medium
    <2>5. Placed' /\ Ordered' /\ ~error'
      BY <1>1, <1>2, <1>4 DEF TypeOK, WriteFull, medium, Placed, Ordered
    <2> QED  BY <2>4, <2>5 DEF Inv, StreamInv
  <1> QED  BY <1>3, <1>4

\* The medium takes some of the bytes.
LEMMA TakenFacts ==
    ASSUME Inv, FlushSome
    PROVE  \E n \in 1 .. bytesInBuffer, b \in Seq(Byte) :
               /\ Len(b) = n
               /\ \A i \in 1 .. n : b[i] = stored[currentPos + i - 1]
               /\ data' = Put(b) /\ pos' = pos + n
               /\ currentPos' = currentPos + n /\ bytesInBuffer' = bytesInBuffer - n
  <1>1. ~error /\ Placed /\ TypeOK /\ flushing /\ currentPos + bytesInBuffer <= BufferSize
    BY DEF Inv, StreamInv, Ended, FlushSome, Placed
  <1>2. PICK n \in 1 .. bytesInBuffer :
            /\ data' = Put(Unflushed(currentPos, n)) /\ pos' = pos + n
            /\ currentPos' = currentPos + n /\ bytesInBuffer' = bytesInBuffer - n
    BY <1>1 DEF FlushSome, TypeOK
  <1> DEFINE b == [i \in 1 .. n |-> stored[currentPos + i - 1]]
  <1>3. b = Unflushed(currentPos, n)
    BY DEF Unflushed
  <1>4. \A i \in 1 .. n : currentPos + i - 1 \in 0 .. BufferSize - 1
    BY <1>1 DEF TypeOK
  <1>5. b \in [1 .. n -> Byte] /\ n \in Nat
    BY <1>1, <1>4 DEF TypeOK
  <1>6. \A i \in 1 .. n : b[i] = stored[currentPos + i - 1]
    OBVIOUS
  <1> HIDE DEF b
  <1>7. b \in Seq(Byte) /\ Len(b) = n
    BY <1>5, FunctionIsSeq
  <1> QED  BY <1>2, <1>3, <1>6, <1>7

LEMMA FlushSomeInv ==
    ASSUME Inv, FlushSome
    PROVE  Inv'
  <1>1. ~error /\ Placed /\ Ordered /\ TypeOK /\ flushing
    BY DEF Inv, StreamInv, Ended, FlushSome
  <1>2. PICK n \in 1 .. bytesInBuffer, b \in Seq(Byte) :
            /\ Len(b) = n /\ data' = Put(b) /\ pos' = pos + n
            /\ currentPos' = currentPos + n /\ bytesInBuffer' = bytesInBuffer - n
    BY TakenFacts
  <1>3. /\ data' \in Seq(Byte)
        /\ Len(data') = IF pos + n <= Len(data) THEN Len(data) ELSE pos + n
    BY <1>1, <1>2, PutFacts DEF TypeOK, Placed
  <1>4. UNCHANGED <<reliable, stored, byteOffset, error, call, flushing, src, target, result>>
    BY DEF FlushSome, request
  <1>5. TypeOK'
    BY <1>1, <1>2, <1>3, <1>4 DEF TypeOK, Placed
  <1>6. Len(data) \in Nat
    BY <1>1 DEF TypeOK
  <1>7. Placed'
    BY <1>1, <1>2, <1>3, <1>4, <1>6 DEF TypeOK, Placed
  <1>8. Ordered' /\ ~error'
    BY <1>1, <1>4 DEF Ordered
  <1> QED  BY <1>5, <1>7, <1>8 DEF Inv, StreamInv

\* flush ends, one way or the other.
LEMMA FlushEndInv ==
    ASSUME Inv, FlushFails \/ FlushDone
    PROVE  Inv'
  <1>1. ~error /\ Placed /\ Ordered /\ TypeOK /\ flushing /\ <<>> \in Seq(Byte)
    BY DEF Inv, StreamInv, Ended, FlushFails, FlushDone
  <1>2. CASE FlushFails
    <2>1. TypeOK'
      <3>1. bytesInBuffer' \in 0 .. BufferSize
        BY <1>1, <1>2 DEF TypeOK, FlushFails
      <3>2. /\ Return("failed") /\ error' = TRUE
            /\ UNCHANGED <<reliable, data, pos, stored, currentPos, byteOffset>>
        BY <1>2 DEF FlushFails, medium
      <3> QED  BY <1>1, <3>1, <3>2 DEF TypeOK, Return
    <2>2. error' /\ Ended'
      BY <1>1, <1>2 DEF FlushFails, Return, Ended
    <2> QED  BY <2>1, <2>2 DEF Inv, StreamInv
  <1>3. CASE FlushDone
    <2>1. TypeOK'
      <3>1. /\ currentPos' \in 0 .. BufferSize /\ flushing' = FALSE
            /\ UNCHANGED <<reliable, data, pos, stored, bytesInBuffer, byteOffset, error>>
        BY BufferAssumption, <1>3 DEF FlushDone, Return, medium
      <3>2. CASE Return("ok")
        BY <1>1, <3>1, <3>2 DEF TypeOK, Return
      <3>3. CASE UNCHANGED <<call, src, target, result>>
        BY <1>1, <3>1, <3>3 DEF TypeOK
      <3> QED  BY <1>3, <3>2, <3>3 DEF FlushDone
    <2>2. Placed' /\ Ordered' /\ ~error'
      BY <1>1, <1>3 DEF FlushDone, Return, medium, TypeOK, Placed, Ordered
    <2> QED  BY <2>1, <2>2 DEF Inv, StreamInv
  <1> QED  BY <1>2, <1>3

\* The medium moves, or fails to.
LEMMA MoveInv ==
    ASSUME Inv, SkipMedium \/ SeekMedium \/ MediumFails
    PROVE  Inv'
  <1>1. /\ ~error /\ Placed /\ Ordered /\ TypeOK /\ ~flushing /\ <<>> \in Seq(Byte)
        /\ bytesInBuffer = 0 /\ currentPos = 0
    BY DEF Inv, StreamInv, Ended, SkipMedium, SeekMedium, MediumFails, Placed, Ordered
  <1>2. CASE SkipMedium \/ SeekMedium
    <2>1. PICK n \in Nat : data' = Ensured(data, n) /\ pos' = n /\ byteOffset' = n
      BY <1>1, <1>2 DEF SkipMedium, SeekMedium, TypeOK, Placed
    <2>2. data' \in Seq(Byte) /\ Len(data') \in Nat /\ n <= Len(data')
      BY <1>1, <2>1, EnsuredFacts DEF TypeOK
    <2>3. Return("ok") /\ UNCHANGED <<reliable, stored, currentPos, bytesInBuffer, error>>
      BY <1>1, <1>2 DEF SkipMedium, SeekMedium
    <2>4. TypeOK'
      BY <1>1, <2>1, <2>2, <2>3 DEF TypeOK, Return
    <2>5. Placed' /\ Ordered' /\ ~error'
      BY <1>1, <2>1, <2>2, <2>3 DEF Return, Placed, Ordered
    <2> QED  BY <2>4, <2>5 DEF Inv, StreamInv
  <1>3. CASE MediumFails
    <2>1. TypeOK'
      BY <1>1, <1>3 DEF TypeOK, MediumFails, Return, medium, buffer
    <2>2. error' /\ Ended'
      BY <1>1, <1>3 DEF MediumFails, Return, Ended
    <2> QED  BY <2>1, <2>2 DEF Inv, StreamInv
  <1> QED  BY <1>2, <1>3

\* The stream keeps to the invariant (stream.go: writeData, flush, writeSkip, writeSeek).
THEOREM StreamInvariant == StreamSpec => []Inv
  <1>1. StreamInit => Inv
    <2> SUFFICES ASSUME StreamInit PROVE Inv
      OBVIOUS
    <2>1. <<>> \in Seq(Byte) /\ Len(<<>>) = 0
      OBVIOUS
    <2>2. TypeOK
      BY <2>1 DEF StreamInit, TypeOK
    <2>3. Placed /\ Ordered /\ ~error
      BY <2>1 DEF StreamInit, Placed, Ordered
    <2> QED  BY <2>2, <2>3 DEF Inv, StreamInv
  <1>2. Inv /\ [UserCalls \/ StreamNext]_streamVars => Inv'
    <2> SUFFICES ASSUME Inv, [UserCalls \/ StreamNext]_streamVars PROVE Inv'
      OBVIOUS
    <2>1. CASE UNCHANGED streamVars
      BY <2>1 DEF streamVars, medium, buffer, request, Inv, TypeOK, StreamInv, Placed, Ordered, Ended
    <2> QED  BY <2>1, CallsInv, WriteInv, FlushSomeInv, FlushEndInv, MoveInv DEF StreamNext
  <1> QED  BY <1>1, <1>2, PTL DEF StreamSpec

-------------------------------------------------------------------------------
(* The refinement *)

\* Copying the next k bytes to the buffer puts them at the position of the file.
LEMMA CopyPuts ==
    ASSUME Inv, ~error, ~flushing, NEW k \in 0 .. Len(src), NEW b \in Seq(Byte), Len(b) = k,
           \A i \in 1 .. k : b[i] = src[i],
           currentPos + k <= BufferSize,
           stored' = StoredWith(b), PendingFrom' = 0,
           bytesInBuffer' = bytesInBuffer + k, byteOffset' = byteOffset + k,
           src' = SubSeq(src, k + 1, Len(src)),
           UNCHANGED <<medium, error>>
    PROVE  Sink!Next
  <1>1. /\ Placed /\ Ordered /\ TypeOK /\ currentPos = bytesInBuffer /\ PendingFrom = 0
        /\ byteOffset = pos + bytesInBuffer /\ k \in Nat
        /\ pos \in Nat /\ bytesInBuffer \in Nat /\ BufferSize \in Nat
        /\ bytesInBuffer + k <= BufferSize /\ Len(data) \in Nat
    <2>1. Placed /\ Ordered /\ TypeOK
      BY DEF Inv, StreamInv
    <2>2. currentPos = bytesInBuffer /\ PendingFrom = 0 /\ byteOffset = pos + bytesInBuffer
      BY <2>1 DEF Placed, PendingFrom
    <2>3. pos \in Nat /\ bytesInBuffer \in Nat /\ BufferSize \in Nat /\ Len(src) \in Nat
      BY <2>1, BufferAssumption DEF TypeOK
    <2>4. Len(data) \in Nat
      BY <2>1 DEF TypeOK
    <2> QED  BY <2>1, <2>2, <2>3, <2>4
  <1>2. /\ FileEnd \in Nat /\ FileEnd >= byteOffset /\ FileEnd >= Len(data)
        /\ Len(FlushedFile) = FileEnd
        /\ \A i \in 1 .. FileEnd :
               FlushedFile[i] = IF i \in pos + 1 .. pos + bytesInBuffer
                                  THEN stored[0 + i - pos - 1] ELSE data[i]
    BY <1>1, FileFacts
  <1> DEFINE end == IF byteOffset + k <= FileEnd THEN FileEnd ELSE byteOffset + k
             x(i) == IF i \in byteOffset + 1 .. byteOffset + k THEN src[i - byteOffset] ELSE FlushedFile[i]
             y(i) == IF i \in pos + 1 .. pos + (bytesInBuffer + k)
                       THEN StoredWith(b)[0 + i - pos - 1] ELSE data[i]
  <1>3. FileEnd' = end
    BY <1>1 DEF FileEnd, medium
  <1>4. FlushedFile' = [i \in 1 .. FileEnd' |-> y(i)]
    BY DEF FlushedFile, medium
  <1>5. end \in Nat /\ end <= FileEnd + k
    BY <1>1, <1>2
  <1>a. \A i \in 1 .. end : i \in Nat /\ i >= 1 /\ (i <= byteOffset + k \/ i <= FileEnd)
    <2>1. byteOffset \in Nat /\ k \in Nat /\ FileEnd \in Nat
      BY <1>1, <1>2
    <2> QED  BY <2>1
  <1>6. ASSUME NEW i \in 1 .. end PROVE y(i) = x(i)
    <2>1. i \in Nat /\ i >= 1 /\ (i <= byteOffset + k \/ i <= FileEnd)
      BY <1>a
    <2> HIDE DEF end
    <2>2. CASE i \in byteOffset + 1 .. byteOffset + k
      <3>1. /\ i \in pos + 1 .. pos + (bytesInBuffer + k)
            /\ 0 + i - pos - 1 \in 0 .. BufferSize - 1
            /\ 0 + i - pos - 1 \in currentPos .. currentPos + Len(b) - 1
            /\ (0 + i - pos - 1) - currentPos + 1 = i - byteOffset
            /\ i - byteOffset \in 1 .. k
        BY <1>1, <2>2
      <3>2. StoredWith(b)[0 + i - pos - 1] = b[i - byteOffset]
        BY <1>1, <3>1, StoredType
      <3> QED  BY <2>2, <3>1, <3>2
    <2>3. CASE i \in pos + 1 .. pos + bytesInBuffer
      <3>1. /\ i \in pos + 1 .. pos + (bytesInBuffer + k) /\ i \in 1 .. FileEnd
            /\ i \notin byteOffset + 1 .. byteOffset + k
            /\ 0 + i - pos - 1 \in 0 .. BufferSize - 1
            /\ 0 + i - pos - 1 \notin currentPos .. currentPos + Len(b) - 1
        BY <1>1, <1>2, <2>3
      <3>2. StoredWith(b)[0 + i - pos - 1] = stored[0 + i - pos - 1]
        BY <1>1, <3>1, StoredType
      <3> QED  BY <1>2, <2>3, <3>1, <3>2
    <2>4. CASE i \notin byteOffset + 1 .. byteOffset + k /\ i \notin pos + 1 .. pos + bytesInBuffer
      <3>a. FileEnd \in Nat
        BY <1>2
      <3>1. i \notin pos + 1 .. pos + (bytesInBuffer + k) /\ i \in 1 .. FileEnd
        <4>1. i \notin pos + bytesInBuffer + 1 .. pos + bytesInBuffer + k
          BY <1>1, <2>4
        <4>2. i <= pos + bytesInBuffer \/ i > pos + bytesInBuffer + k
          BY <1>1, <2>1, <4>1
        <4>3. i <= byteOffset + k => i <= pos
          BY <1>1, <2>1, <2>4, <4>2
        <4>4. byteOffset + k >= pos /\ FileEnd >= pos
          BY <1>1, <1>2
        <4> QED  BY <1>1, <2>1, <2>4, <3>a, <4>2, <4>3, <4>4
      <3> QED  BY <1>2, <2>4, <3>1
    <2> QED  BY <2>2, <2>3, <2>4
  <1>7. FlushedFile' = [i \in 1 .. end |-> x(i)]
    <2> HIDE DEF end, x, y
    <2> QED  BY <1>3, <1>4, <1>6
  <1>8. Sink!Put(k)
    <2>1. error' = error
      OBVIOUS
    <2>2. FlushedFile' = [i \in 1 .. (IF byteOffset + k <= Len(FlushedFile) THEN Len(FlushedFile) ELSE byteOffset + k)
                            |-> IF i \in byteOffset + 1 .. byteOffset + k
                                  THEN src[i - byteOffset] ELSE FlushedFile[i]]
      BY <1>2, <1>7
    <2> QED  BY <2>1, <2>2 DEF Sink!Put, Sink!Grown
  <1> QED  BY <1>8 DEF Sink!Next

LEMMA WriteRefines ==
    ASSUME Inv, WriteBuffered \/ WriteFull
    PROVE  Sink!Next
  <1>1. /\ ~error /\ Placed /\ TypeOK /\ ~flushing
        /\ currentPos = bytesInBuffer /\ currentPos \in Nat /\ Len(src) \in Nat
        /\ Room = BufferSize - currentPos /\ Room \in Nat /\ BufferSize \in Nat
    BY DEF Inv, StreamInv, Ended, WriteBuffered, WriteFull, Placed, TypeOK, Room
  <1>2. CASE WriteBuffered
    <2> DEFINE k == Len(src)
    <2>1. k \in 0 .. Len(src) /\ src \in Seq(Byte) /\ currentPos + k <= BufferSize
      BY <1>1, <1>2 DEF WriteBuffered, TypeOK
    <2>2. /\ stored' = StoredWith(src) /\ bytesInBuffer' = bytesInBuffer + k
          /\ byteOffset' = byteOffset + k /\ src' = <<>> /\ flushing' = FALSE
          /\ UNCHANGED <<medium, error>>
      BY <1>2 DEF WriteBuffered, Return
    <2>3. PendingFrom' = 0
      BY <2>2 DEF PendingFrom
    <2>4. SubSeq(src, k + 1, Len(src)) = <<>>
      BY <1>1, <2>1, SubSeqProperties
    <2> QED  BY <1>1, <2>1, <2>2, <2>3, <2>4, CopyPuts
  <1>3. CASE WriteFull
    <2> DEFINE b == SubSeq(src, 1, Room)
    <2>1. /\ Room \in 0 .. Len(src) /\ currentPos + Room <= BufferSize
          /\ b \in Seq(Byte) /\ Len(b) = Room /\ \A i \in 1 .. Room : b[i] = src[i]
      BY <1>1, <1>3, SubSeqProperties DEF WriteFull, TypeOK
    <2>2. /\ stored' = StoredWith(b) /\ bytesInBuffer' = bytesInBuffer + Room
          /\ byteOffset' = byteOffset + Room /\ src' = SubSeq(src, Room + 1, Len(src))
          /\ currentPos' = 0 /\ flushing' = TRUE
          /\ UNCHANGED <<medium, error>>
      BY <1>3 DEF WriteFull
    <2>3. PendingFrom' = 0
      BY <2>2 DEF PendingFrom
    <2> HIDE DEF b
    <2> QED  BY <1>1, <2>1, <2>2, <2>3, CopyPuts
  <1> QED  BY <1>2, <1>3

\* What the medium takes of the buffer, the users do not see.
LEMMA FlushSomeStutters ==
    ASSUME Inv, FlushSome
    PROVE  UNCHANGED Sink!vars
  <1>1. /\ ~error /\ Placed /\ TypeOK /\ flushing /\ PendingFrom = currentPos
        /\ UNCHANGED <<stored, byteOffset, error, flushing, src>>
    BY DEF Inv, StreamInv, Ended, FlushSome, request, PendingFrom
  <1>2. PICK n \in 1 .. bytesInBuffer, b \in Seq(Byte) :
               /\ Len(b) = n
               /\ \A i \in 1 .. n : b[i] = stored[currentPos + i - 1]
               /\ data' = Put(b) /\ pos' = pos + n
               /\ currentPos' = currentPos + n /\ bytesInBuffer' = bytesInBuffer - n
    BY TakenFacts
  <1>3. /\ pos \in Nat /\ bytesInBuffer \in Nat /\ BufferSize \in Nat /\ currentPos \in Nat
        /\ pos <= Len(data) /\ Len(data) \in Nat /\ n \in Nat /\ n <= bytesInBuffer /\ n >= 1
        /\ currentPos + bytesInBuffer <= BufferSize
    BY <1>1, <1>2 DEF TypeOK, Placed
  <1>4. /\ Len(data') = IF pos + n <= Len(data) THEN Len(data) ELSE pos + n
        /\ \A i \in 1 .. Len(data') :
               data'[i] = IF i \in pos + 1 .. pos + n THEN b[i - pos] ELSE data[i]
    BY <1>1, <1>2, PutFacts DEF TypeOK, Placed
  <1> DEFINE x(i) == IF i \in pos + 1 .. pos + bytesInBuffer
                       THEN stored[currentPos + i - pos - 1] ELSE data[i]
             y(i) == IF i \in pos + n + 1 .. pos + n + (bytesInBuffer - n)
                       THEN stored[currentPos + n + i - (pos + n) - 1] ELSE data'[i]
  <1>5. FileEnd' = FileEnd /\ FileEnd \in Nat
        /\ (FileEnd = pos + bytesInBuffer \/ FileEnd = Len(data))
        /\ FileEnd >= pos + bytesInBuffer /\ FileEnd >= Len(data)
    <2>1. pos' + bytesInBuffer' = pos + bytesInBuffer
      BY <1>2, <1>3
    <2>2. PICK e : e = Len(data')
      OBVIOUS
    <2>3. e = IF pos + n <= Len(data) THEN Len(data) ELSE pos + n
      BY <1>4, <2>2
    <2>4. FileEnd' = IF pos + bytesInBuffer > e THEN pos + bytesInBuffer ELSE e
      BY <2>1, <2>2 DEF FileEnd
    <2> QED  BY <1>3, <2>3, <2>4 DEF FileEnd
  <1>6. FlushedFile = [i \in 1 .. FileEnd |-> x(i)]
    BY <1>1 DEF FlushedFile
  <1>7. FlushedFile' = [i \in 1 .. FileEnd' |-> y(i)]
    BY <1>1, <1>2 DEF FlushedFile, PendingFrom
  <1>8. ASSUME NEW i \in 1 .. FileEnd PROVE y(i) = x(i)
    <2>1. CASE i \in pos + 1 .. pos + n
      <3>1. /\ i \in 1 .. Len(data') /\ i - pos \in 1 .. n
            /\ i \notin pos + n + 1 .. pos + n + (bytesInBuffer - n)
            /\ i \in pos + 1 .. pos + bytesInBuffer
            /\ currentPos + (i - pos) - 1 = currentPos + i - pos - 1
        BY <1>3, <1>4, <2>1
      <3>2. data'[i] = stored[currentPos + i - pos - 1]
        BY <1>2, <1>4, <2>1, <3>1
      <3> QED  BY <3>1, <3>2
    <2>2. CASE i \in pos + n + 1 .. pos + bytesInBuffer
      <3>1. /\ i \in pos + n + 1 .. pos + n + (bytesInBuffer - n)
            /\ i \in pos + 1 .. pos + bytesInBuffer
            /\ currentPos + n + i - (pos + n) - 1 = currentPos + i - pos - 1
        BY <1>3, <2>2
      <3> QED  BY <3>1
    <2>3. CASE i \notin pos + 1 .. pos + bytesInBuffer
      <3>1. /\ i \notin pos + 1 .. pos + n /\ i \in 1 .. Len(data')
            /\ i \notin pos + n + 1 .. pos + n + (bytesInBuffer - n)
        BY <1>3, <1>4, <1>5, <2>3
      <3> QED  BY <1>4, <2>3, <3>1
    <2> QED  BY <1>3, <2>1, <2>2, <2>3
  <1>9. FlushedFile' = FlushedFile
    <2> HIDE DEF x, y
    <2> QED  BY <1>5, <1>6, <1>7, <1>8
  <1> QED  BY <1>1, <1>9 DEF Sink!vars

\* The medium moves once nothing is pending.
LEMMA MoveRefines ==
    ASSUME Inv, SkipMedium \/ SeekMedium
    PROVE  Sink!Next
  <1>1. /\ ~error /\ Placed /\ Ordered /\ TypeOK /\ ~flushing /\ <<>> \in Seq(Byte)
        /\ bytesInBuffer = 0 /\ src = <<>> /\ byteOffset = pos
    BY DEF Inv, StreamInv, Ended, SkipMedium, SeekMedium, Placed, Ordered, TypeOK
  <1>2. PICK n \in Nat : data' = Ensured(data, n) /\ pos' = n /\ byteOffset' = n
    BY <1>1 DEF SkipMedium, SeekMedium, TypeOK
  <1>3. /\ bytesInBuffer' = 0 /\ src' = <<>> /\ error' = error
    BY <1>1 DEF SkipMedium, SeekMedium, Return
  <1>4. /\ pos \in Nat /\ pos <= Len(data) /\ Len(data) \in Nat
        /\ data' \in Seq(Byte)
        /\ Len(data') = IF n <= Len(data) THEN Len(data) ELSE n
        /\ \A i \in 1 .. Len(data') : data'[i] = IF i <= Len(data) THEN data[i] ELSE Zero
    BY <1>1, <1>2, EnsuredFacts DEF TypeOK, Placed
  <1>5. FileEnd = Len(data) /\ FileEnd' = Len(data')
    BY <1>1, <1>2, <1>3, <1>4 DEF FileEnd
  <1>6. Len(FlushedFile) = Len(data) /\ \A i \in 1 .. Len(data) : FlushedFile[i] = data[i]
    BY <1>1, <1>4, <1>5, FileFacts
  <1>7. FlushedFile' = [i \in 1 .. Len(data') |-> data'[i]]
    <2>1. FlushedFile' = [i \in 1 .. FileEnd' |->
                            IF i \in pos' + 1 .. pos' + 0 THEN stored'[PendingFrom' + i - pos' - 1] ELSE data'[i]]
      BY <1>1, <1>3 DEF FlushedFile
    <2>2. pos' + 1 .. pos' + 0 = {}
      BY <1>2
    <2> QED  BY <1>5, <2>1, <2>2
  <1>8. FlushedFile' = [i \in 1 .. (IF n <= Len(FlushedFile) THEN Len(FlushedFile) ELSE n) |->
                           IF i <= Len(FlushedFile) THEN FlushedFile[i] ELSE Zero]
    <2>1. Len(data') = IF n <= Len(FlushedFile) THEN Len(FlushedFile) ELSE n
      BY <1>4, <1>6
    <2>2. ASSUME NEW i \in 1 .. Len(data')
          PROVE  data'[i] = IF i <= Len(FlushedFile) THEN FlushedFile[i] ELSE Zero
      BY <1>4, <1>6
    <2> QED  BY <1>7, <2>1, <2>2
  <1>9. Sink!Move((IF error THEN 0 ELSE byteOffset)')
    BY <1>1, <1>2, <1>3, <1>8 DEF Sink!Move, Sink!Extended, Sink!Grown
  <1> QED  BY <1>1, <1>9 DEF Sink!Next

\* A user's call moves nothing.
LEMMA CallsRefine ==
    ASSUME Inv, UserCalls
    PROVE  Sink!Next
  <1>1. ~error /\ Placed /\ Ordered /\ src = <<>> /\ ~flushing /\ PendingFrom = 0
    BY DEF Inv, StreamInv, Ended, UserCalls, Ordered, Write, Skip, SeekTo, Flush, Start, PendingFrom
  <1>2. /\ UNCHANGED <<medium, stored, bytesInBuffer, byteOffset, error>>
        /\ flushing' => currentPos' = 0
    BY DEF UserCalls, Write, Skip, SeekTo, Flush, Start
  <1>3. PendingFrom' = 0
    BY <1>2 DEF PendingFrom
  <1>4. FlushedFile' = FlushedFile
    BY <1>1, <1>2, <1>3 DEF FlushedFile, FileEnd, medium
  <1> QED  BY <1>1, <1>2, <1>4 DEF Sink!Next, Sink!Begin

\* A failure voids the file.
LEMMA FailRefines ==
    ASSUME Inv, FlushFails \/ MediumFails
    PROVE  Sink!Next
  <1>1. ~error /\ error' /\ src' = <<>>
    BY DEF Inv, StreamInv, Ended, FlushFails, MediumFails, Return
  <1> QED  BY <1>1 DEF Sink!Next, Sink!Fail, FlushedFile, Inv, TypeOK

LEMMA FlushDoneStutters ==
    ASSUME Inv, FlushDone
    PROVE  UNCHANGED Sink!vars
  <1>1. ~error /\ Ordered /\ bytesInBuffer = 0 /\ pos \in Nat
    BY DEF Inv, StreamInv, Ended, FlushDone, TypeOK
  <1>2. UNCHANGED <<medium, stored, bytesInBuffer, byteOffset, error>> /\ src' = src
    BY <1>1 DEF FlushDone, Return, Ordered
  <1>3. pos + 1 .. pos + 0 = {}
    BY <1>1
  <1>4. FlushedFile' = FlushedFile
    BY <1>1, <1>2, <1>3 DEF FlushedFile, FileEnd, medium
  <1> QED  BY <1>2, <1>4 DEF Sink!vars

\* The buffer of an output stream can never be seen (stream.go: writeData, writeSkip, writeSeek,
\* flush), whatever its size, its users and the medium's failures: each call puts the bytes it
\* was given at the position, in order and once, or voids the file for good.
THEOREM StreamImplementsSink == StreamSpec => ImplementsSink
  <1>1. StreamInit => Sink!Init
    <2> SUFFICES ASSUME StreamInit PROVE Sink!Init
      OBVIOUS
    <2>1. FileEnd = 0 /\ error = FALSE /\ byteOffset = 0 /\ src = <<>>
      BY DEF StreamInit, FileEnd
    <2>2. FlushedFile = <<>>
      BY <2>1 DEF FlushedFile
    <2> QED  BY <2>1, <2>2 DEF Sink!Init
  <1>2. Inv /\ [UserCalls \/ StreamNext]_streamVars => [Sink!Next]_(Sink!vars)
    <2> SUFFICES ASSUME Inv, [UserCalls \/ StreamNext]_streamVars
                 PROVE  Sink!Next \/ UNCHANGED Sink!vars
      BY DEF Sink!vars
    <2>1. CASE UNCHANGED streamVars
      BY <2>1 DEF streamVars, medium, buffer, request, Sink!vars, FlushedFile, FileEnd, PendingFrom
    <2> QED  BY <2>1, CallsRefine, WriteRefines, FlushSomeStutters, FlushDoneStutters, FailRefines,
                MoveRefines DEF StreamNext
  <1> QED  BY <1>1, <1>2, StreamInvariant, PTL DEF StreamSpec, ImplementsSink, Sink!Spec

===============================================================================
