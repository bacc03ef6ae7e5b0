------------------------------ MODULE OutputStream ------------------------------
(***************************************************************************)
(* The output side of internal/cio/stream.go: Write (writeData), Skip       *)
(* (writeSkip), SeekTo (writeSeek) and Flush over a medium, with a buffer   *)
(* of bufferSize bytes between.  One call of the stream is under way at a   *)
(* time; a user starts it with one of the actions named after the methods   *)
(* and finds what it returned in "result".                                  *)
(*                                                                          *)
(* The medium is memWriter of constructors.go, which takes all it is given  *)
(* and never fails, or any other that keeps to what flush and writeSkip     *)
(* allow for: a write may take only a part, and all three may fail.  (A     *)
(* skip moves all the way or fails; the loop over partial skips is left out.*)
(* So is the test of the status on entry: no caller goes on after a failure.*)
(***************************************************************************)
EXTENDS Integers, Sequences

CONSTANTS
    BufferSize,     \* ChunkSize
    Zero            \* the byte that has never been written

ASSUME BufferAssumption == BufferSize \in Nat \ {0}

VARIABLES
    reliable,       \* the medium is memWriter
    data,           \* memWriter.data
    pos,            \* memWriter.pos
    stored,         \* storedData
    currentPos,
    bytesInBuffer,
    byteOffset,
    error,          \* status&statusError
    call,           \* the method under way: "none", "write", "skip", "seek" or "flush"
    flushing,       \* in the loop of flush
    src,            \* what Write has still to copy
    target,         \* what Skip or SeekTo was asked for
    result          \* of the last call to return: "ok" or "failed"

medium == <<reliable, data, pos>>
buffer == <<stored, currentPos, bytesInBuffer, byteOffset>>
request == <<call, flushing, src, target, result>>
streamVars == <<medium, buffer, error, request>>

StreamInit ==
    /\ reliable \in BOOLEAN
    /\ data = <<>>
    /\ pos = 0
    /\ stored = [i \in 0 .. BufferSize - 1 |-> Zero]
    /\ currentPos = 0
    /\ bytesInBuffer = 0
    /\ byteOffset = 0
    /\ error = FALSE
    /\ call = "none"
    /\ flushing = FALSE
    /\ src = <<>>
    /\ target = 0
    /\ result = "ok"

-------------------------------------------------------------------------------
(* The calls *)

\* Mutant: a skip or a seek does not flush.
StartUnflushed(method, bytes, n) ==
    /\ call = "none"
    /\ call' = method
    /\ flushing' = (method = "flush")
    /\ currentPos' = IF method = "flush" THEN 0 ELSE currentPos
    /\ src' = bytes
    /\ target' = n
    /\ UNCHANGED <<medium, stored, bytesInBuffer, byteOffset, error, result>>
\* Write copies first; the others flush, which begins at the front of the buffer.
Start(method, bytes, n) ==
    /\ call = "none"
    /\ call' = method
    /\ flushing' = (method # "write")
    /\ currentPos' = IF method = "write" THEN currentPos ELSE 0
    /\ src' = bytes
    /\ target' = n
    /\ UNCHANGED <<medium, stored, bytesInBuffer, byteOffset, error, result>>

Return(r) ==
    /\ call' = "none"
    /\ flushing' = FALSE
    /\ src' = <<>>
    /\ target' = 0
    /\ result' = r

Write(bytes) == Start("write", bytes, 0)
Skip(n) == Start("skip", <<>>, n)
SeekTo(n) == Start("seek", <<>>, n)
Flush == Start("flush", <<>>, 0)

Tell == byteOffset

\* The buffer with bytes copied to currentPos.
StoredWith(bytes) ==
    [i \in 0 .. BufferSize - 1 |->
        IF i \in currentPos .. currentPos + Len(bytes) - 1
          THEN bytes[i - currentPos + 1]
          ELSE stored[i]]

Room == BufferSize - bytesInBuffer

\* All that is left fits.
WriteBuffered ==
    /\ call = "write" /\ ~flushing
    /\ Room >= Len(src)
    /\ stored' = StoredWith(src)
    /\ currentPos' = currentPos + Len(src)
    /\ bytesInBuffer' = bytesInBuffer + Len(src)
    /\ byteOffset' = byteOffset + Len(src)
    /\ Return("ok")
    /\ UNCHANGED <<medium, error>>

\* What fits, and then a flush.
WriteFull ==
    /\ call = "write" /\ ~flushing
    /\ Room < Len(src)
    /\ stored' = StoredWith(SubSeq(src, 1, Room))
    /\ currentPos' = 0
    /\ bytesInBuffer' = bytesInBuffer + Room
    /\ byteOffset' = byteOffset + Room
    /\ src' = SubSeq(src, Room + 1, Len(src))
    /\ flushing' = TRUE
    /\ UNCHANGED <<medium, error, call, target, result>>

-------------------------------------------------------------------------------
(* flush and the medium *)

\* data made n bytes long if it is shorter: ensure.
Ensured(d, n) == IF n <= Len(d) THEN d ELSE d \o [i \in 1 .. n - Len(d) |-> Zero]

\* data with bytes at pos: memWrite.
Put(bytes) ==
    LET d == Ensured(data, pos + Len(bytes))
    IN  [i \in DOMAIN d |->
            IF i \in pos + 1 .. pos + Len(bytes) THEN bytes[i - pos] ELSE d[i]]

\* The place in the buffer the loop of flush has reached: it begins at its front.
Unflushed(from, n) == [i \in 1 .. n |-> stored[from + i - 1]]

\* The medium takes n of the bytes.
FlushSome ==
    /\ flushing
    /\ bytesInBuffer > 0
    /\ \E n \in IF reliable THEN {bytesInBuffer} ELSE 1 .. bytesInBuffer :
           /\ data' = Put(Unflushed(currentPos, n))
           /\ pos' = pos + n
           /\ currentPos' = currentPos + n
           /\ bytesInBuffer' = bytesInBuffer - n
    /\ UNCHANGED <<reliable, stored, byteOffset, error, request>>

\* It fails: Skip also drops what is left in the buffer.
FlushFails ==
    /\ flushing
    /\ bytesInBuffer > 0
    /\ ~reliable
    /\ error' = TRUE
    /\ bytesInBuffer' = IF call = "skip" THEN 0 ELSE bytesInBuffer
    /\ Return("failed")
    /\ UNCHANGED <<medium, stored, currentPos, byteOffset>>

FlushDone ==
    /\ flushing
    /\ bytesInBuffer = 0
    /\ currentPos' = 0
    /\ IF call = "flush"
         THEN Return("ok")
         ELSE flushing' = FALSE /\ UNCHANGED <<call, src, target, result>>
    /\ UNCHANGED <<medium, stored, bytesInBuffer, byteOffset, error>>

\* memWriteSkip.
SkipMedium ==
    /\ call = "skip" /\ ~flushing
    /\ pos' = pos + target
    /\ data' = Ensured(data, pos + target)
    /\ byteOffset' = byteOffset + target
    /\ Return("ok")
    /\ UNCHANGED <<reliable, stored, currentPos, bytesInBuffer, error>>

\* memWriteSeek.
SeekMedium ==
    /\ call = "seek" /\ ~flushing
    /\ pos' = target
    /\ data' = Ensured(data, target)
    /\ byteOffset' = target
    /\ currentPos' = 0
    /\ bytesInBuffer' = 0
    /\ Return("ok")
    /\ UNCHANGED <<reliable, stored, error>>

MediumFails ==
    /\ call \in {"skip", "seek"} /\ ~flushing
    /\ ~reliable
    /\ error' = TRUE
    /\ Return("failed")
    /\ UNCHANGED <<medium, buffer>>

StreamNext ==
    \/ WriteBuffered \/ WriteFull
    \/ FlushSome \/ FlushFails \/ FlushDone
    \/ SkipMedium \/ SeekMedium \/ MediumFails

-------------------------------------------------------------------------------
(* What the stream promises *)

\* Where the pending bytes begin in the buffer, and where the file ends with them.
PendingFrom == IF flushing THEN currentPos ELSE 0
FileEnd == IF pos + bytesInBuffer > Len(data) THEN pos + bytesInBuffer ELSE Len(data)

\* The file as the users of the stream have left it: what is pending in the buffer lies
\* over the medium.
FlushedFile ==
    IF error THEN <<>>
    ELSE [i \in 1 .. FileEnd |->
             IF i \in pos + 1 .. pos + bytesInBuffer THEN stored[PendingFrom + i - pos - 1] ELSE data[i]]

Sink == INSTANCE ByteSink WITH
            file <- FlushedFile,
            at <- IF error THEN 0 ELSE byteOffset,
            rest <- src,
            void <- error

\* The buffer of an output stream can never be seen (stream.go: writeData, writeSkip, writeSeek,
\* flush): bytes that are pending are at their place before the position moves, in the order they
\* were written, through partial writes of the medium too; and a failure is final.
ImplementsSink == Sink!Spec

===============================================================================
