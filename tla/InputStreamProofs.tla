---------------------------- MODULE InputStreamProofs ----------------------------
(***************************************************************************)
(* The input stream for data, buffers and calls of every length.  The       *)
(* inductive invariant is StreamInv with the types: byteOffset, the cursor  *)
(* of the medium and the buffer agree.  From it follows that the stream     *)
(* implements ByteSource: every read delivers the bytes at Tell().          *)
(***************************************************************************)
EXTENDS InputStream, SequenceTheorems, TLAPS

Inv == TypeOK /\ StreamInv

USE StreamAssumption

-------------------------------------------------------------------------------
(* Sequences of consecutive offsets. *)

\* n consecutive offsets are a sequence of length n.
LEMMA RunIsSeq ==
    ASSUME NEW S, NEW a \in Nat, NEW n \in Nat, \A i \in 1 .. n : a + i - 1 \in S
    PROVE  /\ [i \in 1 .. n |-> a + i - 1] \in Seq(S)
           /\ Len([i \in 1 .. n |-> a + i - 1]) = n
  <1>1. [i \in 1 .. n |-> a + i - 1] \in [1 .. n -> S]
    OBVIOUS
  <1> QED  BY <1>1

\* A run of offsets up to b, followed by the run from b on, is one run.
LEMMA RunConcat ==
    ASSUME NEW S, NEW d \in Seq(S), NEW b \in Nat, NEW m \in Nat,
           Len(d) <= b,
           \A i \in 1 .. m : b + i - 1 \in S,
           \A i \in 1 .. Len(d) : d[i] = b - Len(d) + i - 1,
           NEW r, r = [i \in 1 .. m |-> b + i - 1],
           NEW e, e = d \o r
    PROVE  /\ e \in Seq(S)
           /\ Len(e) = Len(d) + m
           /\ \A i \in 1 .. Len(e) : e[i] = b - Len(d) + i - 1
           /\ e = [i \in 1 .. Len(d) + m |-> (b - Len(d)) + i - 1]
  <1>1. r \in Seq(S) /\ Len(r) = m
    BY RunIsSeq
  <1>2. Len(d) \in Nat
    OBVIOUS
  <1>3. /\ e \in Seq(S) /\ Len(e) = Len(d) + m
        /\ \A i \in 1 .. Len(d) + m : e[i] = IF i <= Len(d) THEN d[i] ELSE r[i - Len(d)]
    BY <1>1, ConcatProperties
  <1>4. ASSUME NEW i \in 1 .. Len(d) + m
        PROVE  e[i] = b - Len(d) + i - 1
    <2>1. CASE i <= Len(d)
      BY <1>2, <1>3, <2>1
    <2>2. CASE i > Len(d)
      <3>1. i - Len(d) \in 1 .. m
        BY <1>2, <2>2
      <3>2. e[i] = r[i - Len(d)]
        BY <1>2, <1>3, <2>2
      <3>3. r[i - Len(d)] = b + (i - Len(d)) - 1
        BY <3>1
      <3> QED  BY <1>2, <3>2, <3>3
    <2> QED  BY <1>2, <2>1, <2>2
  <1>5. e = [i \in 1 .. Len(d) + m |-> e[i]]
    <2>1. e = [i \in 1 .. Len(e) |-> e[i]]
      BY <1>3, LenProperties
    <2> QED  BY <1>3, <2>1
  <1>6. e = [i \in 1 .. Len(d) + m |-> (b - Len(d)) + i - 1]
    BY <1>4, <1>5
  <1> QED  BY <1>3, <1>4, <1>6

-------------------------------------------------------------------------------
(* The buffer. *)

\* What Inv says of the bytes in the buffer: the next ones of the data.
LEMMA BufferRun ==
    ASSUME Inv, NEW n \in Nat, n <= bytesInBuffer
    PROVE  /\ FromBuffer(n) = [i \in 1 .. n |-> byteOffset + i - 1]
           /\ byteOffset + n <= size
           /\ FromBuffer(n) \in Seq(Offsets)
           /\ Len(FromBuffer(n)) = n
  <1>1. \A i \in 1 .. n : stored[currentPos + i - 1] = byteOffset + i - 1
    <2> SUFFICES ASSUME NEW i \in 1 .. n
                 PROVE  stored[currentPos + i - 1] = byteOffset + i - 1
      OBVIOUS
    <2>1. i - 1 \in 0 .. bytesInBuffer - 1
      BY DEF Inv, TypeOK
    <2>2. stored[currentPos + (i - 1)] = byteOffset + (i - 1)
      BY <2>1 DEF Inv, StreamInv, Coherent
    <2>3. currentPos + (i - 1) = currentPos + i - 1 /\ byteOffset + (i - 1) = byteOffset + i - 1
      BY DEF Inv, TypeOK, Offsets
    <2> QED  BY <2>2, <2>3
  <1>2. byteOffset \in Nat /\ size \in Nat /\ byteOffset + n <= size
    BY DEF Inv, TypeOK, StreamInv, Coherent, Offsets
  <1>3. FromBuffer(n) = [i \in 1 .. n |-> byteOffset + i - 1]
    BY <1>1 DEF FromBuffer
  <1>4. \A i \in 1 .. n : byteOffset + i - 1 \in Offsets
    BY <1>2 DEF Offsets
  <1> QED  BY <1>2, <1>3, <1>4, RunIsSeq

-------------------------------------------------------------------------------
(* Inv is an invariant. *)

LEMMA InitInv == Init => Inv
  <1> SUFFICES ASSUME Init PROVE Inv
    OBVIOUS
  <1>1. <<>> \in Seq(Offsets)
    OBVIOUS
  <1>2. TypeOK
    <2>1. stored \in [0 .. bufferSize - 1 -> Nat \union {None}]
      BY DEF Init
    <2>2. /\ media \in Offsets /\ byteOffset \in Offsets
          /\ currentPos \in Nat /\ bytesInBuffer \in Nat
          /\ currentPos + bytesInBuffer <= bufferSize
          /\ want \in 0 .. MaxAsk /\ skipped \in Int
      BY DEF Init, Offsets
    <2>3. dst \in Seq(Offsets) /\ got \in Seq(Offsets)
      BY <1>1 DEF Init
    <2>4. /\ size \in 0 .. MaxSize /\ bufferSize \in 1 .. MaxBuffer
          /\ reliable \in BOOLEAN /\ end \in BOOLEAN /\ pc \in {"idle", "fill"}
      BY DEF Init
    <2> QED  BY <2>1, <2>2, <2>3, <2>4 DEF TypeOK
  <1>3. StreamInv
    BY DEF Init, StreamInv, Coherent, LoopInv, EndInv
  <1> QED  BY <1>2, <1>3 DEF Inv

\* A step that takes n buffered bytes and leaves the rest alone.
LEMMA TakeKeepsInv ==
    ASSUME Inv, pc = "idle", NEW n \in Nat, n <= bytesInBuffer,
           currentPos' = currentPos + n, bytesInBuffer' = bytesInBuffer - n,
           byteOffset' = byteOffset + n, UNCHANGED <<conf, media, stored, end, loop>>,
           got' \in Seq(Offsets), skipped' \in Int
    PROVE  Inv'
  <1>0. /\ size' = size /\ bufferSize' = bufferSize /\ reliable' = reliable
        /\ media' = media /\ stored' = stored /\ end' = end
        /\ pc' = pc /\ want' = want /\ dst' = dst /\ Offsets' = Offsets
    BY DEF conf, loop, Offsets
  <1>1. TypeOK'
    <2>0. byteOffset + n <= size
      BY BufferRun
    <2>1. byteOffset' \in Offsets'
      BY <1>0, <2>0 DEF Inv, TypeOK, Offsets
    <2> QED  BY <1>0, <2>1 DEF Inv, TypeOK
  <1>2. Coherent'
    <2>1. ASSUME NEW i \in 0 .. bytesInBuffer' - 1
          PROVE  stored[currentPos + n + i] = byteOffset + n + i
      <3>1. n + i \in 0 .. bytesInBuffer - 1
        BY DEF Inv, TypeOK
      <3>2. stored[currentPos + (n + i)] = byteOffset + (n + i)
        BY <3>1 DEF Inv, StreamInv, Coherent
      <3>3. /\ currentPos + (n + i) = currentPos + n + i
            /\ byteOffset + (n + i) = byteOffset + n + i
        BY DEF Inv, TypeOK, Offsets
      <3> QED  BY <3>2, <3>3
    <2>2. media' = byteOffset' + bytesInBuffer' \/ (end' /\ bytesInBuffer' = 0)
      BY <1>0 DEF Inv, TypeOK, StreamInv, Coherent, Offsets
    <2> QED  BY <1>0, <2>1, <2>2 DEF Coherent
  <1>3. LoopInv' /\ EndInv'
    BY <1>0 DEF Inv, TypeOK, StreamInv, LoopInv, EndInv, Offsets
  <1> QED  BY <1>1, <1>2, <1>3 DEF Inv, StreamInv

\* A step that empties the buffer and leaves the position off, the cursor m and
\* the status e behind, which agree.
LEMMA EmptyKeepsInv ==
    ASSUME Inv, pc = "idle",
           NEW p \in 0 .. bufferSize, NEW off \in Offsets, NEW m \in Offsets,
           NEW e \in BOOLEAN, NEW g \in Seq(Offsets), NEW k \in Int,
           m = off \/ e, reliable /\ e => off = size,
           currentPos' = p, bytesInBuffer' = 0, byteOffset' = off, media' = m,
           end' = e, got' = g, skipped' = k, UNCHANGED <<conf, stored, loop>>
    PROVE  Inv'
  <1>0. /\ size' = size /\ bufferSize' = bufferSize /\ reliable' = reliable
        /\ stored' = stored /\ pc' = pc /\ want' = want /\ dst' = dst
        /\ Offsets' = Offsets
    BY DEF conf, loop, Offsets
  <1>1. TypeOK'
    BY <1>0 DEF Inv, TypeOK
  <1>2. Coherent'
    BY <1>0 DEF Coherent, Offsets, Inv, TypeOK
  <1>3. LoopInv'
    BY <1>0 DEF Inv, StreamInv, LoopInv
  <1>4. EndInv'
    BY <1>0 DEF EndInv, Offsets, Inv, TypeOK
  <1> QED  BY <1>1, <1>2, <1>3, <1>4 DEF Inv, StreamInv

LEMMA ReadKeepsInv ==
    ASSUME Inv, NEW n \in 0 .. MaxAsk, Read(n)
    PROVE  Inv'
  <1>1. CASE ReadBuffered(n)
    <2>1. n \in Nat /\ n <= bytesInBuffer /\ got' \in Seq(Offsets) /\ skipped' \in Int
      BY <1>1, BufferRun DEF ReadBuffered
    <2> QED  BY <1>1, <2>1, TakeKeepsInv DEF ReadBuffered
  <1>2. CASE ReadAtEnd(n)
    <2>1. bytesInBuffer \in Nat /\ bytesInBuffer <= bytesInBuffer
      BY DEF Inv, TypeOK
    <2>2. got' \in Seq(Offsets) /\ skipped' \in Int /\ bytesInBuffer' = bytesInBuffer - bytesInBuffer
      BY <1>2, <2>1, BufferRun DEF ReadAtEnd
    <2> QED  BY <1>2, <2>1, <2>2, TakeKeepsInv DEF ReadAtEnd
  <1>3. CASE ReadStart(n)
    <2>0. bytesInBuffer \in Nat /\ bytesInBuffer < n
      BY <1>3 DEF Inv, TypeOK, ReadStart
    <2>1. /\ FromBuffer(bytesInBuffer) = [i \in 1 .. bytesInBuffer |-> byteOffset + i - 1]
          /\ FromBuffer(bytesInBuffer) \in Seq(Offsets)
          /\ Len(FromBuffer(bytesInBuffer)) = bytesInBuffer
          /\ byteOffset + bytesInBuffer <= size
      BY <2>0, BufferRun
    <2>2. TypeOK'
      BY <1>3, <2>0, <2>1 DEF Inv, TypeOK, ReadStart, Offsets, conf
    <2>3. Coherent' /\ EndInv'
      BY <1>3, <2>0 DEF Inv, TypeOK, StreamInv, Coherent, EndInv, ReadStart, Offsets, conf
    <2>4. LoopInv'
      <3>1. dst' = [i \in 1 .. bytesInBuffer |-> byteOffset + i - 1] /\ Len(dst') = bytesInBuffer
        BY <1>3, <2>1 DEF ReadStart
      <3>2. /\ pc' = "fill" /\ bytesInBuffer' = 0 /\ currentPos' = 0 /\ ~end'
            /\ want' = n - bytesInBuffer /\ byteOffset' = byteOffset + bytesInBuffer
        BY <1>3 DEF ReadStart
      <3>3. byteOffset \in Nat
        BY DEF Inv, TypeOK, Offsets
      <3>4. /\ want' > 0 /\ Len(dst') <= byteOffset' /\ Len(dst') + want' <= MaxAsk
            /\ byteOffset' - Len(dst') = byteOffset
        BY <2>0, <3>1, <3>2, <3>3
      <3>5. \A i \in 1 .. Len(dst') : dst'[i] = byteOffset' - Len(dst') + i - 1
        BY <3>1, <3>4
      <3> QED  BY <3>2, <3>4, <3>5 DEF LoopInv
    <2> QED  BY <2>2, <2>3, <2>4 DEF Inv, StreamInv
  <1> QED  BY <1>1, <1>2, <1>3 DEF Read

LEMMA SkipKeepsInv ==
    ASSUME Inv, NEW n \in 0 .. MaxAsk, Skip(n)
    PROVE  Inv'
  <1>1. n \in Nat /\ bytesInBuffer \in Nat /\ <<>> \in Seq(Offsets)
    BY DEF Inv, TypeOK
  <1>2. CASE SkipBuffered(n)
    BY <1>1, <1>2, TakeKeepsInv DEF SkipBuffered
  <1>3. CASE SkipAtEnd(n)
    <2>1. bytesInBuffer' = bytesInBuffer - bytesInBuffer /\ skipped' \in Int
      BY <1>1, <1>3 DEF SkipAtEnd, OrEnd
    <2> QED  BY <1>1, <1>3, <2>1, TakeKeepsInv DEF SkipAtEnd
  <1>4. CASE SkipBeyond(n)
    <2> DEFINE k == OrEnd(size - (byteOffset + bytesInBuffer))
    <2>0. byteOffset + bytesInBuffer <= size
      BY <1>1, BufferRun
    <2>1. /\ k \in Int /\ 0 \in 0 .. bufferSize /\ TRUE \in BOOLEAN
          /\ size \in Offsets /\ byteOffset + bytesInBuffer \in Offsets /\ media \in Offsets
      BY <1>1, <2>0 DEF OrEnd, Inv, TypeOK, Offsets
    <2>2. /\ pc = "idle" /\ currentPos' = 0 /\ bytesInBuffer' = 0 /\ end' = TRUE
          /\ got' = <<>> /\ skipped' = k /\ UNCHANGED <<conf, stored, loop>>
      BY <1>4 DEF SkipBeyond
    <2>3. CASE media' = size /\ byteOffset' = size
      BY <1>1, <2>1, <2>2, <2>3, EmptyKeepsInv
    <2>4. CASE ~reliable /\ byteOffset' = byteOffset + bytesInBuffer /\ media' = media
      BY <1>1, <2>1, <2>2, <2>4, EmptyKeepsInv
    <2> QED  BY <1>4, <2>3, <2>4 DEF SkipBeyond
  <1>5. CASE SkipMedia(n)
    <2> DEFINE p == IF bytesInBuffer # 0 THEN 0 ELSE currentPos
    <2>1. media = byteOffset + bytesInBuffer /\ bytesInBuffer < n /\ byteOffset + n <= size
      BY <1>5 DEF SkipMedia, Inv, StreamInv, Coherent
    <2>2. /\ p \in 0 .. bufferSize /\ byteOffset + n \in Offsets /\ media \in Offsets
          /\ media + (n - bytesInBuffer) = byteOffset + n
          /\ n \in Int /\ OrEnd(bytesInBuffer) \in Int /\ TRUE \in BOOLEAN
      BY <1>1, <2>1 DEF OrEnd, Inv, TypeOK, Offsets
    <2>3. /\ pc = "idle" /\ currentPos' = p /\ bytesInBuffer' = 0 /\ got' = <<>>
          /\ UNCHANGED <<conf, stored, loop>> /\ ~end /\ end \in BOOLEAN
      BY <1>5 DEF SkipMedia, Inv, TypeOK
    <2>4. CASE /\ media' = media + (n - bytesInBuffer) /\ byteOffset' = byteOffset + n
               /\ skipped' = n /\ end' = end
      BY <1>1, <2>2, <2>3, <2>4, EmptyKeepsInv
    <2>5. CASE /\ ~reliable /\ byteOffset' = byteOffset + bytesInBuffer
               /\ skipped' = OrEnd(bytesInBuffer) /\ end' = TRUE /\ media' = media
      BY <1>1, <2>1, <2>2, <2>3, <2>5, EmptyKeepsInv
    <2> QED  BY <1>5, <2>4, <2>5 DEF SkipMedia
  <1> QED  BY <1>2, <1>3, <1>4, <1>5 DEF Skip

LEMMA SeekKeepsInv ==
    ASSUME Inv, NEW n \in 0 .. size, SeekTo(n)
    PROVE  Inv'
  <1>1. /\ <<>> \in Seq(Offsets) /\ 0 \in 0 .. bufferSize /\ n \in Offsets
        /\ byteOffset \in Offsets /\ media \in Offsets /\ 0 \in Int
        /\ TRUE \in BOOLEAN /\ FALSE \in BOOLEAN
    BY DEF Inv, TypeOK, Offsets
  <1>2. /\ pc = "idle" /\ currentPos' = 0 /\ bytesInBuffer' = 0
        /\ got' = <<>> /\ skipped' = 0 /\ UNCHANGED <<conf, stored, loop>>
    BY DEF SeekTo, SeekMedia
  <1>3. CASE media' = n /\ byteOffset' = n /\ end' = FALSE
    BY <1>1, <1>2, <1>3, EmptyKeepsInv
  <1>4. CASE ~reliable /\ byteOffset' = byteOffset /\ end' = TRUE /\ media' = media
    BY <1>1, <1>2, <1>4, EmptyKeepsInv
  <1> QED  BY <1>3, <1>4 DEF SeekTo, SeekMedia

\* What the medium delivers lies within the data; a reliable one ends only there.
LEMMA MediaReads ==
    ASSUME Inv, NEW q \in Nat \ {0}
    PROVE  /\ \A k \in MediaRead(q) \ {None} :
                  /\ k \in 1 .. q /\ media + k <= size
                  /\ reliable => k = q \/ media + k = size
           /\ None \in MediaRead(q) /\ reliable => media = size
  <1> DEFINE left == IF media < size THEN size - media ELSE 0
             most == Smaller(q, left)
  <1>1. /\ media \in Nat /\ size \in Nat /\ media <= size
        /\ most \in 0 .. q /\ media + most <= size /\ (most = q \/ media + most = size)
    BY DEF Inv, TypeOK, Offsets, Smaller
  <1>2. MediaRead(q) = {IF k = 0 THEN None ELSE k : k \in IF reliable THEN {most} ELSE 0 .. most}
    BY DEF MediaRead
  <1> HIDE DEF most, left
  <1>3. ASSUME NEW j \in MediaRead(q)
        PROVE  \E k \in 0 .. most : j = (IF k = 0 THEN None ELSE k) /\ (reliable => k = most)
    <2>1. CASE reliable
      BY <1>1, <1>2, <2>1
    <2>2. CASE ~reliable
      BY <1>2, <2>2
    <2> QED  BY <2>1, <2>2
  <1>4. ASSUME NEW j \in MediaRead(q) \ {None}
        PROVE  j \in 1 .. q /\ media + j <= size /\ (reliable => j = q \/ media + j = size)
    <2>1. PICK k \in 0 .. most : j = (IF k = 0 THEN None ELSE k) /\ (reliable => k = most)
      BY <1>3
    <2>2. j = k /\ k # 0
      BY <2>1
    <2> QED  BY <1>1, <2>1, <2>2
  <1>5. None \in MediaRead(q) /\ reliable => media = size
    <2> SUFFICES ASSUME None \in MediaRead(q), reliable PROVE media = size
      OBVIOUS
    <2>1. PICK k \in 0 .. most : None = (IF k = 0 THEN None ELSE k) /\ k = most
      BY <1>3
    <2>2. k = 0
      BY <1>1, <2>1 DEF None
    <2> QED  BY <1>1, <2>1, <2>2
  <1> QED  BY <1>4, <1>5

\* What Inv says of the loop of readData.
LEMMA LoopFacts ==
    ASSUME Inv, pc = "fill"
    PROVE  /\ dst \in Seq(Offsets) /\ Len(dst) \in Nat /\ Len(dst) <= byteOffset
           /\ \A i \in 1 .. Len(dst) : dst[i] = byteOffset - Len(dst) + i - 1
           /\ media = byteOffset /\ byteOffset \in Nat /\ size \in Nat /\ bufferSize \in Nat
           /\ want \in Nat /\ want > 0 /\ Len(dst) + want <= MaxAsk
           /\ bytesInBuffer = 0 /\ currentPos = 0 /\ ~end
  <1>1. dst \in Seq(Offsets)
    BY DEF Inv, TypeOK
  <1> QED  BY <1>1 DEF Inv, TypeOK, StreamInv, LoopInv, Coherent, Offsets

\* d is what the loop has delivered and the n bytes after it.
Delivered(d, n) ==
    /\ d \in Seq(Offsets)
    /\ Len(d) = Len(dst) + n
    /\ \A i \in 1 .. Len(d) : d[i] = byteOffset - Len(dst) + i - 1
    /\ d = [i \in 1 .. Len(dst) + n |-> (byteOffset - Len(dst)) + i - 1]

LEMMA DeliverRun ==
    ASSUME Inv, pc = "fill", NEW n \in Nat, byteOffset + n <= size
    PROVE  Delivered(dst \o [i \in 1 .. n |-> byteOffset + i - 1], n)
  <1>1. /\ dst \in Seq(Offsets) /\ byteOffset \in Nat /\ size \in Nat
        /\ Len(dst) <= byteOffset
        /\ \A i \in 1 .. Len(dst) : dst[i] = byteOffset - Len(dst) + i - 1
    BY LoopFacts
  <1>2. \A i \in 1 .. n : byteOffset + i - 1 \in Offsets
    BY <1>1 DEF Offsets
  <1>3. /\ dst \o [i \in 1 .. n |-> byteOffset + i - 1] \in Seq(Offsets)
        /\ Len(dst \o [i \in 1 .. n |-> byteOffset + i - 1]) = Len(dst) + n
        /\ \A i \in 1 .. Len(dst \o [j \in 1 .. n |-> byteOffset + j - 1]) :
               (dst \o [j \in 1 .. n |-> byteOffset + j - 1])[i] = byteOffset - Len(dst) + i - 1
        /\ dst \o [i \in 1 .. n |-> byteOffset + i - 1]
              = [i \in 1 .. Len(dst) + n |-> (byteOffset - Len(dst)) + i - 1]
    BY <1>1, <1>2, RunConcat, SMTT(30)
  <1> QED  BY <1>3 DEF Delivered

\* The front of a buffer that has been refilled.
LEMMA RefilledRun ==
    ASSUME Inv, pc = "fill", NEW k \in 1 .. bufferSize, NEW n \in 0 .. k
    PROVE  /\ [i \in 1 .. n |-> Refilled(k)[currentPos + i - 1]]
                  = [i \in 1 .. n |-> byteOffset + i - 1]
           /\ \A i \in 0 .. k - 1 : Refilled(k)[i] = byteOffset + i
           /\ Refilled(k) \in [0 .. bufferSize - 1 -> Nat \union {None}]
  <1>1. /\ currentPos = 0 /\ media = byteOffset /\ byteOffset \in Nat /\ bufferSize \in Nat
        /\ stored \in [0 .. bufferSize - 1 -> Nat \union {None}]
    BY DEF Inv, TypeOK, StreamInv, LoopInv, Coherent, Offsets
  <1>2. \A i \in 0 .. k - 1 : Refilled(k)[i] = byteOffset + i
    BY <1>1 DEF Refilled
  <1>3. ASSUME NEW i \in 1 .. n
        PROVE  Refilled(k)[currentPos + i - 1] = byteOffset + i - 1
    <2>1. i - 1 \in 0 .. k - 1 /\ currentPos + i - 1 = i - 1 /\ byteOffset + (i - 1) = byteOffset + i - 1
      BY <1>1
    <2> QED  BY <1>2, <2>1
  <1>4. Refilled(k) \in [0 .. bufferSize - 1 -> Nat \union {None}]
    BY <1>1 DEF Refilled
  <1> QED  BY <1>2, <1>3, <1>4

\* The loop of readData goes on behind n more bytes.
LEMMA ContinueKeepsInv ==
    ASSUME Inv, pc = "fill", NEW n \in Nat, n > 0, n < want, byteOffset + n <= size,
           NEW st \in [0 .. bufferSize - 1 -> Nat \union {None}],
           NEW d, Delivered(d, n),
           media' = media + n, byteOffset' = byteOffset + n, want' = want - n,
           dst' = d, stored' = st, currentPos' = 0, bytesInBuffer' = 0,
           UNCHANGED <<conf, end, pc, got, skipped>>
    PROVE  Inv'
  <1>0. /\ size' = size /\ bufferSize' = bufferSize /\ reliable' = reliable
        /\ end' = end /\ pc' = pc /\ got' = got /\ skipped' = skipped /\ Offsets' = Offsets
    BY DEF conf, Offsets
  <1>1. /\ d \in Seq(Offsets) /\ Len(d) = Len(dst) + n
        /\ \A i \in 1 .. Len(d) : d[i] = byteOffset - Len(dst) + i - 1
    BY DEF Delivered
  <1>2. /\ Len(dst) \in Nat /\ Len(dst) <= byteOffset
        /\ media = byteOffset /\ byteOffset \in Nat /\ size \in Nat /\ bufferSize \in Nat
        /\ ~end /\ want \in Nat /\ Len(dst) + want <= MaxAsk
    BY LoopFacts
  <1>4. TypeOK'
    <2>1. byteOffset + n \in Offsets
      BY <1>2 DEF Offsets
    <2>2. byteOffset' \in Offsets' /\ media' \in Offsets' /\ want' \in 0 .. MaxAsk
      BY <1>0, <1>1, <1>2, <2>1
    <2>3. currentPos' \in Nat /\ bytesInBuffer' \in Nat /\ currentPos' + bytesInBuffer' <= bufferSize'
      BY <1>0, <1>2
    <2>4. dst' \in Seq(Offsets') /\ got' \in Seq(Offsets') /\ skipped' \in Int
      BY <1>0, <1>1 DEF Inv, TypeOK
    <2>5. stored' \in [0 .. bufferSize' - 1 -> Nat \union {None}]
      BY <1>0
    <2>6. /\ size' \in 0 .. MaxSize /\ bufferSize' \in 1 .. MaxBuffer /\ reliable' \in BOOLEAN
          /\ end' \in BOOLEAN /\ pc' \in {"idle", "fill"}
      BY <1>0 DEF Inv, TypeOK
    <2> QED  BY <2>2, <2>3, <2>4, <2>5, <2>6 DEF TypeOK
  <1>5. Coherent' /\ EndInv'
    BY <1>0, <1>1, <1>2 DEF Coherent, EndInv
  <1>6. LoopInv'
    <2>1. /\ Len(dst') <= byteOffset' /\ Len(dst') + want' <= MaxAsk /\ want' > 0
          /\ byteOffset' - Len(dst') = byteOffset - Len(dst)
      BY <1>1, <1>2
    <2>2. \A i \in 1 .. Len(dst') : dst'[i] = byteOffset' - Len(dst') + i - 1
      BY <1>1, <2>1
    <2>3. pc' = "fill" /\ ~end' /\ bytesInBuffer' = 0 /\ currentPos' = 0
      BY <1>0, <1>2
    <2>4. LoopInv' <=> /\ bytesInBuffer' = 0 /\ currentPos' = 0 /\ ~end' /\ want' > 0
                       /\ Len(dst') <= byteOffset' /\ Len(dst') + want' <= MaxAsk
                       /\ \A i \in 1 .. Len(dst') : dst'[i] = byteOffset' - Len(dst') + i - 1
      BY <2>3 DEF LoopInv
    <2> QED  BY <2>1, <2>2, <2>3, <2>4
  <1> QED  BY <1>4, <1>5, <1>6 DEF Inv, StreamInv

\* Or it returns, behind n more bytes, with b bytes from place p on in the buffer.
LEMMA ReturnKeepsInv ==
    ASSUME Inv, pc = "fill", NEW n \in Nat, NEW b \in Nat, NEW p \in Nat,
           byteOffset + n + b <= size, p + b <= bufferSize,
           NEW st \in [0 .. bufferSize - 1 -> Nat \union {None}],
           \A i \in 0 .. b - 1 : st[p + i] = byteOffset + n + i,
           NEW e \in BOOLEAN, reliable /\ e => byteOffset + n + b = size,
           NEW g \in Seq(Offsets), Return(g),
           media' = byteOffset + n + b, byteOffset' = byteOffset + n,
           stored' = st, currentPos' = p, bytesInBuffer' = b, end' = e, UNCHANGED conf
    PROVE  Inv'
  <1>0. /\ size' = size /\ bufferSize' = bufferSize /\ reliable' = reliable
        /\ Offsets' = Offsets
    BY DEF conf, Offsets
  <1>1. byteOffset \in Nat /\ size \in Nat /\ bufferSize \in Nat
    BY DEF Inv, TypeOK, Offsets
  <1>2. pc' = "idle" /\ want' = 0 /\ dst' = <<>> /\ got' = g /\ skipped' = 0
    BY DEF Return
  <1>3. TypeOK'
    <2>1. byteOffset + n \in Offsets /\ byteOffset + n + b \in Offsets /\ 0 \in 0 .. MaxAsk
      BY <1>1 DEF Offsets
    <2>2. /\ byteOffset' \in Offsets' /\ media' \in Offsets' /\ want' \in 0 .. MaxAsk
          /\ currentPos' \in Nat /\ bytesInBuffer' \in Nat
          /\ currentPos' + bytesInBuffer' <= bufferSize' /\ skipped' \in Int
      BY <1>0, <1>1, <1>2, <2>1
    <2>3. dst' \in Seq(Offsets') /\ got' \in Seq(Offsets')
      BY <1>0, <1>2
    <2>4. stored' \in [0 .. bufferSize' - 1 -> Nat \union {None}]
      BY <1>0
    <2>5. /\ size' \in 0 .. MaxSize /\ bufferSize' \in 1 .. MaxBuffer /\ reliable' \in BOOLEAN
          /\ end' \in BOOLEAN /\ pc' \in {"idle", "fill"}
      BY <1>0, <1>2 DEF Inv, TypeOK
    <2> QED  BY <2>2, <2>3, <2>4, <2>5 DEF TypeOK
  <1>4. Coherent'
    BY <1>0, <1>1 DEF Coherent
  <1>5. LoopInv'
    BY <1>2 DEF LoopInv
  <1>6. EndInv'
    BY <1>0, <1>1 DEF EndInv
  <1> QED  BY <1>3, <1>4, <1>5, <1>6 DEF Inv, StreamInv

\* The bytes a step of the loop has in hand when the medium delivers k.
LEMMA FillDelivers ==
    ASSUME Inv, pc = "fill", want < bufferSize, NEW k \in MediaRead(bufferSize) \ {None}
    PROVE  /\ k \in 1 .. bufferSize /\ byteOffset + k <= size /\ Smaller(k, want) \in Nat
           /\ reliable => k = bufferSize \/ byteOffset + k = size
           /\ Delivered(dst \o [i \in 1 .. Smaller(k, want) |->
                                     Refilled(k)[currentPos + i - 1]], Smaller(k, want))
  <1> DEFINE n == Smaller(k, want)
  <1>1. /\ k \in 1 .. bufferSize /\ byteOffset + k <= size
        /\ reliable => k = bufferSize \/ byteOffset + k = size
    <2>1. bufferSize \in Nat \ {0} /\ media = byteOffset
      BY LoopFacts DEF Inv, TypeOK
    <2> QED  BY <2>1, MediaReads
  <1>2. n \in 0 .. k /\ n \in Nat /\ byteOffset + n <= size
    BY <1>1, LoopFacts DEF Smaller
  <1>3. [i \in 1 .. n |-> Refilled(k)[currentPos + i - 1]] = [i \in 1 .. n |-> byteOffset + i - 1]
    BY <1>1, <1>2, RefilledRun
  <1>4. Delivered(dst \o [i \in 1 .. n |-> byteOffset + i - 1], n)
    BY <1>2, DeliverRun
  <1> QED  BY <1>1, <1>2, <1>3, <1>4

LEMMA DirectDelivers ==
    ASSUME Inv, pc = "fill", NEW k \in MediaRead(want) \ {None}
    PROVE  /\ k \in 1 .. want /\ byteOffset + k <= size
           /\ reliable => k = want \/ byteOffset + k = size
           /\ Delivered(dst \o [i \in 1 .. k |-> media + i - 1], k)
  <1>1. /\ k \in 1 .. want /\ byteOffset + k <= size
        /\ reliable => k = want \/ byteOffset + k = size
    BY LoopFacts, MediaReads
  <1>2. Delivered(dst \o [i \in 1 .. k |-> byteOffset + i - 1], k)
    BY <1>1, LoopFacts, DeliverRun
  <1> QED  BY <1>1, <1>2, LoopFacts

LEMMA FillKeepsInv ==
    ASSUME Inv, Fill
    PROVE  Inv'
  <1>0. pc = "fill"
    BY DEF Fill, FillBuffer, ReadDirect, MediaEnds
  <1>1. CASE FillBuffer
    <2>1. want < bufferSize
      BY <1>1 DEF FillBuffer
    <2>2. PICK k \in MediaRead(bufferSize) \ {None} :
             LET n == Smaller(k, want)
                 d == dst \o [i \in 1 .. n |-> Refilled(k)[currentPos + i - 1]]
             IN  /\ media' = media + k /\ stored' = Refilled(k) /\ byteOffset' = byteOffset + n
                 /\ IF k < want
                      THEN /\ currentPos' = 0 /\ bytesInBuffer' = 0 /\ dst' = d
                           /\ want' = want - k /\ UNCHANGED <<pc, got, skipped>>
                      ELSE /\ currentPos' = currentPos + want /\ bytesInBuffer' = k - want
                           /\ Return(d)
      BY <1>1 DEF FillBuffer
    <2> DEFINE n == Smaller(k, want)
               d == dst \o [i \in 1 .. n |-> Refilled(k)[currentPos + i - 1]]
    <2>3. UNCHANGED <<conf, end>>
      BY <1>1 DEF FillBuffer
    <2>4. /\ k \in 1 .. bufferSize /\ byteOffset + k <= size /\ n \in Nat /\ Delivered(d, n)
      BY <1>0, <2>1, FillDelivers
    <2>5. /\ \A i \in 0 .. k - 1 : Refilled(k)[i] = byteOffset + i
          /\ Refilled(k) \in [0 .. bufferSize - 1 -> Nat \union {None}]
      <3>1. k \in 1 .. bufferSize /\ 0 \in 0 .. k
        BY <2>4, LoopFacts
      <3> QED  BY <1>0, <3>1, RefilledRun
    <2>6. /\ media = byteOffset /\ byteOffset \in Nat /\ size \in Nat /\ bufferSize \in Nat
          /\ want \in Nat /\ want > 0 /\ currentPos = 0 /\ ~end
      BY <1>0, LoopFacts
    <2>7. CASE k < want
      <3>1. n = k /\ k \in Nat /\ k > 0
        BY <2>4, <2>7 DEF Smaller
      <3>2. dst' = d /\ want' = want - k /\ currentPos' = 0 /\ bytesInBuffer' = 0
            /\ UNCHANGED <<pc, got, skipped>>
        BY <2>2, <2>7
      <3>3. UNCHANGED <<conf, end, pc, got, skipped>> /\ media' = media + k
            /\ stored' = Refilled(k) /\ byteOffset' = byteOffset + k
        BY <2>2, <2>3, <3>1, <3>2
      <3> HIDE DEF d, n
      <3> QED  BY <1>0, <2>4, <2>5, <2>7, <3>1, <3>2, <3>3, ContinueKeepsInv
    <2>8. CASE ~(k < want)
      <3>1. n = want /\ k - want \in Nat
        BY <2>4, <2>6, <2>8 DEF Smaller
      <3>2. /\ Return(d) /\ currentPos' = want /\ bytesInBuffer' = k - want
            /\ media' = byteOffset + want + (k - want) /\ byteOffset' = byteOffset + want
            /\ stored' = Refilled(k) /\ end' = FALSE /\ UNCHANGED conf
        BY <2>2, <2>3, <2>4, <2>6, <2>8, <3>1
      <3>3. /\ byteOffset + want + (k - want) <= size /\ want + (k - want) <= bufferSize
            /\ d \in Seq(Offsets) /\ FALSE \in BOOLEAN
        BY <2>4, <2>6, <3>1 DEF Delivered
      <3>4. \A i \in 0 .. (k - want) - 1 : Refilled(k)[want + i] = byteOffset + want + i
        <4> SUFFICES ASSUME NEW i \in 0 .. (k - want) - 1
                     PROVE  Refilled(k)[want + i] = byteOffset + want + i
          OBVIOUS
        <4>1. want + i \in 0 .. k - 1
          BY <2>4, <2>6, <3>1
        <4>2. Refilled(k)[want + i] = byteOffset + (want + i)
          BY <2>5, <4>1
        <4> QED  BY <2>6, <4>1, <4>2
      <3> HIDE DEF d, n
      <3> QED  BY <1>0, <2>5, <2>6, <3>1, <3>2, <3>3, <3>4, ReturnKeepsInv
    <2> QED  BY <2>7, <2>8
  <1>2. CASE ReadDirect
    <2>1. PICK k \in MediaRead(want) \ {None} :
             LET d == dst \o [i \in 1 .. k |-> media + i - 1]
             IN  /\ media' = media + k /\ byteOffset' = byteOffset + k
                 /\ currentPos' = 0 /\ bytesInBuffer' = 0
                 /\ IF k < want THEN dst' = d /\ want' = want - k /\ UNCHANGED <<pc, got, skipped>>
                                ELSE Return(d)
      BY <1>2 DEF ReadDirect
    <2> DEFINE d == dst \o [i \in 1 .. k |-> media + i - 1]
    <2>2. UNCHANGED <<conf, stored, end>>
      BY <1>2 DEF ReadDirect
    <2>3. /\ k \in 1 .. want /\ byteOffset + k <= size /\ Delivered(d, k)
      BY <1>0, DirectDelivers
    <2>4. /\ media = byteOffset /\ byteOffset \in Nat /\ size \in Nat /\ bufferSize \in Nat
          /\ want \in Nat /\ ~end /\ stored \in [0 .. bufferSize - 1 -> Nat \union {None}]
      BY <1>0, LoopFacts DEF Inv, TypeOK
    <2>5. CASE k < want
      <3>1. k \in Nat /\ k > 0
        BY <2>3
      <3>2. dst' = d /\ want' = want - k /\ currentPos' = 0 /\ bytesInBuffer' = 0
            /\ UNCHANGED <<conf, end, pc, got, skipped>> /\ media' = media + k
            /\ stored' = stored /\ byteOffset' = byteOffset + k
        BY <2>1, <2>2, <2>5
      <3> HIDE DEF d
      <3> QED  BY <1>0, <2>3, <2>4, <2>5, <3>1, <3>2, ContinueKeepsInv
    <2>6. CASE ~(k < want)
      <3>1. /\ Return(d) /\ currentPos' = 0 /\ bytesInBuffer' = 0
            /\ media' = byteOffset + k + 0 /\ byteOffset' = byteOffset + k
            /\ stored' = stored /\ end' = FALSE /\ UNCHANGED conf
        BY <2>1, <2>2, <2>3, <2>4, <2>6
      <3>2. /\ k \in Nat /\ 0 \in Nat /\ byteOffset + k + 0 <= size /\ 0 + 0 <= bufferSize
            /\ d \in Seq(Offsets) /\ FALSE \in BOOLEAN
            /\ \A i \in 0 .. 0 - 1 : stored[0 + i] = byteOffset + k + i
        BY <2>3, <2>4 DEF Delivered
      <3> HIDE DEF d
      <3> QED  BY <1>0, <2>4, <3>1, <3>2, ReturnKeepsInv
    <2> QED  BY <2>5, <2>6
  <1>3. CASE MediaEnds
    <2>1. /\ Return(dst) /\ bytesInBuffer' = 0 /\ end' = TRUE
          /\ UNCHANGED <<conf, media, stored, currentPos, byteOffset>>
          /\ None \in MediaRead(IF want < bufferSize THEN bufferSize ELSE want)
      BY <1>3 DEF MediaEnds
    <2>2. /\ media = byteOffset /\ byteOffset \in Nat /\ size \in Nat /\ bufferSize \in Nat
          /\ want \in Nat /\ want > 0 /\ currentPos = 0 /\ dst \in Seq(Offsets)
          /\ stored \in [0 .. bufferSize - 1 -> Nat \union {None}] /\ byteOffset <= size
      BY <1>0, LoopFacts DEF Inv, TypeOK, Offsets
    <2>3. reliable => byteOffset = size
      <3>1. (IF want < bufferSize THEN bufferSize ELSE want) \in Nat \ {0}
        BY <2>2
      <3> QED  BY <2>1, <2>2, <3>1, MediaReads
    <2>4. /\ media' = byteOffset + 0 + 0 /\ byteOffset' = byteOffset + 0 /\ stored' = stored
          /\ currentPos' = 0 /\ UNCHANGED conf
          /\ 0 \in Nat /\ byteOffset + 0 + 0 <= size /\ 0 + 0 <= bufferSize /\ TRUE \in BOOLEAN
          /\ \A i \in 0 .. 0 - 1 : stored[0 + i] = byteOffset + 0 + i
          /\ reliable /\ TRUE => byteOffset + 0 + 0 = size
      BY <2>1, <2>2, <2>3
    <2> QED  BY <1>0, <2>1, <2>2, <2>4, ReturnKeepsInv
  <1> QED  BY <1>1, <1>2, <1>3 DEF Fill

\* The types and the agreement of the three positions, for every stream.
THEOREM StreamInvariant == Spec => [](TypeOK /\ StreamInv)
  <1>1. Inv /\ [Next]_vars => Inv'
    <2> SUFFICES ASSUME Inv, [Next]_vars PROVE Inv'
      OBVIOUS
    <2>1. ASSUME NEW n \in 0 .. MaxAsk, Read(n) \/ Skip(n) PROVE Inv'
      BY <2>1, ReadKeepsInv, SkipKeepsInv
    <2>2. ASSUME NEW n \in 0 .. size, SeekTo(n) PROVE Inv'
      BY <2>2, SeekKeepsInv
    <2>3. CASE Fill
      BY <2>3, FillKeepsInv
    <2>4. CASE UNCHANGED vars
      BY <2>4 DEF vars, conf, loop, Inv, TypeOK, Offsets, StreamInv, Coherent, LoopInv, EndInv
    <2> QED  BY <2>1, <2>2, <2>3, <2>4 DEF Next
  <1> QED  BY InitInv, <1>1, PTL DEF Spec, Inv

-------------------------------------------------------------------------------
(* The stream implements ByteSource. *)

at == IF pc = "fill" THEN byteOffset - Len(dst) ELSE byteOffset

\* What a Read of ByteSource is, at the mapped position.
LEMMA SourceRead ==
    ASSUME NEW q \in 0 .. MaxAsk, NEW k \in 0 .. q,
           at \in Nat, size \in Nat, at + k <= size,
           reliable => k = q \/ at + k = size,
           got' = [i \in 1 .. k |-> at + i - 1], at' = at + k,
           UNCHANGED <<size, reliable>>
    PROVE  Source!Next
  <1>1. /\ reliable => k = (IF at + q <= size THEN q ELSE size - at)
        /\ k <= (IF at + q <= size THEN q ELSE size - at)
    OBVIOUS
  <1>2. Source!Read(q)
    BY <1>1 DEF Source!Read, Source!Upto, Source!Bytes, at
  <1> QED  BY <1>2 DEF Source!Next

LEMMA SourceSkip ==
    ASSUME NEW q \in 0 .. MaxAsk, NEW k \in 0 .. q,
           at \in Nat, size \in Nat, at + k <= size,
           reliable => k = q \/ at + k = size,
           got' = <<>>, at' = at + k, UNCHANGED <<size, reliable>>
    PROVE  Source!Next
  <1>1. /\ reliable => k = (IF at + q <= size THEN q ELSE size - at)
        /\ k <= (IF at + q <= size THEN q ELSE size - at)
    OBVIOUS
  <1>2. Source!Skip(q)
    BY <1>1 DEF Source!Skip, Source!Upto, at
  <1> QED  BY <1>2 DEF Source!Next

\* Between two calls the mapped position is byteOffset.
LEMMA IdleFacts ==
    ASSUME Inv, pc = "idle"
    PROVE  /\ at = byteOffset /\ byteOffset \in Nat /\ size \in Nat /\ bytesInBuffer \in Nat
           /\ byteOffset + bytesInBuffer <= size
           /\ reliable /\ end => byteOffset + bytesInBuffer = size
  <1>1. bytesInBuffer \in Nat /\ byteOffset \in Nat /\ size \in Nat
    BY DEF Inv, TypeOK, Offsets
  <1> QED  BY <1>1, BufferRun DEF at, Inv, StreamInv, EndInv

LEMMA ReadRefines ==
    ASSUME Inv, NEW n \in 0 .. MaxAsk, Read(n)
    PROVE  Source!Next \/ UNCHANGED Source!vars
  <1>0. /\ pc = "idle" /\ n \in Nat /\ UNCHANGED <<size, reliable>>
    BY DEF Read, ReadBuffered, ReadAtEnd, ReadStart, conf
  <1>1. CASE ReadBuffered(n)
    <2>1. n <= bytesInBuffer /\ pc' = "idle" /\ byteOffset' = byteOffset + n
      BY <1>1 DEF ReadBuffered, loop, Inv, TypeOK
    <2>2. got' = [i \in 1 .. n |-> byteOffset + i - 1]
      BY <1>0, <1>1, <2>1, BufferRun DEF ReadBuffered
    <2>3. /\ n \in 0 .. n /\ at' = at + n /\ at \in Nat /\ at + n <= size
          /\ got' = [i \in 1 .. n |-> at + i - 1]
      BY <1>0, <2>1, <2>2, IdleFacts DEF at
    <2> QED  BY <1>0, <2>3, IdleFacts, SourceRead
  <1>2. CASE ReadAtEnd(n)
    <2>1. bytesInBuffer < n /\ end /\ pc' = "idle" /\ byteOffset' = byteOffset + bytesInBuffer
      BY <1>2 DEF ReadAtEnd, loop
    <2>2. got' = [i \in 1 .. bytesInBuffer |-> byteOffset + i - 1]
      <3>1. bytesInBuffer \in Nat /\ bytesInBuffer <= bytesInBuffer
        BY <1>0, IdleFacts
      <3> QED  BY <1>2, <3>1, BufferRun DEF ReadAtEnd
    <2>3. /\ bytesInBuffer \in 0 .. n /\ at' = at + bytesInBuffer /\ at \in Nat
          /\ at + bytesInBuffer <= size
          /\ reliable => bytesInBuffer = n \/ at + bytesInBuffer = size
          /\ got' = [i \in 1 .. bytesInBuffer |-> at + i - 1]
      BY <1>0, <2>1, <2>2, IdleFacts DEF at
    <2> QED  BY <1>0, <2>3, IdleFacts, SourceRead
  <1>3. CASE ReadStart(n)
    <2>1. /\ pc' = "fill" /\ byteOffset' = byteOffset + bytesInBuffer
          /\ dst' = FromBuffer(bytesInBuffer) /\ got' = got
      BY <1>3 DEF ReadStart
    <2>2. Len(dst') = bytesInBuffer
      BY <1>0, <2>1, IdleFacts, BufferRun
    <2>3. at' = at
      BY <1>0, <2>1, <2>2, IdleFacts DEF at
    <2> QED  BY <1>0, <2>1, <2>3 DEF Source!vars, at
  <1> QED  BY <1>1, <1>2, <1>3 DEF Read

LEMMA SkipRefines ==
    ASSUME Inv, NEW n \in 0 .. MaxAsk, Skip(n)
    PROVE  Source!Next
  <1>0. /\ pc = "idle" /\ pc' = "idle" /\ n \in Nat /\ UNCHANGED <<size, reliable>>
        /\ got' = <<>>
    BY DEF Skip, SkipBuffered, SkipAtEnd, SkipBeyond, SkipMedia, conf, loop
  <1>1. at = byteOffset /\ at' = byteOffset'
    BY <1>0 DEF at
  <1>2. \E k \in 0 .. n : /\ byteOffset' = byteOffset + k /\ byteOffset + k <= size
                          /\ reliable => k = n \/ byteOffset + k = size
    <2>1. CASE SkipBuffered(n)
      BY <1>0, <2>1, IdleFacts DEF SkipBuffered
    <2>2. CASE SkipAtEnd(n)
      <3>1. bytesInBuffer \in 0 .. n
        BY <1>0, <2>2, IdleFacts DEF SkipAtEnd
      <3> QED  BY <1>0, <2>2, <3>1, IdleFacts DEF SkipAtEnd
    <2>3. CASE SkipBeyond(n)
      <3>1. bytesInBuffer \in 0 .. n /\ size - byteOffset \in 0 .. n
        BY <1>0, <2>3, IdleFacts DEF SkipBeyond
      <3>2. CASE byteOffset' = size
        BY <1>0, <3>1, <3>2, IdleFacts
      <3>3. CASE ~reliable /\ byteOffset' = byteOffset + bytesInBuffer
        BY <1>0, <3>1, <3>3, IdleFacts
      <3> QED  BY <2>3, <3>2, <3>3 DEF SkipBeyond
    <2>4. CASE SkipMedia(n)
      <3>1. bytesInBuffer \in 0 .. n /\ n \in 0 .. n /\ byteOffset + n <= size
        BY <1>0, <2>4, IdleFacts DEF SkipMedia
      <3>2. CASE byteOffset' = byteOffset + n
        BY <3>1, <3>2
      <3>3. CASE ~reliable /\ byteOffset' = byteOffset + bytesInBuffer
        BY <1>0, <3>1, <3>3, IdleFacts
      <3> QED  BY <2>4, <3>2, <3>3 DEF SkipMedia
    <2> QED  BY <2>1, <2>2, <2>3, <2>4 DEF Skip
  <1>3. PICK k \in 0 .. n : /\ byteOffset' = byteOffset + k /\ byteOffset + k <= size
                            /\ reliable => k = n \/ byteOffset + k = size
    BY <1>2
  <1>4. byteOffset' = at + k /\ at' = byteOffset'
    BY <1>0, <1>1, <1>3, IdleFacts
  <1>5. /\ at \in Nat /\ size \in Nat /\ at + k <= size /\ at' = at + k
        /\ reliable => k = n \/ at + k = size
    BY <1>0, <1>3, <1>4, IdleFacts
  <1> QED  BY <1>0, <1>5, SourceSkip

LEMMA SeekRefines ==
    ASSUME Inv, NEW n \in 0 .. size, SeekTo(n)
    PROVE  Source!Next
  <1>1. /\ pc = "idle" /\ pc' = "idle" /\ got' = <<>> /\ UNCHANGED <<size, reliable>>
        /\ byteOffset' = n \/ (~reliable /\ byteOffset' = byteOffset)
    BY DEF SeekTo, SeekMedia, conf, loop
  <1>2. Source!Seek(n)
    BY <1>1 DEF Source!Seek
  <1> QED  BY <1>2 DEF Source!Next

LEMMA FillRefines ==
    ASSUME Inv, Fill
    PROVE  Source!Next \/ UNCHANGED Source!vars
  <1> DEFINE q == Len(dst) + want
  <1>0. pc = "fill" /\ UNCHANGED <<size, reliable>>
    BY DEF Fill, FillBuffer, ReadDirect, MediaEnds, conf
  <1>1. /\ dst \in Seq(Offsets) /\ Len(dst) \in Nat /\ Len(dst) <= byteOffset
        /\ \A i \in 1 .. Len(dst) : dst[i] = byteOffset - Len(dst) + i - 1
        /\ byteOffset \in Nat /\ size \in Nat /\ want \in Nat /\ want > 0
        /\ q \in 0 .. MaxAsk /\ at = byteOffset - Len(dst) /\ at \in Nat
    BY <1>0, LoopFacts DEF at
  \* The loop goes on: the bytes it has taken are in dst, nothing is delivered yet.
  <1>2. ASSUME NEW k \in Nat, NEW d, Delivered(d, k), dst' = d, byteOffset' = byteOffset + k,
               pc' = pc, got' = got
        PROVE  UNCHANGED Source!vars
    <2>1. Len(dst') = Len(dst) + k
      BY <1>2 DEF Delivered
    <2>2. at' = at
      BY <1>0, <1>1, <1>2, <2>1 DEF at
    <2> QED  BY <1>0, <1>2, <2>2 DEF Source!vars, at
  \* It returns all that was asked for.
  <1>3. ASSUME NEW d, Delivered(d, want), Return(d), byteOffset' = byteOffset + want,
               byteOffset + want <= size
        PROVE  Source!Next
    <2>a. q \in Nat /\ at + q = byteOffset + want
      BY <1>1
    <2>b. at' = byteOffset'
      BY <1>3 DEF at, Return
    <2>1. /\ q \in 0 .. q /\ at' = at + q /\ at + q <= size
      <3> HIDE DEF q
      <3> QED  BY <1>3, <2>a, <2>b
    <2>2. got' = [i \in 1 .. q |-> at + i - 1]
      BY <1>1, <1>3 DEF Delivered, Return
    <2> HIDE DEF q
    <2> QED  BY <1>0, <1>1, <2>1, <2>2, SourceRead
  <1>4. CASE FillBuffer
    <2>1. want < bufferSize
      BY <1>4 DEF FillBuffer
    <2>2. PICK k \in MediaRead(bufferSize) \ {None} :
             LET n == Smaller(k, want)
                 d == dst \o [i \in 1 .. n |-> Refilled(k)[currentPos + i - 1]]
             IN  /\ byteOffset' = byteOffset + n
                 /\ IF k < want THEN dst' = d /\ pc' = pc /\ got' = got ELSE Return(d)
      BY <1>4 DEF FillBuffer
    <2> DEFINE n == Smaller(k, want)
               d == dst \o [i \in 1 .. n |-> Refilled(k)[currentPos + i - 1]]
    <2>3. k \in 1 .. bufferSize /\ byteOffset + k <= size /\ n \in Nat /\ Delivered(d, n)
      BY <1>0, <2>1, FillDelivers
    <2>4. CASE k < want
      <3>1. dst' = d /\ pc' = pc /\ got' = got /\ byteOffset' = byteOffset + n
        BY <2>2, <2>4
      <3> HIDE DEF d, n
      <3> QED  BY <1>2, <2>3, <3>1
    <2>5. CASE ~(k < want)
      <3>1. n = want /\ byteOffset + want <= size
        BY <1>1, <2>3, <2>5, LoopFacts DEF Smaller
      <3>2. Return(d) /\ byteOffset' = byteOffset + want
        BY <2>2, <2>5, <3>1
      <3> HIDE DEF d, n
      <3> QED  BY <1>3, <2>3, <3>1, <3>2
    <2> QED  BY <2>4, <2>5
  <1>5. CASE ReadDirect
    <2>1. PICK k \in MediaRead(want) \ {None} :
             LET d == dst \o [i \in 1 .. k |-> media + i - 1]
             IN  /\ byteOffset' = byteOffset + k
                 /\ IF k < want THEN dst' = d /\ pc' = pc /\ got' = got ELSE Return(d)
      BY <1>5 DEF ReadDirect
    <2> DEFINE d == dst \o [i \in 1 .. k |-> media + i - 1]
    <2>2. k \in 1 .. want /\ k \in Nat /\ byteOffset + k <= size /\ Delivered(d, k)
      BY <1>0, DirectDelivers
    <2>3. CASE k < want
      <3>1. dst' = d /\ pc' = pc /\ got' = got /\ byteOffset' = byteOffset + k
        BY <2>1, <2>3
      <3> HIDE DEF d
      <3> QED  BY <1>2, <2>2, <3>1
    <2>4. CASE ~(k < want)
      <3>1. k = want
        BY <1>1, <2>2, <2>4
      <3>2. Return(d) /\ byteOffset' = byteOffset + want
        BY <2>1, <2>4, <3>1
      <3> HIDE DEF d
      <3> QED  BY <1>3, <2>2, <3>1, <3>2
    <2> QED  BY <2>3, <2>4
  <1>6. CASE MediaEnds
    <2>1. /\ Return(dst) /\ byteOffset' = byteOffset
          /\ None \in MediaRead(IF want < bufferSize THEN bufferSize ELSE want)
      BY <1>6 DEF MediaEnds
    <2>2. reliable => byteOffset = size
      <3>1. (IF want < bufferSize THEN bufferSize ELSE want) \in Nat \ {0} /\ media = byteOffset
        BY <1>0, LoopFacts
      <3> QED  BY <2>1, <3>1, MediaReads
    <2>3. byteOffset <= size
      BY DEF Inv, TypeOK, Offsets
    <2>4. dst = [i \in 1 .. Len(dst) |-> dst[i]]
      BY <1>1, LenProperties
    <2>5. got' = [i \in 1 .. Len(dst) |-> at + i - 1]
      BY <1>1, <2>1, <2>4 DEF Return
    <2>6. /\ Len(dst) \in 0 .. q /\ at' = at + Len(dst) /\ at + Len(dst) <= size
          /\ reliable => Len(dst) = q \/ at + Len(dst) = size
      BY <1>1, <2>1, <2>2, <2>3 DEF at, Return
    <2> HIDE DEF q
    <2> QED  BY <1>0, <1>1, <2>5, <2>6, SourceRead
  <1> QED  BY <1>4, <1>5, <1>6 DEF Fill

\* Whatever the buffer, the calls and the failures of the medium, the stream is a
\* position in its data, and reads deliver the bytes there.
THEOREM StreamImplementsSource == Spec => ImplementsSource
  <1>1. Init => Source!Init
    BY DEF Init, Source!Init
  <1>2. Inv /\ [Next]_vars => [Source!Next]_(Source!vars)
    <2> SUFFICES ASSUME Inv, [Next]_vars PROVE Source!Next \/ UNCHANGED Source!vars
      BY DEF Source!vars
    <2>1. ASSUME NEW n \in 0 .. MaxAsk, Read(n) \/ Skip(n)
          PROVE  Source!Next \/ UNCHANGED Source!vars
      BY <2>1, ReadRefines, SkipRefines
    <2>2. ASSUME NEW n \in 0 .. size, SeekTo(n) PROVE Source!Next
      BY <2>2, SeekRefines
    <2>3. CASE Fill
      BY <2>3, FillRefines
    <2>4. CASE UNCHANGED vars
      BY <2>4 DEF vars, conf, loop, Source!vars
    <2> QED  BY <2>1, <2>2, <2>3, <2>4 DEF Next
  <1> QED  BY <1>1, <1>2, StreamInvariant, PTL DEF Spec, Inv, ImplementsSource, Source!Spec


===============================================================================
