------------------------------ MODULE BitIOProofs ------------------------------
(***************************************************************************)
(* Theorems about BitIO, for every width of a byte, every buffer and every  *)
(* sequence of bits: the types, no marker in a header, no silent loss, and   *)
(* that the reader gets the bits back and ends where the header does.       *)
(***************************************************************************)
EXTENDS BitIO, Induction, FiniteSetTheorems, TLAPS

\* Until the header is flushed the reader has not begun; a byte has been lost only
\* if the buffer is full; and as long as there is room, the bits behind a byte of
\* ones begin with a zero.
BioInv ==
    /\ TypeOK
    /\ NoMarker
    /\ NoSilentLoss
    /\ pc = "write" => rpos = 0 /\ limit = 0
    /\ pc = "write" /\ lost => Len(buf) = room
    /\ pc = "write" /\ buf # <<>> /\ buf[Len(buf)] = Ones /\ Len(buf) < room
         => filled # <<>> /\ filled[1] = 0

-------------------------------------------------------------------------------
(* Lemmas about bytes. *)

LEMMA Bytes ==
    /\ Ones \in Byte
    /\ Zeros \in Byte
    /\ Ones # Zeros
    /\ Zeros[1] = 0
    /\ Ones[1] = 1
<1>1. 1 \in 1 .. Width
  BY BitIOAssumption
<1>2. Zeros[1] = 0 /\ Ones[1] = 1
  BY <1>1 DEF Ones, Zeros
<1>3. Ones \in Byte /\ Zeros \in Byte
  BY DEF Ones, Zeros, Byte, Bit
<1> QED
  BY <1>2, <1>3

\* The byte in use, padded, begins as the bits put into it do.
LEMMA PaddedByte ==
    ASSUME filled \in Seq(Bit)
    PROVE  /\ Padded \in Byte
           /\ filled # <<>> => Padded[1] = filled[1]
<1>1. \A i \in 1 .. Width : i <= Len(filled) => filled[i] \in Bit
  BY BitIOAssumption
<1>2. Padded \in Byte
  BY <1>1 DEF Padded, Byte, Bit
<1>3. ASSUME filled # <<>>
      PROVE  Padded[1] = filled[1]
  <2>1. 1 \in 1 .. Width /\ 1 <= Len(filled)
    BY <1>3, BitIOAssumption
  <2> QED
    BY <2>1 DEF Padded
<1> QED
  BY <1>2, <1>3

\* A byte appended behind bytes without a marker leaves them so, if it begins with
\* a zero behind a byte of ones.
LEMMA AppendByte ==
    ASSUME NEW s \in Seq(Byte), NEW byte \in Byte,
           \A i \in 1 .. Len(s) - 1 : s[i] = Ones => s[i + 1][1] = 0,
           s # <<>> /\ s[Len(s)] = Ones => byte[1] = 0
    PROVE  /\ Append(s, byte) \in Seq(Byte)
           /\ Len(Append(s, byte)) = Len(s) + 1
           /\ Append(s, byte)[Len(s) + 1] = byte
           /\ \A i \in 1 .. Len(Append(s, byte)) - 1 :
                 Append(s, byte)[i] = Ones => Append(s, byte)[i + 1][1] = 0
<1> DEFINE t == Append(s, byte)
<1>1. t \in Seq(Byte) /\ Len(t) = Len(s) + 1 /\ t[Len(s) + 1] = byte
  OBVIOUS
<1>2. \A i \in 1 .. Len(s) : t[i] = s[i]
  OBVIOUS
<1>3. ASSUME NEW i \in 1 .. Len(t) - 1, t[i] = Ones
      PROVE  t[i + 1][1] = 0
  <2>1. i \in 1 .. Len(s) /\ s[i] = Ones
    BY <1>1, <1>2, <1>3
  <2>2. CASE i = Len(s)
    BY <1>1, <2>1, <2>2
  <2>3. CASE i # Len(s)
    <3>1. i \in 1 .. Len(s) - 1 /\ i + 1 \in 1 .. Len(s)
      BY <2>1, <2>3
    <3> QED
      BY <1>2, <2>1, <3>1
  <2> QED
    BY <2>2, <2>3
<1> QED
  BY <1>1, <1>3

-------------------------------------------------------------------------------
(* One lemma for each action. *)

LEMMA InitBio == Init => BioInv
<1> SUFFICES ASSUME Init
             PROVE  BioInv
  OBVIOUS
<1>1. buf \in Seq(Byte) /\ Len(buf) = 0 /\ filled \in Seq(Bit) /\ Len(filled) = 0
  BY DEF Init
<1>2. room \in Nat /\ room \in Rooms
  BY BitIOAssumption DEF Init
<1>3. TypeOK
  <2>1. written \in Seq(Bit) /\ read \in Seq(Bit) /\ rbyte \in Byte
    BY Bytes DEF Init
  <2>2. limit = 0 /\ rpos = 0 /\ rct = 0 /\ rct \in 0 .. Width
    BY BitIOAssumption DEF Init
  <2>3. Len(buf) <= room /\ Len(filled) <= Width
    BY <1>1, <1>2, BitIOAssumption
  <2>4. lost \in BOOLEAN /\ pc \in {"write", "read", "overflow", "aligned", "cut"}
    BY DEF Init
  <2> QED
    BY <1>1, <1>2, <2>1, <2>2, <2>3, <2>4 DEF TypeOK
<1>4. NoMarker /\ NoSilentLoss
  BY <1>1 DEF Init, NoMarker, NoSilentLoss
<1> QED
  BY <1>3, <1>4 DEF Init, BioInv

LEMMA PutBitBio == BioInv /\ PutBit => BioInv'
<1> SUFFICES ASSUME BioInv, PutBit
             PROVE  BioInv'
  OBVIOUS
<1> USE BitIOAssumption
<1>1. PICK b \in Bit :
        /\ written' = Append(written, b)
        /\ IF Len(filled) < Width
             THEN /\ filled' = Append(filled, b)
                  /\ UNCHANGED <<buf, lost>>
             ELSE /\ filled' = Append(NextFilled(Padded), b)
                  /\ buf' = Stored(Padded)
                  /\ lost' = (lost \/ Len(buf) = room)
  BY DEF PutBit
<1>2. /\ pc = "write" /\ pc' = "write"
      /\ UNCHANGED <<room, limit, rpos, rbyte, rct, read>>
  BY DEF PutBit, reader
<1>3. /\ room \in Nat /\ room \in Rooms
      /\ buf \in Seq(Byte) /\ Len(buf) <= room
      /\ filled \in Seq(Bit) /\ Len(filled) <= Width
      /\ written \in Seq(Bit)
      /\ lost \in BOOLEAN
  BY DEF BioInv, TypeOK
<1>4. CASE Len(filled) < Width
  <2>1. filled' = Append(filled, b) /\ buf' = buf /\ lost' = lost
    BY <1>1, <1>4
  <2>2. filled' \in Seq(Bit) /\ Len(filled') <= Width /\ filled' # <<>>
    BY <1>3, <1>4, <2>1
  <2>3. filled # <<>> => filled'[1] = filled[1]
    BY <1>3, <2>1
  <2>4. TypeOK'
    BY <1>1, <1>2, <1>3, <2>1, <2>2 DEF BioInv, TypeOK
  <2> QED
    BY <1>2, <2>1, <2>2, <2>3, <2>4 DEF BioInv, NoMarker, NoSilentLoss
<1>5. CASE ~(Len(filled) < Width)
  <2>1. /\ filled' = Append(NextFilled(Padded), b)
        /\ buf' = Stored(Padded)
        /\ lost' = (lost \/ Len(buf) = room)
    BY <1>1, <1>5
  <2>2. filled # <<>>
    BY <1>3, <1>5
  <2>3. Padded \in Byte /\ Padded[1] = filled[1]
    BY <1>3, <2>2, PaddedByte
  <2>4. /\ filled' \in Seq(Bit) /\ Len(filled') <= Width /\ filled' # <<>>
        /\ Padded = Ones => filled'[1] = 0
    <3>1. CASE Padded = Ones
      <4>1. filled' = Append(<<0>>, b)
        BY <2>1, <3>1 DEF NextFilled
      <4> QED
        BY <4>1 DEF Bit
    <3>2. CASE Padded # Ones
      <4>1. filled' = Append(<<>>, b)
        BY <2>1, <3>2 DEF NextFilled
      <4> QED
        BY <3>2, <4>1 DEF Bit
    <3> QED
      BY <3>1, <3>2
  <2>5. CASE Len(buf) < room
    <3>1. buf' = Append(buf, Padded) /\ lost' = lost
      BY <1>3, <2>1, <2>5 DEF Stored
    <3>2. buf # <<>> /\ buf[Len(buf)] = Ones => Padded[1] = 0
      BY <1>2, <2>3, <2>5 DEF BioInv
    <3>3. \A i \in 1 .. Len(buf) - 1 : buf[i] = Ones => buf[i + 1][1] = 0
      BY DEF BioInv, NoMarker
    <3>4. /\ buf' \in Seq(Byte)
          /\ Len(buf') = Len(buf) + 1
          /\ buf'[Len(buf')] = Padded
          /\ \A i \in 1 .. Len(buf') - 1 : buf'[i] = Ones => buf'[i + 1][1] = 0
      BY <1>3, <2>3, <3>1, <3>2, <3>3, AppendByte
    <3>5. TypeOK'
      BY <1>1, <1>2, <1>3, <2>4, <2>5, <3>1, <3>4 DEF BioInv, TypeOK
    <3>6. NoMarker' /\ NoSilentLoss'
      BY <1>2, <3>4, Bytes DEF NoMarker, NoSilentLoss, Ones
    <3>7. ~lost'
      BY <1>2, <2>5, <3>1 DEF BioInv
    <3> QED
      BY <1>2, <2>4, <3>4, <3>5, <3>6, <3>7 DEF BioInv, Ones
  <2>6. CASE ~(Len(buf) < room)
    <3>1. buf' = buf /\ Len(buf) = room
      BY <1>3, <2>1, <2>6 DEF Stored
    <3>2. lost' \in BOOLEAN
      BY <1>3, <2>1
    <3>3. TypeOK'
      BY <1>1, <1>2, <1>3, <2>4, <3>1, <3>2 DEF BioInv, TypeOK
    <3> QED
      BY <1>2, <3>1, <3>3 DEF BioInv, NoMarker, NoSilentLoss
  <2> QED
    BY <2>5, <2>6
<1> QED
  BY <1>4, <1>5

LEMMA FlushBio == BioInv /\ Flush => BioInv'
<1> SUFFICES ASSUME BioInv, Flush
             PROVE  BioInv'
  OBVIOUS
<1> USE BitIOAssumption
<1>1. /\ pc = "write" /\ rpos = 0 /\ limit = 0
      /\ UNCHANGED <<room, written, lost, rpos, rbyte, rct, read>>
  BY DEF BioInv, Flush
<1>2. /\ room \in Nat /\ room \in Rooms
      /\ buf \in Seq(Byte) /\ Len(buf) <= room
      /\ filled \in Seq(Bit) /\ Len(filled) <= Width
  BY DEF BioInv, TypeOK
<1>3. CASE FlushFails
  <2>1. pc' = "overflow" /\ UNCHANGED <<buf, filled, limit>>
    BY <1>3 DEF Flush
  <2>2. TypeOK'
    BY <1>1, <2>1 DEF BioInv, TypeOK
  <2> QED
    BY <1>1, <2>1, <2>2 DEF BioInv, NoMarker, NoSilentLoss
<1>4. CASE ~FlushFails
  <2>1. /\ buf' = IF Padded = Ones THEN buf \o <<Ones, Zeros>> ELSE Append(buf, Padded)
        /\ filled' = IF Padded = Ones THEN <<>> ELSE NextFilled(Padded)
        /\ limit' \in 0 .. Len(buf')
        /\ pc' = "read"
    BY <1>4 DEF Flush
  <2>2. Len(buf) < room /\ (Padded = Ones => Len(buf) + 2 <= room) /\ ~lost
    BY <1>1, <1>2, <1>4 DEF FlushFails, BioInv
  <2>3. /\ Padded \in Byte
        /\ buf # <<>> /\ buf[Len(buf)] = Ones => Padded[1] = 0
    BY <1>1, <1>2, <2>2, PaddedByte DEF BioInv
  <2>4. \A i \in 1 .. Len(buf) - 1 : buf[i] = Ones => buf[i + 1][1] = 0
    BY DEF BioInv, NoMarker
  <2> DEFINE one == Append(buf, Padded)
  <2>5. /\ one \in Seq(Byte) /\ Len(one) = Len(buf) + 1 /\ one[Len(one)] = Padded
        /\ \A i \in 1 .. Len(one) - 1 : one[i] = Ones => one[i + 1][1] = 0
    BY <1>2, <2>3, <2>4, AppendByte
  <2>6. /\ buf' \in Seq(Byte) /\ Len(buf') <= room /\ Len(buf') > 0
        /\ buf'[Len(buf')] # Ones
        /\ \A i \in 1 .. Len(buf') - 1 : buf'[i] = Ones => buf'[i + 1][1] = 0
    <3>1. CASE Padded = Ones
      <4> DEFINE two == Append(one, Zeros)
      <4>1. buf' = two
        BY <1>2, <2>1, <3>1, Bytes
      <4>2. /\ two \in Seq(Byte) /\ Len(two) = Len(one) + 1 /\ two[Len(one) + 1] = Zeros
            /\ \A i \in 1 .. Len(two) - 1 : two[i] = Ones => two[i + 1][1] = 0
        <5> HIDE DEF one
        <5> QED
          BY <2>5, Bytes, AppendByte
      <4> HIDE DEF two, one
      <4> QED
        BY <1>2, <2>2, <2>5, <3>1, <4>1, <4>2, Bytes
    <3>2. CASE Padded # Ones
      <4>1. buf' = one
        BY <2>1, <3>2
      <4> HIDE DEF one
      <4> QED
        BY <1>2, <2>2, <2>5, <3>2, <4>1
    <3> QED
      BY <3>1, <3>2
  <2>7. filled' = <<>> \/ filled' = <<0>>
    BY <2>1 DEF NextFilled
  <2>8. filled' \in Seq(Bit) /\ Len(filled') <= Width
    <3>1. CASE filled' = <<>>
      BY <3>1
    <3>2. CASE filled' = <<0>>
      <4>1. <<0>> \in Seq(Bit) /\ Len(<<0>>) = 1
        BY DEF Bit
      <4> QED
        BY <3>2, <4>1
    <3> QED
      BY <2>7, <3>1, <3>2
  <2>9. TypeOK'
    BY <1>1, <1>2, <2>1, <2>6, <2>8 DEF BioInv, TypeOK
  <2>10. NoMarker' /\ NoSilentLoss'
    BY <1>1, <2>1, <2>2, <2>6 DEF NoMarker, NoSilentLoss
  <2> QED
    BY <2>1, <2>9, <2>10 DEF BioInv
<1> QED
  BY <1>3, <1>4

\* The reader leaves the header as it is.
LEMMA ReaderBio ==
    ASSUME BioInv, pc = "read", pc' \in {"read", "aligned", "cut"},
           UNCHANGED <<writer, limit>>, TypeOK'
    PROVE  BioInv'
BY DEF BioInv, NoMarker, NoSilentLoss, writer

\* bytein gives a byte, and stays inside what the reader was given.
LEMMA ByteInByte ==
    ASSUME TypeOK
    PROVE  /\ ByteIn \in Byte
           /\ rpos < limit => rpos + 1 <= limit
<1>1. rpos < limit => rpos + 1 \in 1 .. Len(buf)
  BY DEF TypeOK
<1> QED
  BY <1>1, Bytes DEF TypeOK, ByteIn

\* The bit that ct points at is one of the byte's.
LEMMA BitIndex == \A n \in 0 .. Width - 1 : Width - n \in 1 .. Width
BY BitIOAssumption

LEMMA GetBitBio == BioInv /\ GetBit => BioInv'
<1> SUFFICES ASSUME BioInv, GetBit
             PROVE  BioInv'
  OBVIOUS
<1> USE BitIOAssumption
<1>1. TypeOK /\ pc = "read" /\ UNCHANGED <<writer, limit, pc>>
  BY DEF BioInv, GetBit
<1>2. /\ rbyte' \in Byte
      /\ rpos' \in Nat /\ rpos' <= limit
      /\ rct' \in 0 .. Width - 1
  <2>1. CASE rct = 0
    <3>1. /\ rbyte' = ByteIn
          /\ rpos' = IF rpos < limit THEN rpos + 1 ELSE rpos
          /\ rct' = CtAfter(rbyte) - 1
      BY <2>1 DEF GetBit
    <3>2. CtAfter(rbyte) \in 1 .. Width
      BY DEF CtAfter
    <3>3. rct' \in 0 .. Width - 1
      BY <3>1, <3>2
    <3>4. rpos \in Nat /\ limit \in Nat /\ rpos <= limit
      BY <1>1 DEF TypeOK
    <3> QED
      BY <1>1, <3>1, <3>3, <3>4, ByteInByte
  <2>2. CASE rct # 0
    <3>1. rct' = rct - 1 /\ UNCHANGED <<rbyte, rpos>>
      BY <2>2 DEF GetBit
    <3> QED
      BY <1>1, <2>2, <3>1 DEF TypeOK
  <2> QED
    BY <2>1, <2>2
<1>3. Width - rct' \in 1 .. Width
  BY <1>2, BitIndex
<1>4. read' = Append(read, rbyte'[Width - rct'])
  BY DEF GetBit
<1>5. read' \in Seq(Bit)
  BY <1>1, <1>2, <1>3, <1>4 DEF TypeOK, Byte
<1>6. rct' \in 0 .. Width
  BY <1>2
<1>7. TypeOK'
  BY <1>1, <1>2, <1>5, <1>6 DEF TypeOK, writer
<1> QED
  BY <1>1, <1>7, ReaderBio

LEMMA InAlignBio == BioInv /\ InAlign => BioInv'
<1> SUFFICES ASSUME BioInv, InAlign
             PROVE  BioInv'
  OBVIOUS
<1> USE BitIOAssumption
<1>1. TypeOK /\ pc = "read" /\ UNCHANGED <<writer, limit, read>>
  BY DEF BioInv, InAlign
<1>2. /\ rbyte' \in Byte
      /\ rpos' \in Nat /\ rpos' <= limit
      /\ rct' \in 0 .. Width
      /\ pc' \in {"aligned", "cut"}
  <2>1. CASE rbyte = Ones
    <3>1. /\ rbyte' = ByteIn
          /\ rpos' = IF rpos < limit THEN rpos + 1 ELSE rpos
          /\ pc' = IF rpos < limit THEN "aligned" ELSE "cut"
          /\ rct' = IF rpos < limit THEN 0 ELSE CtAfter(rbyte)
      BY <2>1 DEF InAlign
    <3>2. CtAfter(rbyte) \in 0 .. Width
      BY DEF CtAfter
    <3>3. rpos \in Nat /\ limit \in Nat /\ rpos <= limit
      BY <1>1 DEF TypeOK
    <3> QED
      BY <1>1, <3>1, <3>2, <3>3, ByteInByte
  <2>2. CASE rbyte # Ones
    <3>1. pc' = "aligned" /\ rct' = 0 /\ UNCHANGED <<rbyte, rpos>>
      BY <2>2 DEF InAlign
    <3> QED
      BY <1>1, <3>1 DEF TypeOK
  <2> QED
    BY <2>1, <2>2
<1>3. TypeOK'
  BY <1>1, <1>2 DEF TypeOK, writer
<1> QED
  BY <1>1, <1>2, <1>3, ReaderBio

-------------------------------------------------------------------------------
(* The theorems. *)

LEMMA BioInvariant == Spec => []BioInv
<1>1. BioInv /\ UNCHANGED vars => BioInv'
  BY DEF BioInv, TypeOK, NoMarker, NoSilentLoss, vars, writer, reader
<1>2. BioInv /\ [Next]_vars => BioInv'
  BY <1>1, PutBitBio, FlushBio, GetBitBio, InAlignBio DEF Next
<1> QED
  BY InitBio, <1>2, PTL DEF Spec

\* The variables keep their types: the writer never leaves its buffer, and the
\* reader never leaves what it was given (bio.go:44 and 61).
THEOREM BioTypes == Spec => []TypeOK
<1>1. BioInv => TypeOK
  BY DEF BioInv
<1> QED
  BY <1>1, BioInvariant, PTL

\* No header holds a marker, whatever its bits (byteout and Flush, bio.go:44
\* and 117).
THEOREM HeadersHoldNoMarker == Spec => []NoMarker
<1>1. BioInv => NoMarker
  BY DEF BioInv
<1> QED
  BY <1>1, BioInvariant, PTL

\* A header that has lost a byte is never taken for a whole one, whatever the size
\* of the buffer (PutBit and Flush, bio.go:78 and 117).
THEOREM NoLossUnreported == Spec => []NoSilentLoss
<1>1. BioInv => NoSilentLoss
  BY DEF BioInv
<1> QED
  BY <1>1, BioInvariant, PTL
-------------------------------------------------------------------------------
(* What a header's bytes hold of its bits: the strengthening for ReadsBack and *)
(* Aligned.                                                                    *)

\* The stuffed bits in byte k of s.
Skip(s, k) == IF k > 1 /\ s[k - 1] = Ones THEN 1 ELSE 0

\* The bits of data in the first k bytes of s (see DataBits).
DataIn(s, k) == k * Width - Cardinality({i \in 1 .. k - 1 : s[i] = Ones})

\* The place of bit c of byte k among the bits of data.
Place(s, k, c) == DataIn(s, k - 1) + c - Skip(s, k)

\* Every byte of s has the bits of w that belong there.
Holds(w, s) ==
    \A k \in 1 .. Len(s) : \A c \in 1 .. Width :
        c > Skip(s, k) /\ Place(s, k, c) <= Len(w) => w[Place(s, k, c)] = s[k][c]

\* The byte in use, f, has the bits behind those, and all of them.
Rest(w, s, f) ==
    /\ Len(w) = Place(s, Len(s) + 1, Len(f))
    /\ Len(f) >= Skip(s, Len(s) + 1)
    /\ w # <<>> => Len(f) > Skip(s, Len(s) + 1)
    /\ \A c \in 1 .. Len(f) :
          c > Skip(s, Len(s) + 1) => w[Place(s, Len(s) + 1, c)] = f[c]

\* The last bit is in the last byte, or in the one before if that is all ones.
Ends(w, s) ==
    \E e \in 1 .. Len(s) :
        /\ DataIn(s, e - 1) < Len(w) /\ Len(w) <= DataIn(s, e)
        /\ e = Len(s) \/ (e = Len(s) - 1 /\ s[e] = Ones)

\* The reader is at the front, inside the bytes it was given, or behind them.
AtFront == rpos = 0 /\ rct = 0 /\ read = <<>> /\ rbyte = Zeros
Inside ==
    /\ rpos > 0
    /\ rbyte = buf[rpos]
    /\ Len(read) = DataIn(buf, rpos) - rct
    /\ rct < Width - Skip(buf, rpos)
Behind == rpos = limit /\ rbyte = Zeros /\ Len(read) > DataIn(buf, limit)

ReadInv ==
    /\ pc = "write" => AtFront
    /\ pc = "write" /\ ~lost => Holds(written, buf) /\ Rest(written, buf, filled)
    /\ pc \in {"read", "aligned", "cut"} => Holds(written, buf) /\ Ends(written, buf)
    /\ pc = "read" => /\ AtFront \/ Inside \/ Behind
                      /\ Len(read) <= Len(written)
    /\ ReadsBack
    /\ Aligned

-------------------------------------------------------------------------------
(* Lemmas about the bits of data. *)

\* A byte has all its bits but one that is stuffed.
LEMMA DataStep ==
    ASSUME NEW s, NEW k \in Nat
    PROVE  /\ DataIn(s, k) \in Int
           /\ DataIn(s, k + 1) = DataIn(s, k) + Width - Skip(s, k + 1)
           /\ Skip(s, k + 1) \in 0 .. 1
<1> USE BitIOAssumption
<1> DEFINE stuffed(n) == {i \in 1 .. n - 1 : s[i] = Ones}
<1>1. \A n \in Nat : IsFiniteSet(stuffed(n)) /\ Cardinality(stuffed(n)) \in Nat
  <2> TAKE n \in Nat
  <2>1. IsFiniteSet(1 .. n - 1)
    BY FS_Interval
  <2>2. IsFiniteSet(stuffed(n))
    BY <2>1, FS_Subset
  <2> QED
    BY <2>2, FS_CardinalityType
<1>2. k * Width \in Int /\ (k + 1) * Width = k * Width + Width
  OBVIOUS
<1>3. Cardinality(stuffed(k + 1)) = Cardinality(stuffed(k)) + Skip(s, k + 1)
  <2>1. CASE k > 0 /\ s[k] = Ones
    <3>1. stuffed(k + 1) = stuffed(k) \cup {k} /\ k \notin stuffed(k)
      BY <2>1
    <3>2. Skip(s, k + 1) = 1
      BY <2>1 DEF Skip
    <3> HIDE DEF stuffed
    <3> QED
      BY <1>1, <3>1, <3>2, FS_AddElement
  <2>2. CASE ~(k > 0 /\ s[k] = Ones)
    <3>1. stuffed(k + 1) = stuffed(k)
      BY <2>2
    <3>2. Skip(s, k + 1) = 0
      BY <2>2 DEF Skip
    <3> HIDE DEF stuffed
    <3> QED
      BY <1>1, <3>1, <3>2
  <2> QED
    BY <2>1, <2>2
<1>4. DataIn(s, k) = k * Width - Cardinality(stuffed(k))
  BY DEF DataIn
<1>5. DataIn(s, k + 1) = (k + 1) * Width - Cardinality(stuffed(k + 1))
  BY DEF DataIn
<1>6. Skip(s, k + 1) \in 0 .. 1
  BY DEF Skip
<1>7. Cardinality(stuffed(k)) \in Nat
  BY <1>1
<1> HIDE DEF stuffed
<1> QED
  BY <1>2, <1>3, <1>4, <1>5, <1>6, <1>7

\* No byte is without data.
LEMMA DataGrows ==
    ASSUME NEW s, NEW j \in Nat, NEW k \in Nat, j < k
    PROVE  DataIn(s, j) < DataIn(s, k)
<1> USE BitIOAssumption
<1> DEFINE S == {n \in j + 1 .. k : DataIn(s, j) < DataIn(s, n)}
<1>1. j + 1 \in S
  BY DataStep
<1>2. ASSUME NEW n \in j + 1 .. k - 1, n \in S
      PROVE  n + 1 \in S
  <2>1. DataIn(s, n) < DataIn(s, n + 1)
    BY DataStep
  <2>2. DataIn(s, j) \in Int /\ DataIn(s, n) \in Int /\ DataIn(s, n + 1) \in Int
    BY DataStep
  <2> QED
    BY <1>2, <2>1, <2>2
<1>3. j + 1 .. k \subseteq S
  <2> HIDE DEF S
  <2> QED
    BY <1>1, <1>2, IntervalInduction
<1> QED
  BY <1>3

\* What is behind the first k bytes has no say in their bits.
LEMMA DataSame ==
    ASSUME NEW s, NEW t, NEW k \in Nat, \A i \in 1 .. k - 1 : s[i] = t[i]
    PROVE  DataIn(s, k) = DataIn(t, k) /\ Skip(s, k) = Skip(t, k)
<1>1. {i \in 1 .. k - 1 : s[i] = Ones} = {i \in 1 .. k - 1 : t[i] = Ones}
  OBVIOUS
<1> QED
  BY <1>1 DEF DataIn, Skip

LEMMA DataNone == ASSUME NEW s PROVE DataIn(s, 0) = 0 /\ Skip(s, 1) = 0
<1>1. {i \in 1 .. 0 - 1 : s[i] = Ones} = {}
  OBVIOUS
<1> QED
  BY <1>1, FS_EmptySet, BitIOAssumption DEF DataIn, Skip

LEMMA PlaceNext ==
    ASSUME NEW s, NEW k \in Nat, NEW c \in Int
    PROVE  Place(s, k + 1, c) = DataIn(s, k) + c - Skip(s, k + 1)
<1>1. (k + 1) - 1 = k
  OBVIOUS
<1> QED
  BY <1>1 DEF Place

\* The bits of the first Len(s) bytes come first.
LEMMA PlaceBounds ==
    ASSUME NEW s \in Seq(Byte), NEW k \in 1 .. Len(s), NEW c \in 1 .. Width, c > Skip(s, k)
    PROVE  Place(s, k, c) \in 1 .. DataIn(s, Len(s))
<1> USE BitIOAssumption
<1>1. k - 1 \in Nat /\ k - 1 + 1 = k
  OBVIOUS
<1>2. /\ DataIn(s, k - 1) \in Int /\ DataIn(s, k) = DataIn(s, k - 1) + Width - Skip(s, k)
      /\ Skip(s, k) \in 0 .. 1
  BY <1>1, DataStep
<1>3. DataIn(s, k) <= DataIn(s, Len(s)) /\ DataIn(s, Len(s)) \in Int
  <2>1. k \in Nat /\ Len(s) \in Nat
    OBVIOUS
  <2>2. DataIn(s, k) \in Int /\ DataIn(s, Len(s)) \in Int
    BY <2>1, DataStep
  <2> QED
    BY <2>1, <2>2, DataGrows
<1>4. DataIn(s, k - 1) >= 0
  <2>1. CASE k = 1
    BY <2>1, DataNone
  <2>2. CASE k # 1
    BY <1>1, <1>2, <2>2, DataGrows, DataNone
  <2> QED
    BY <2>1, <2>2
<1> QED
  BY <1>2, <1>3, <1>4 DEF Place

\* A byte more, with the bits that belong in it.
LEMMA AppendHolds ==
    ASSUME NEW s \in Seq(Byte), NEW w \in Seq(Bit), NEW x \in Byte, Holds(w, s),
           \A c \in 1 .. Width :
               LET p == Place(s, Len(s) + 1, c)
               IN  c > Skip(s, Len(s) + 1) /\ p <= Len(w) => w[p] = x[c]
    PROVE  Holds(w, Append(s, x))
<1> DEFINE t == Append(s, x)
<1>1. t \in Seq(Byte) /\ Len(t) = Len(s) + 1 /\ t[Len(s) + 1] = x
      /\ \A i \in 1 .. Len(s) : t[i] = s[i]
  OBVIOUS
<1>2. ASSUME NEW k \in 1 .. Len(t), NEW c \in 1 .. Width,
             c > Skip(t, k), Place(t, k, c) <= Len(w)
      PROVE  w[Place(t, k, c)] = t[k][c]
  <2>1. k \in Nat /\ k - 1 \in Nat /\ \A i \in 1 .. k - 1 : t[i] = s[i]
    BY <1>1
  <2>2. Skip(t, k) = Skip(s, k) /\ Place(t, k, c) = Place(s, k, c)
    <3> HIDE DEF t
    <3>1. DataIn(t, k - 1) = DataIn(s, k - 1)
      BY <2>1, DataSame
    <3>2. Skip(t, k) = Skip(s, k)
      BY <2>1, DataSame
    <3> QED
      BY <3>1, <3>2 DEF Place
  <2>3. CASE k = Len(s) + 1
    <3> HIDE DEF t
    <3> QED
      BY <1>1, <1>2, <2>2, <2>3
  <2>4. CASE k # Len(s) + 1
    <3>1. k \in 1 .. Len(s) /\ t[k] = s[k]
      BY <1>1, <2>4
    <3> HIDE DEF t
    <3> QED
      BY <1>2, <2>2, <3>1 DEF Holds
  <2> QED
    BY <2>3, <2>4
<1> HIDE DEF t
<1> QED
  BY <1>2 DEF Holds, t

\* A bit more, when the bytes are full.
LEMMA PutHolds ==
    ASSUME NEW s \in Seq(Byte), NEW w \in Seq(Bit), NEW b \in Bit, Holds(w, s),
           Len(w) >= DataIn(s, Len(s))
    PROVE  Holds(Append(w, b), s)
<1> SUFFICES ASSUME NEW k \in 1 .. Len(s), NEW c \in 1 .. Width, c > Skip(s, k)
             PROVE  Append(w, b)[Place(s, k, c)] = s[k][c]
  BY DEF Holds
<1>1. Place(s, k, c) \in 1 .. DataIn(s, Len(s)) /\ DataIn(s, Len(s)) \in Int
  BY PlaceBounds, DataStep
<1>2. Place(s, k, c) \in 1 .. Len(w)
  BY <1>1
<1>3. w[Place(s, k, c)] = s[k][c]
  BY <1>2 DEF Holds
<1> QED
  BY <1>2, <1>3

-------------------------------------------------------------------------------
(* One lemma for each action. *)

LEMMA InitRead == Init => ReadInv
<1> SUFFICES ASSUME Init
             PROVE  ReadInv
  OBVIOUS
<1> USE BitIOAssumption
<1>1. buf = <<>> /\ filled = <<>> /\ written = <<>> /\ read = <<>> /\ pc = "write"
  BY DEF Init
<1>2. AtFront
  BY DEF Init, AtFront
<1>3. Len(written) = 0 /\ Len(buf) = 0 /\ Len(filled) = 0 /\ Len(read) = 0
  BY <1>1
<1>4. Holds(written, buf)
  BY <1>3 DEF Holds
<1>5. Rest(written, buf, filled)
  <2>1. Place(buf, 1, 0) = 0 /\ Skip(buf, 1) = 0
    BY DataNone DEF Place
  <2> QED
    BY <1>1, <1>3, <2>1 DEF Rest
<1>6. ReadsBack /\ Aligned
  BY <1>1, <1>3 DEF ReadsBack, Aligned
<1> QED
  BY <1>1, <1>2, <1>4, <1>5, <1>6 DEF ReadInv

\* Behind a header the reader has read nothing: what it has read is right.
LEMMA NothingRead ==
    ASSUME AtFront
    PROVE  ReadsBack /\ (pc \in {"write", "read", "overflow"} => Aligned)
BY DEF AtFront, ReadsBack, Aligned

LEMMA PutBitRead == BioInv /\ ReadInv /\ PutBit => ReadInv'
<1> SUFFICES ASSUME BioInv, ReadInv, PutBit
             PROVE  ReadInv'
  OBVIOUS
<1> USE BitIOAssumption
<1>1. PICK b \in Bit :
        /\ written' = Append(written, b)
        /\ IF Len(filled) < Width
             THEN /\ filled' = Append(filled, b)
                  /\ UNCHANGED <<buf, lost>>
             ELSE /\ filled' = Append(NextFilled(Padded), b)
                  /\ buf' = Stored(Padded)
                  /\ lost' = (lost \/ Len(buf) = room)
  BY DEF PutBit
<1>2. /\ pc = "write" /\ pc' = "write"
      /\ UNCHANGED <<room, limit, rpos, rbyte, rct, read>>
  BY DEF PutBit, reader
<1>3. /\ room \in Nat
      /\ buf \in Seq(Byte) /\ Len(buf) <= room
      /\ filled \in Seq(Bit) /\ Len(filled) <= Width
      /\ written \in Seq(Bit) /\ written' \in Seq(Bit)
      /\ lost \in BOOLEAN
      /\ Len(written') = Len(written) + 1 /\ written'[Len(written) + 1] = b
      /\ \A n \in 1 .. Len(written) : written'[n] = written[n]
  BY <1>1, BitIOAssumption DEF BioInv, TypeOK
<1>4. AtFront' /\ ReadsBack' /\ Aligned'
  <2>1. AtFront'
    BY <1>2 DEF ReadInv, AtFront
  <2> QED
    BY <1>2, <2>1, NothingRead DEF AtFront, ReadsBack, Aligned
<1>5. SUFFICES ASSUME ~lost'
               PROVE  Holds(written', buf') /\ Rest(written', buf', filled')
  BY <1>2, <1>4 DEF ReadInv
<1>6. ~lost
  BY <1>1, <1>5
<1>7. Holds(written, buf) /\ Rest(written, buf, filled)
  BY <1>2, <1>6 DEF ReadInv
<1> DEFINE m == Len(buf)
           d == DataIn(buf, m)
           k == Skip(buf, m + 1)
<1>8. m \in Nat /\ d \in Int /\ k \in 0 .. 1
  <2>1. m \in Nat
    BY <1>3
  <2> HIDE DEF m
  <2> QED
    BY <2>1, DataStep
<1>9. \A c \in Nat : Place(buf, m + 1, c) = d + c - k
  BY <1>8, PlaceNext
<1>10. /\ Len(written) = d + Len(filled) - k
      /\ Len(filled) >= k
      /\ Len(filled) \in Nat
      /\ \A c \in 1 .. Len(filled) : c > k => written[d + c - k] = filled[c]
  <2>1. Len(filled) \in Nat
    BY <1>3
  <2>2. \A c \in 1 .. Len(filled) : c \in Nat
    OBVIOUS
  <2> QED
    BY <1>7, <1>9, <2>1, <2>2 DEF Rest
<1>11. d >= 0
  BY <1>8, DataGrows, DataNone
<1>12. Holds(written', buf)
  <2>1. Len(written) >= DataIn(buf, Len(buf))
    BY <1>8, <1>10
  <2> QED
    BY <1>1, <1>3, <1>7, <2>1, PutHolds
<1>13. CASE Len(filled) < Width
  <2>1. filled' = Append(filled, b) /\ buf' = buf
    BY <1>1, <1>13
  <2>2. /\ Len(filled') = Len(filled) + 1 /\ filled'[Len(filled) + 1] = b
        /\ \A n \in 1 .. Len(filled) : filled'[n] = filled[n]
    BY <1>3, <2>1
  <2> HIDE DEF d, k
  <2>3. ASSUME NEW c \in 1 .. Len(filled'), c > k
        PROVE  written'[d + c - k] = filled'[c]
    <3>1. CASE c = Len(filled) + 1
      <4>1. d + c - k = Len(written) + 1
        BY <1>8, <1>10, <3>1
      <4> QED
        BY <1>3, <2>2, <3>1, <4>1
    <3>2. CASE c # Len(filled) + 1
      <4>1. c \in 1 .. Len(filled)
        BY <1>10, <2>2, <3>2
      <4>2. d + c - k \in 1 .. Len(written)
        BY <1>8, <1>10, <1>11, <2>3, <4>1
      <4>3. written[d + c - k] = filled[c]
        BY <1>10, <2>3, <4>1
      <4> QED
        BY <1>3, <2>2, <4>1, <4>2, <4>3
    <3> QED
      BY <3>1, <3>2
  <2>4. Rest(written', buf, filled')
    <3>1. Len(filled') \in Nat /\ \A c \in 1 .. Len(filled') : c \in Nat
      BY <1>10, <2>2
    <3>2. Len(written') = d + Len(filled') - k
      BY <1>3, <1>8, <1>10, <2>2
    <3>3. Len(filled') > k /\ Len(filled') >= k
      BY <1>8, <1>10, <2>2
    <3> QED
      BY <1>9, <2>3, <3>1, <3>2, <3>3 DEF Rest, k
  <2> QED
    BY <1>12, <2>1, <2>4
<1>14. CASE ~(Len(filled) < Width)
  <2>1. /\ Len(filled) = Width /\ filled # <<>>
        /\ filled' = Append(NextFilled(Padded), b)
        /\ buf' = Stored(Padded) /\ Len(buf) < room
    <3>1. Len(filled) = Width
      BY <1>3, <1>14
    <3>2. filled # <<>>
      BY <3>1
    <3>3. /\ filled' = Append(NextFilled(Padded), b)
          /\ buf' = Stored(Padded)
          /\ lost' = (lost \/ Len(buf) = room)
      BY <1>1, <1>14
    <3>4. Len(buf) # room
      BY <1>5, <3>3
    <3>5. Len(buf) < room
      BY <1>3, <3>4
    <3> QED
      BY <3>1, <3>2, <3>3, <3>5
  <2>2. buf' = Append(buf, Padded) /\ Padded \in Byte
    BY <1>3, <2>1, PaddedByte DEF Stored
  <2>3. \A c \in 1 .. Width : Padded[c] = filled[c]
    BY <2>1 DEF Padded
  <2>4. Holds(written', buf')
    <3>1. ASSUME NEW c \in 1 .. Width, c > k
          PROVE  written'[d + c - k] = Padded[c]
      <4> HIDE DEF d, k
      <4>1. d + c - k \in 1 .. Len(written)
        BY <1>8, <1>10, <1>11, <2>1, <3>1
      <4>2. written[d + c - k] = filled[c]
        BY <1>10, <2>1, <3>1
      <4> QED
        BY <1>3, <2>3, <4>1, <4>2
    <3>2. \A c \in 1 .. Width : Place(buf, m + 1, c) = d + c - k
      BY <1>9
    <3> QED
      BY <1>3, <1>12, <2>2, <3>1, <3>2, AppendHolds
  <2>5. /\ buf' \in Seq(Byte) /\ Len(buf') = m + 1 /\ buf'[m + 1] = Padded
        /\ \A i \in 1 .. m : buf'[i] = buf[i]
    BY <1>3, <2>2
  <2> DEFINE l == m + 1
             dd == DataIn(buf', l)
             kk == Skip(buf', l + 1)
  <2>6. l \in Nat /\ dd \in Int /\ kk = IF Padded = Ones THEN 1 ELSE 0
    <3>1. l \in Nat
      BY <1>8
    <3>2. dd \in Int
      BY <3>1, DataStep
    <3>3. l + 1 > 1 /\ (l + 1) - 1 = l /\ buf'[l] = Padded
      BY <1>8, <2>5
    <3> HIDE DEF l
    <3> QED
      BY <3>1, <3>2, <3>3 DEF Skip
  <2>7. Len(written) = dd
    <3>1. \A i \in 1 .. l - 1 : buf'[i] = buf[i]
      BY <2>5
    <3>2. dd = DataIn(buf, l)
      BY <2>6, <3>1, DataSame
    <3>3. DataIn(buf, m + 1) = d + Width - k
      BY <1>8, DataStep
    <3> HIDE DEF d, k, dd
    <3> QED
      BY <1>10, <2>1, <3>2, <3>3
  <2>8. Len(filled') = kk + 1 /\ filled'[kk + 1] = b
    <3>1. CASE Padded = Ones
      <4>1. filled' = Append(<<0>>, b)
        BY <2>1, <3>1 DEF NextFilled
      <4>2. kk = 1
        BY <2>6, <3>1
      <4> HIDE DEF kk
      <4> QED
        BY <4>1, <4>2
    <3>2. CASE Padded # Ones
      <4>1. filled' = Append(<<>>, b)
        BY <2>1, <3>2 DEF NextFilled
      <4>2. kk = 0
        BY <2>6, <3>2
      <4> HIDE DEF kk
      <4> QED
        BY <4>1, <4>2
    <3> QED
      BY <3>1, <3>2
  <2>9. \A c \in Nat : Place(buf', l + 1, c) = dd + c - kk
    BY <2>6, PlaceNext
  <2>10. Rest(written', buf', filled')
    <3>1. kk \in 0 .. 1
      BY <2>6
    <3> HIDE DEF dd, kk
    <3>2. Len(filled') \in Nat /\ \A c \in 1 .. Len(filled') : c \in Nat
      BY <2>8, <3>1
    <3>3. Len(written') = dd + Len(filled') - kk
      BY <1>3, <2>6, <2>7, <2>8, <3>1
    <3>4. ASSUME NEW c \in 1 .. Len(filled'), c > kk
          PROVE  written'[dd + c - kk] = filled'[c]
      <4>1. c = kk + 1
        BY <2>8, <3>1, <3>4
      <4>2. dd + c - kk = Len(written) + 1
        BY <2>6, <2>7, <3>1, <4>1
      <4> QED
        BY <1>3, <2>8, <4>1, <4>2
    <3>5. Len(filled') > kk /\ Len(filled') >= kk
      BY <2>8, <3>1
    <3>6. Len(buf') + 1 = l + 1
      BY <2>5
    <3> HIDE DEF l
    <3> QED
      BY <2>9, <3>2, <3>3, <3>4, <3>5, <3>6 DEF Rest, kk
  <2> QED
    BY <2>4, <2>10
<1> QED
  BY <1>13, <1>14

LEMMA FlushRead == BioInv /\ ReadInv /\ Flush => ReadInv'
<1> SUFFICES ASSUME BioInv, ReadInv, Flush
             PROVE  ReadInv'
  OBVIOUS
<1> USE BitIOAssumption
<1>1. /\ pc = "write" /\ written # <<>>
      /\ UNCHANGED <<room, written, lost, rpos, rbyte, rct, read>>
  BY DEF Flush
<1>2. AtFront' /\ ReadsBack' /\ Len(read') <= Len(written')
  <2>1. AtFront'
    BY <1>1 DEF ReadInv, AtFront
  <2>2. written' \in Seq(Bit) /\ read' = <<>>
    BY <1>1, <2>1 DEF BioInv, TypeOK, AtFront
  <2> QED
    BY <2>1, <2>2 DEF ReadsBack
<1>3. CASE FlushFails
  <2>1. pc' = "overflow" /\ UNCHANGED <<buf, filled, limit>>
    BY <1>3 DEF Flush
  <2> QED
    BY <1>2, <2>1 DEF ReadInv, Aligned
<1>4. CASE ~FlushFails
  <2>1. /\ buf' = IF Padded = Ones THEN buf \o <<Ones, Zeros>> ELSE Append(buf, Padded)
        /\ pc' = "read"
    BY <1>4 DEF Flush
  <2>2. SUFFICES Holds(written, buf') /\ Ends(written, buf')
    BY <1>1, <1>2, <2>1 DEF ReadInv, Aligned
  <2>3. /\ buf \in Seq(Byte) /\ filled \in Seq(Bit) /\ Len(filled) <= Width
        /\ written \in Seq(Bit) /\ ~lost
    BY <1>1, <1>4 DEF BioInv, TypeOK, FlushFails
  <2>4. Holds(written, buf) /\ Rest(written, buf, filled)
    BY <1>1, <2>3 DEF ReadInv
  <2> DEFINE m == Len(buf)
             d == DataIn(buf, m)
             k == Skip(buf, m + 1)
             one == Append(buf, Padded)
             dd == DataIn(one, m + 1)
  <2>5. m \in Nat /\ d \in Int /\ k \in 0 .. 1 /\ DataIn(buf, m + 1) = d + Width - k
    <3>1. m \in Nat
      BY <2>3
    <3> HIDE DEF m
    <3> QED
      BY <3>1, DataStep
  <2>6. \A c \in Nat : Place(buf, m + 1, c) = d + c - k
    BY <2>5, PlaceNext
  <2>7. /\ Len(filled) \in Nat /\ Len(filled) > k
        /\ Len(written) = d + Len(filled) - k
        /\ \A c \in 1 .. Len(filled) : c > k => written[d + c - k] = filled[c]
    <3>1. Len(filled) \in Nat
      BY <2>3
    <3>2. \A c \in 1 .. Len(filled) : c \in Nat
      OBVIOUS
    <3> QED
      BY <1>1, <2>4, <2>6, <3>1, <3>2 DEF Rest
  <2>8. Padded \in Byte /\ \A c \in 1 .. Len(filled) : Padded[c] = filled[c]
    <3>1. filled # <<>>
      BY <2>5, <2>7
    <3>2. \A c \in 1 .. Len(filled) : c \in 1 .. Width
      BY <2>3, <2>7
    <3> QED
      BY <2>3, <3>1, <3>2, PaddedByte DEF Padded
  <2>9. /\ one \in Seq(Byte) /\ Len(one) = m + 1 /\ one[m + 1] = Padded
        /\ \A i \in 1 .. m : one[i] = buf[i]
    BY <2>3, <2>8
  <2>10. Holds(written, one)
    <3>1. ASSUME NEW c \in 1 .. Width, c > k, d + c - k <= Len(written)
          PROVE  written[d + c - k] = Padded[c]
      <4> HIDE DEF d, k
      <4>1. c \in 1 .. Len(filled)
        BY <2>5, <2>7, <3>1
      <4> QED
        BY <2>7, <2>8, <3>1, <4>1
    <3>2. \A c \in 1 .. Width : Place(buf, m + 1, c) = d + c - k
      BY <2>6
    <3> QED
      BY <2>3, <2>4, <2>8, <3>1, <3>2, AppendHolds
  <2>11. DataIn(one, m) = d /\ dd = d + Width - k
    <3>1. m + 1 \in Nat /\ (\A i \in 1 .. m - 1 : one[i] = buf[i])
          /\ \A i \in 1 .. (m + 1) - 1 : one[i] = buf[i]
      BY <2>5, <2>9
    <3> HIDE DEF one
    <3>2. DataIn(one, m) = d
      BY <2>5, <3>1, DataSame
    <3>3. dd = DataIn(buf, m + 1)
      BY <2>5, <3>1, DataSame
    <3> QED
      BY <2>5, <3>2, <3>3
  <2>12. d < Len(written) /\ Len(written) <= dd
    <3> HIDE DEF d, k, dd
    <3> QED
      BY <2>3, <2>5, <2>7, <2>11
  <2>13. CASE Padded # Ones
    <3>1. buf' = one
      BY <2>1, <2>13
    <3>2. (m + 1) - 1 = m /\ m + 1 \in 1 .. Len(one)
      BY <2>5, <2>9
    <3> HIDE DEF one
    <3>3. Ends(written, one)
      BY <2>9, <2>11, <2>12, <3>2 DEF Ends
    <3> QED
      BY <2>10, <3>1, <3>3
  <2>14. CASE Padded = Ones
    <3> DEFINE two == Append(one, Zeros)
    <3>1. buf' = two
      BY <2>1, <2>3, <2>14, Bytes
    <3> HIDE DEF one
    <3>2. /\ Len(two) = m + 2 /\ two[m + 1] = Ones
          /\ \A i \in 1 .. m + 1 : two[i] = one[i]
      BY <2>5, <2>9, <2>14, Bytes
    <3>3. Skip(one, m + 2) = 1
      <4>1. (m + 2) - 1 = m + 1 /\ m + 2 > 1
        BY <2>5
      <4> QED
        BY <2>9, <2>14, <4>1 DEF Skip
    <3>4. \A c \in 1 .. Width : Place(one, m + 2, c) = dd + c - 1
      <4>1. m + 1 \in Nat /\ (m + 1) + 1 = m + 2
        BY <2>5
      <4>2. \A c \in 1 .. Width : c \in Int
        OBVIOUS
      <4> QED
        BY <3>3, <4>1, <4>2, PlaceNext
    <3>5. Holds(written, two)
      <4>1. ASSUME NEW c \in 1 .. Width, c > Skip(one, m + 2)
            PROVE  ~(Place(one, m + 2, c) <= Len(written))
        <5>1. dd \in Int /\ Len(written) \in Nat
          BY <2>3, <2>5, <2>11
        <5>2. Place(one, m + 2, c) = dd + c - 1 /\ c > 1
          BY <3>3, <3>4, <4>1
        <5> HIDE DEF dd
        <5> QED
          BY <2>12, <5>1, <5>2
      <4>2. Len(one) + 1 = m + 2
        BY <2>5, <2>9
      <4> QED
        BY <2>3, <2>9, <2>10, <4>1, <4>2, Bytes, AppendHolds
    <3>6. DataIn(two, m) = d /\ DataIn(two, m + 1) = dd
      <4>1. m + 1 \in Nat /\ (\A i \in 1 .. m - 1 : two[i] = one[i])
            /\ \A i \in 1 .. (m + 1) - 1 : two[i] = one[i]
        BY <2>5, <3>2
      <4> HIDE DEF two
      <4> QED
        BY <2>5, <2>11, <4>1, DataSame
    <3>7. (m + 1) - 1 = m /\ m + 1 \in 1 .. Len(two) /\ m + 1 = Len(two) - 1
      BY <2>5, <3>2
    <3> HIDE DEF two
    <3>8. Ends(written, two)
      BY <2>12, <3>2, <3>6, <3>7 DEF Ends
    <3> QED
      BY <3>1, <3>5, <3>8
  <2> QED
    BY <2>13, <2>14
<1> QED
  BY <1>3, <1>4


\* Where the reader stands after a bit: it enters a byte, goes on in it, or is
\* behind the bytes it was given.
LEMMA ReaderStands ==
    ASSUME TypeOK, AtFront \/ Inside \/ Behind, GetBit
    PROVE  Inside' \/ Behind'
<1> USE BitIOAssumption
<1>1. /\ rpos \in Nat /\ limit \in Nat /\ rpos <= limit /\ rct \in 0 .. Width
      /\ Len(read) \in Nat /\ Len(read') = Len(read) + 1
      /\ buf' = buf /\ limit' = limit
  BY DEF TypeOK, GetBit, writer
<1> DEFINE d == DataIn(buf, rpos)
           k == Skip(buf, rpos + 1)
<1>2. d \in Int /\ k \in 0 .. 1 /\ DataIn(buf, rpos + 1) = d + Width - k
  BY <1>1, DataStep
<1>3. Zeros # Ones
  BY Bytes
<1>4. CASE rct = 0
  <2>1. /\ rbyte' = ByteIn
        /\ rpos' = IF rpos < limit THEN rpos + 1 ELSE rpos
        /\ rct' = CtAfter(rbyte) - 1
    BY <1>4 DEF GetBit
  <2>2. CASE rpos < limit
    <3>1. rpos' = rpos + 1 /\ rbyte' = buf[rpos + 1]
      BY <2>1, <2>2 DEF ByteIn
    <3>2. Len(read) = d /\ CtAfter(rbyte) = Width - k
      <4>1. CASE AtFront
        <5>1. rpos = 0 /\ rbyte # Ones /\ Len(read) = 0
          BY <1>3, <4>1 DEF AtFront
        <5>2. d = 0 /\ k = 0
          BY <5>1, DataNone
        <5> QED
          BY <5>1, <5>2 DEF CtAfter
      <4>2. CASE Inside
        <5>1. rpos > 0 /\ rbyte = buf[rpos] /\ Len(read) = d
          BY <1>2, <1>4, <4>2 DEF Inside
        <5>2. k = IF rbyte = Ones THEN 1 ELSE 0
          <6>1. rpos + 1 > 1 /\ (rpos + 1) - 1 = rpos
            BY <1>1, <5>1
          <6> QED
            BY <5>1, <6>1 DEF Skip
        <5> QED
          BY <5>1, <5>2 DEF CtAfter
      <4>3. ~Behind
        BY <1>1, <2>2 DEF Behind
      <4> QED
        BY <4>1, <4>2, <4>3
    <3>3. Len(read') = DataIn(buf, rpos + 1) - rct' /\ rct' < Width - k
      <4> HIDE DEF d, k
      <4> QED
        BY <1>1, <1>2, <2>1, <3>2
    <3> QED
      BY <1>1, <3>1, <3>3 DEF Inside
  <2>3. CASE ~(rpos < limit)
    <3>1. rpos = limit /\ rpos' = limit /\ rbyte' = Zeros
      BY <1>1, <2>1, <2>3 DEF ByteIn
    <3>2. Len(read) >= d
      <4>1. CASE AtFront
        BY <1>1, <3>1, <4>1, DataNone DEF AtFront
      <4>2. CASE Inside
        <5>1. Len(read) = d - 0
          BY <1>4, <4>2 DEF Inside
        <5> QED
          BY <1>2, <5>1
      <4>3. CASE Behind
        BY <3>1, <4>3, <1>2, <1>1 DEF Behind
      <4> QED
        BY <4>1, <4>2, <4>3
    <3>3. Len(read') > DataIn(buf, limit)
      <4>1. DataIn(buf, limit) = d
        BY <3>1
      <4> HIDE DEF d
      <4> QED
        BY <1>1, <1>2, <3>2, <4>1
    <3> QED
      BY <1>1, <3>1, <3>3 DEF Behind
  <2> QED
    BY <2>2, <2>3
<1>5. CASE rct # 0
  <2>1. rct' = rct - 1 /\ rbyte' = rbyte /\ rpos' = rpos
    BY <1>5 DEF GetBit
  <2>2. ~AtFront
    BY <1>5 DEF AtFront
  <2>3. CASE Inside
    <3>1. /\ rpos > 0 /\ rbyte = buf[rpos]
          /\ Len(read) = d - rct /\ rct < Width - Skip(buf, rpos)
      BY <2>3 DEF Inside
    <3>2. Skip(buf, rpos) \in 0 .. 1
      BY DEF Skip
    <3>3. Len(read') = d - rct' /\ rct' < Width - Skip(buf, rpos)
      <4> HIDE DEF d
      <4> QED
        BY <1>1, <1>2, <2>1, <3>1, <3>2
    <3> QED
      BY <1>1, <2>1, <3>1, <3>3 DEF Inside
  <2>4. CASE Behind
    <3>1. rpos = limit /\ rbyte = Zeros /\ Len(read) > DataIn(buf, limit)
      BY <2>4 DEF Behind
    <3>2. DataIn(buf, limit) \in Int
      BY <1>1, DataStep
    <3>3. Len(read') > DataIn(buf, limit)
      BY <1>1, <3>1, <3>2
    <3> QED
      BY <1>1, <2>1, <3>1, <3>3 DEF Behind
  <2> QED
    BY <2>2, <2>3, <2>4
<1> QED
  BY <1>4, <1>5

\* The properties count the bits of data as the invariant does.
LEMMA DataBitsIn == \A k : DataBits(k) = DataIn(buf, k)
BY DEF DataBits, DataIn

\* getbit takes one of the byte's bits.
LEMMA BitTaken ==
    ASSUME TypeOK, GetBit
    PROVE  rct' \in 0 .. Width - 1 /\ Width - rct' \in 1 .. Width
<1> USE BitIOAssumption
<1>1. rct' \in 0 .. Width - 1
  <2>1. CASE rct = 0
    <3>1. rct' = CtAfter(rbyte) - 1 /\ CtAfter(rbyte) \in 1 .. Width
      BY <2>1 DEF GetBit, CtAfter
    <3> QED
      BY <3>1
  <2>2. CASE rct # 0
    BY <2>2 DEF GetBit, TypeOK
  <2> QED
    BY <2>1, <2>2
<1> QED
  BY <1>1, BitIndex

LEMMA GetBitRead == BioInv /\ ReadInv /\ GetBit => ReadInv'
<1> SUFFICES ASSUME BioInv, ReadInv, GetBit
             PROVE  ReadInv'
  OBVIOUS
<1> USE BitIOAssumption
<1>1. /\ pc = "read" /\ pc' = "read" /\ Len(read) < Len(written)
      /\ UNCHANGED <<buf, written, limit>>
      /\ read' = Append(read, rbyte'[Width - rct'])
  BY DEF GetBit, writer
<1>2. TypeOK /\ TypeOK'
  BY GetBitBio DEF BioInv
<1>3. /\ buf \in Seq(Byte) /\ written \in Seq(Bit) /\ read \in Seq(Bit)
      /\ limit \in Nat /\ limit <= Len(buf)
      /\ rpos' \in Nat /\ rpos' <= limit /\ rct' \in 0 .. Width
  BY <1>1, <1>2 DEF TypeOK
<1>4. /\ Len(read) \in Nat /\ Len(written) \in Nat /\ Len(read') = Len(read) + 1
      /\ read'[Len(read) + 1] = rbyte'[Width - rct']
      /\ \A i \in 1 .. Len(read) : read'[i] = read[i]
  BY <1>1, <1>3
<1>5. Holds(written, buf) /\ Ends(written, buf) /\ ReadsBack /\ Aligned
  BY <1>1 DEF ReadInv
<1> DEFINE d == DataIn(buf, limit)
           n == Len(read) + 1
<1>6. Inside' \/ Behind'
  <2>1. AtFront \/ Inside \/ Behind
    BY <1>1 DEF ReadInv
  <2> QED
    BY <1>2, <2>1, DataNone, ReaderStands
<1>7. d \in Int
  BY <1>3, DataStep
<1>8. read'[n] = IF n <= d THEN written[n] ELSE 0
  <2>1. CASE Inside'
    <3> DEFINE c == Width - rct'
               k == Skip(buf, rpos')
               dd == DataIn(buf, rpos')
    <3>1. /\ rpos' > 0 /\ rbyte' = buf[rpos']
          /\ n = dd - rct' /\ rct' < Width - k
      BY <1>1, <1>4, <2>1 DEF Inside
    <3>2. /\ rpos' - 1 \in Nat /\ (rpos' - 1) + 1 = rpos' /\ rpos' \in Nat
          /\ rpos' \in 1 .. Len(buf)
      <4>1. Len(buf) \in Nat
        BY <1>3
      <4>2. rpos' \in Nat /\ rpos' <= Len(buf) /\ rpos' >= 1
        BY <1>3, <3>1, <4>1
      <4>3. \A r, l \in Nat : 1 <= r /\ r <= l
                               => r - 1 \in Nat /\ (r - 1) + 1 = r /\ r \in 1 .. l
        OBVIOUS
      <4> QED
        BY <4>1, <4>2, <4>3
    <3>3. DataIn(buf, rpos' - 1) \in Int /\ dd = DataIn(buf, rpos' - 1) + Width - k /\ k \in 0 .. 1
      BY <3>2, DataStep
    <3>4. c \in 1 .. Width /\ c > k /\ Place(buf, rpos', c) = n
      <4> DEFINE e == DataIn(buf, rpos' - 1)
      <4>1. Place(buf, rpos', c) = e + c - k
        BY DEF Place
      <4>2. rct' \in 0 .. Width - 1 /\ c \in 1 .. Width /\ Width \in Nat
        BY <1>2, BitTaken, BitIOAssumption
      <4>3. n = dd - rct' /\ rct' < Width - k /\ n \in Nat
        BY <1>4, <3>1
      <4>4. e \in Int /\ dd = e + Width - k /\ k \in 0 .. 1 /\ c = Width - rct'
        BY <3>3
      <4>5. e \in Int /\ k \in Int /\ Width \in Int /\ rct' \in Int
        BY <4>2, <4>4
      <4>6. rct' < Width - k
        BY <4>3
      <4>7. PICK g, s, t \in Int : g = e /\ s = k /\ t = rct'
        BY <4>5
      <4>8. t < Width - s
        BY <4>6, <4>7
      <4>9. Width - t > s /\ g + (Width - t) - s = (g + Width - s) - t
        BY <4>5, <4>8
      <4>10. c = Width - t /\ n = (g + Width - s) - t
        BY <4>3, <4>4, <4>7
      <4>11. c > k /\ e + c - k = n
        BY <4>7, <4>9, <4>10
      <4> QED
        BY <4>1, <4>2, <4>11
    <3>5. written[n] = buf[rpos'][c]
      <4>1. n <= Len(written)
        BY <1>1, <1>4
      <4> HIDE DEF c, n
      <4> QED
        BY <1>5, <3>2, <3>4, <4>1 DEF Holds
    <3>6. n <= d
      <4>1. dd \in Int
        BY <3>2, DataStep
      <4>2. dd <= d
        BY <1>3, <1>7, <3>2, <4>1, DataGrows
      <4> HIDE DEF d, dd
      <4> QED
        BY <1>3, <1>7, <3>1, <4>1, <4>2
    <3> QED
      BY <1>4, <3>1, <3>5, <3>6
  <2>2. CASE Behind'
    <3>1. rbyte' = Zeros /\ n > d
      BY <1>1, <1>4, <2>2 DEF Behind
    <3>2. rbyte'[Width - rct'] = 0
      BY <1>2, <3>1, BitTaken DEF Zeros
    <3> HIDE DEF d
    <3> QED
      BY <1>4, <1>7, <3>1, <3>2
  <2> QED
    BY <1>6, <2>1, <2>2
<1>9. ReadsBack'
  <2>1. ASSUME NEW i \in 1 .. Len(read')
        PROVE  read'[i] = IF i <= d THEN written[i] ELSE 0
    <3>1. CASE i = n
      BY <1>8, <3>1
    <3>2. CASE i # n
      <4>1. i \in 1 .. Len(read)
        BY <1>4, <2>1, <3>2
      <4>2. read[i] = IF i <= d THEN written[i] ELSE 0
        BY <1>5, <4>1, DataBitsIn DEF ReadsBack
      <4> QED
        BY <1>4, <4>1, <4>2
    <3> QED
      BY <3>1, <3>2
  <2>2. DataBits(limit)' = d
    BY <1>1 DEF DataBits, DataIn
  <2> HIDE DEF d
  <2> QED
    BY <1>1, <2>1, <2>2 DEF ReadsBack
<1> QED
  BY <1>1, <1>4, <1>5, <1>6, <1>9 DEF ReadInv, Aligned


\* A bit is in one byte only.
LEMMA OneByte ==
    ASSUME NEW s, NEW n \in Int, NEW j \in Nat, NEW k \in Nat, j > 0, k > 0,
           DataIn(s, j - 1) < n, n <= DataIn(s, j),
           DataIn(s, k - 1) < n, n <= DataIn(s, k)
    PROVE  j = k
<1>1. ASSUME NEW a \in Nat, NEW b \in Nat, b > 0, n <= DataIn(s, a), DataIn(s, b - 1) < n
      PROVE  ~(a < b)
  <2>1. b - 1 \in Nat /\ (a < b => a = b - 1 \/ a < b - 1)
    BY <1>1
  <2>2. DataIn(s, a) \in Int /\ DataIn(s, b - 1) \in Int
    BY <2>1, DataStep
  <2>3. a < b => DataIn(s, a) <= DataIn(s, b - 1)
    BY <2>1, <2>2, DataGrows
  <2> QED
    BY <1>1, <2>2, <2>3
<1>2. ~(j < k) /\ ~(k < j)
  BY <1>1
<1> QED
  BY <1>2

\* Behind the last bit of a whole header the reader stands in the byte it is in.
LEMMA StandsAtEnd ==
    ASSUME TypeOK, AtFront \/ Inside \/ Behind, Ends(written, buf),
           Len(read) = Len(written), limit = Len(buf)
    PROVE  /\ rpos > 0 /\ rbyte = buf[rpos]
           /\ rpos = Len(buf) \/ (rpos = Len(buf) - 1 /\ rbyte = Ones)
<1> USE BitIOAssumption
<1>1. PICK e \in 1 .. Len(buf) :
        /\ DataIn(buf, e - 1) < Len(written) /\ Len(written) <= DataIn(buf, e)
        /\ e = Len(buf) \/ (e = Len(buf) - 1 /\ buf[e] = Ones)
  BY DEF Ends
<1>2. /\ Len(buf) \in Nat /\ rpos \in Nat /\ rpos <= Len(buf) /\ rct \in 0 .. Width
      /\ Len(read) \in Nat /\ read \in Seq(Bit)
      /\ e \in Nat /\ e - 1 \in Nat /\ e > 0 /\ e <= Len(buf)
  BY DEF TypeOK
<1>3. DataIn(buf, e - 1) \in Int /\ DataIn(buf, e) \in Int /\ DataIn(buf, Len(buf)) \in Int
  BY <1>2, DataStep
<1>4. DataIn(buf, e - 1) >= 0
  BY <1>2, <1>3, DataNone, DataGrows
<1>5. ~AtFront
  <2>1. Len(read) # 0
    BY <1>1, <1>2, <1>3, <1>4
  <2> QED
    BY <2>1 DEF AtFront
<1>6. ~Behind
  <2>1. DataIn(buf, e) <= DataIn(buf, Len(buf))
    BY <1>2, <1>3, DataGrows
  <2>2. ~(Len(read) > DataIn(buf, Len(buf)))
    BY <1>1, <1>2, <1>3, <2>1
  <2> QED
    BY <2>2 DEF Behind
<1>7. /\ rpos > 0 /\ rbyte = buf[rpos]
      /\ Len(read) = DataIn(buf, rpos) - rct /\ rct < Width - Skip(buf, rpos)
  BY <1>5, <1>6 DEF Inside
<1>8. rpos - 1 \in Nat /\ (rpos - 1) + 1 = rpos
  BY <1>2, <1>7
<1>9. /\ DataIn(buf, rpos - 1) \in Int /\ Skip(buf, rpos) \in 0 .. 1
      /\ DataIn(buf, rpos) = DataIn(buf, rpos - 1) + Width - Skip(buf, rpos)
  BY <1>8, DataStep
<1>10. DataIn(buf, rpos - 1) < Len(read) /\ Len(read) <= DataIn(buf, rpos)
  BY <1>2, <1>7, <1>9
<1>11. rpos = e
  <2>1. Len(read) \in Int
    BY <1>2
  <2> QED
    BY <1>1, <1>2, <1>7, <1>10, <2>1, OneByte
<1> QED
  BY <1>1, <1>7, <1>11

LEMMA InAlignRead == BioInv /\ ReadInv /\ InAlign => ReadInv'
<1> SUFFICES ASSUME BioInv, ReadInv, InAlign
             PROVE  ReadInv'
  OBVIOUS
<1>1. /\ pc = "read" /\ pc' \in {"aligned", "cut"} /\ Len(read) = Len(written)
      /\ UNCHANGED <<buf, written, limit, read>>
  BY DEF InAlign, writer
<1>2. Holds(written, buf) /\ Ends(written, buf) /\ ReadsBack /\ (AtFront \/ Inside \/ Behind)
  BY <1>1 DEF ReadInv
<1>3. ReadsBack'
  BY <1>1, <1>2 DEF ReadsBack, DataBits
<1>4. ASSUME limit = Len(buf)
      PROVE  pc' # "cut" /\ rpos' = Len(buf)
  <2>1. TypeOK /\ buf[Len(buf)] # Ones
    BY <1>1 DEF BioInv, NoMarker
  <2>2. /\ rpos > 0 /\ rbyte = buf[rpos]
        /\ rpos = Len(buf) \/ (rpos = Len(buf) - 1 /\ rbyte = Ones)
    BY <1>1, <1>2, <1>4, <2>1, StandsAtEnd
  <2>3. CASE rbyte = Ones
    <3>1. rpos = Len(buf) - 1
      BY <2>1, <2>2, <2>3
    <3>2. rpos \in Nat /\ Len(buf) \in Nat
      BY <2>1 DEF TypeOK
    <3>3. rpos < limit /\ rpos + 1 = Len(buf)
      BY <1>4, <3>1, <3>2
    <3> QED
      BY <2>3, <3>3 DEF InAlign
  <2>4. CASE rbyte # Ones
    BY <2>2, <2>4 DEF InAlign
  <2> QED
    BY <2>3, <2>4
<1>5. Aligned'
  BY <1>1, <1>4 DEF Aligned
<1> QED
  BY <1>1, <1>2, <1>3, <1>5 DEF ReadInv

-------------------------------------------------------------------------------
(* The theorems. *)

LEMMA ReadInvariant == Spec => []ReadInv
<1>1. ReadInv /\ UNCHANGED vars => ReadInv'
  BY DEF ReadInv, AtFront, Inside, Behind, ReadsBack, DataBits, Aligned,
         vars, writer, reader
<1>2. BioInv /\ ReadInv /\ [Next]_vars => ReadInv'
  BY <1>1, PutBitRead, FlushRead, GetBitRead, InAlignRead DEF Next
<1> QED
  BY InitRead, <1>2, BioInvariant, PTL DEF Spec

\* The reader gets every bit the writer put, whatever the width of a byte, the bits
\* and the buffer; behind the bytes it was given it gets zeros, and never a stuffed
\* bit (getbit and bytein, bio.go:61 and 89).
THEOREM HeaderReadsBack == Spec => []ReadsBack
<1>1. ReadInv => ReadsBack
  BY DEF ReadInv
<1> QED
  BY <1>1, ReadInvariant, PTL

\* Behind a header that is given whole the reader stands on the first byte of the
\* packet's data, whether or not the last byte in use was all ones, and never
\* finds the header cut (InAlign, bio.go:132).
THEOREM ReaderEndsAligned == Spec => []Aligned
<1>1. ReadInv => Aligned
  BY DEF ReadInv
<1> QED
  BY <1>1, ReadInvariant, PTL
===============================================================================
