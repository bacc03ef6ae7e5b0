---------------------------- MODULE TilePartsProofs ----------------------------
(***************************************************************************)
(* Theorems about TileParts, for every number of tiles and tile-parts, every *)
(* order of them, every place at which the file is cut and every request:    *)
(* no tile is decoded twice, a requested tile is decoded from its own data,  *)
(* in order, no tile while a tile-part of it is still to come, and each      *)
(* requested tile of an intact file from all its data, without an error.     *)
(***************************************************************************)
EXTENDS TileParts, Induction, FiniteSetTheorems, TLAPS

-------------------------------------------------------------------------------
(* The inductive invariant. *)

\* The tile has been decoded.
IsDecoded(t) == \E k \in 1 .. Len(decoded) : decoded[k].tile = t

\* Every tile-part of a requested tile has been read: none can follow.
Complete(t) == tcp[t].nb = tcp[t].part + 1 /\ tcp[t].nb # 0 /\ Wanted(t)

\* No tile-part is read any more.
Ended == dec.state \in {"EOC", "NEOC"}

\* The flags, by where the code is.
FlagInv ==
    /\ pc \notin {"finish", "ok", "error"} => dec.cur \in Tiles
    /\ pc \in {"enter", "after"} => ~dec.canDecode
    /\ pc \in {"enter", "found", "decode", "after"} => dec.state # "TPH"
    /\ pc = "scan" => dec.state \in {"TPHSOT", "TPH"}
    /\ pc \in {"correct", "next"} => dec.state = "TPHSOT" \/ (dec.state = "NEOC" /\ Left = 0)
    /\ pc = "found" /\ ~dec.canDecode => Ended \/ marker = "EOC"
    /\ pc = "decode" /\ ~dec.canDecode => Ended
    /\ pc = "correct" => dec.canDecode /\ ~dec.checked
    /\ pc \in {"next", "found", "decode"} /\ dec.canDecode => dec.checked \/ Ended
    /\ \/ pc = "scan" /\ dec.canDecode /\ ~dec.skipData
       \/ pc \in {"correct", "next", "found", "decode"} /\ dec.canDecode
       => Complete(dec.cur) \/ Ended

\* Where a SOT marker, or another one in a tile-part header, has been read.
MarkerInv ==
    /\ \/ pc = "scan" /\ marker = "SOT"
       \/ pc = "enter" /\ dec.state = "TPHSOT"
       => /\ ~dec.canDecode
          /\ Left = 0 \/ \E i \in 1 .. NumParts : pos = StartOf[i] + 2
    /\ pc = "scan" /\ marker = "COM" /\ dec.state = "TPH" =>
          \E i \in 1 .. NumParts :
              /\ file.parts[i].hdr = 1 /\ pos = StartOf[i] + 14
              /\ dec.sotLength \in {0, DataEnd(i) + 2 - pos}

\* A tile that has been decoded has no data, and gets none.
OnceInv ==
    /\ \A t \in Tiles : IsDecoded(t) =>
          /\ ~tcp[t].hasData
          /\ Ended \/ (dec.checked /\ Complete(t))
    /\ pc \in {"correct", "next"} \/ (pc = "scan" /\ marker # "SOT") => ~IsDecoded(dec.cur)

TilesInv == TypeOK /\ FlagInv /\ MarkerInv /\ OnceInv /\ NoTileTwice

\* In the header of tile-part i, or behind its data if the tile is not wanted.
InHeader(i) ==
    /\ ~dec.skipData /\ Wanted(dec.cur)
    /\ pos \in {StartOf[i] + 14, DataAt(i)}
    /\ marker = IF pos = DataAt(i) THEN "SOD" ELSE "COM"
    /\ dec.sotLength = IF dec.lastTilePart THEN 0 ELSE DataEnd(i) + 2 - pos
Skipped(i) ==
    /\ dec.skipData /\ ~Wanted(dec.cur)
    /\ marker = "SOD"
    /\ pos = IF dec.lastTilePart THEN StartOf[i] + 12 ELSE DataEnd(i)

\* At the SOT marker of tile-part i, in it, or behind it, as if at the next one.
AtSOT(i) ==
    /\ pc = "enter" \/ (pc = "scan" /\ marker = "SOT" /\ ~dec.canDecode)
    /\ dec.state = "TPHSOT" /\ i <= NumParts
    /\ pos = StartOf[i] + 2 /\ ~dec.lastTilePart
InPart(i) ==
    /\ pc = "scan" /\ dec.state = "TPH" /\ i <= NumParts
    /\ dec.cur = file.parts[i].tile /\ dec.lastTilePart = file.parts[i].psot0
    /\ InHeader(i) \/ Skipped(i)
Before(i) ==
    /\ pc \in {"correct", "next", "found", "decode", "after"} /\ dec.state = "TPHSOT"
    /\ pos = StartOf[i] /\ ~dec.lastTilePart

\* The reader is at tile-part i, and has read those before it; NumParts + 1 stands
\* for the end of the tile-parts.
Place(i) == AtSOT(i) \/ InPart(i) \/ Before(i)

\* Behind the data of a tile-part with Psot = 0; or in it, if its tile is not
\* wanted: the data is read all the same.
BehindTail ==
    /\ dec.lastTilePart /\ dec.state = "TPHSOT"
    /\ pc \in {"correct", "next", "found", "decode", "after"} /\ Left = 2
InTail ==
    /\ dec.lastTilePart /\ dec.state = "TPHSOT"
    /\ ~Wanted(dec.cur) /\ ~dec.skipData /\ ~dec.canDecode
    /\ \/ pc = "next" /\ pos = StartOf[NumParts] + 12
       \/ pc = "scan" /\ marker # "SOT"

\* Nothing is read any more that a requested tile could get.
IsPast == pc \in {"finish", "ok", "error"} \/ Ended \/ Left = 0 \/ BehindTail \/ InTail

\* The data that tile t has when the tile-parts before part i have been read.
DataUpTo(t, i) == [k \in 1 .. Count(t, i) |-> DataOf(t)[k]]

\* What the requested tiles that are not decoded have of their data: a beginning,
\* and as long as the reader has a place in the file, all of it up to there.
DataSound ==
    \A t \in Tiles : Wanted(t) /\ ~IsDecoded(t) => IsBeginningOf(tcp[t].data, DataOf(t))
HasUpTo(i) ==
    \A t \in Tiles : Wanted(t) /\ ~IsDecoded(t) => tcp[t].data = DataUpTo(t, i)

Located == IsPast \/ \E i \in 1 .. NumParts + 1 : Place(i) /\ HasUpTo(i)

DataInv == DataSound /\ Located /\ OwnDataInOrder

\* No tile-part is at p or ahead of it that is there with its whole SOT segment, in file f.
\* The marker of a tile-part the reader is at has been read.
NoneAhead(f, p) ==
    \A i \in 1 .. Len(f.parts) : Starts(f.parts)[i] + 2 < p \/ f.limit < Starts(f.parts)[i] + 12

\* Tile-parts are counted as the codestream has them, or one short throughout with the
\* last SOT marker there.
CountedWell == WellFormed \/ (OneShort /\ StartOf[NumParts] + 2 <= file.limit)

\* What the tiles announce too little.
Short == IF OneShort /\ dec.correction = 0 THEN 1 ELSE 0

\* What the decoder has counted when the tile-parts before part i have been read.
CountsUpTo(i) ==
    /\ WellFormed => dec.correction = 0
    /\ OneShort => (dec.checked <=> dec.correction = 1)
    /\ \A t \in Tiles : tcp[t].part = Seen(t, i) - 1 /\ tcp[t].nb \in {0, Total(t) - Short}

\* The reader is at tile-part i, in it or behind it, and has counted rightly. Before the
\* tail of readTileHeader no EOC marker has been read.
CountedAt(i) ==
    \/ AtSOT(i) /\ CountsUpTo(i)
    \/ InPart(i) /\ CountsUpTo(i + 1)
    \/ Before(i) /\ (pc \in {"correct", "next", "found"} => marker = "SOD") /\ CountsUpTo(i)

\* The reader is behind every tile-part, or at a place where the counts are right.
Gone == pc \in {"finish", "ok", "error"} \/ NoneAhead(file, pos)
CountInv ==
    /\ CountedWell => Gone \/ \E i \in 1 .. NumParts + 1 : CountedAt(i)
    /\ NoTilePartLeftBehind

\* A file that IntactFileDecodes is about.
WholeFile ==
    /\ Intact /\ ~UnwantedOpenEnd /\ (WellFormed \/ OneShort)
    /\ \A t \in Tiles : HasData(t)

\* Behind tile-part i - 1, whose data may have been all that was left.
Behind(i) ==
    /\ pc \in {"correct", "next", "found", "decode", "after"} /\ dec.state = "TPHSOT"
    /\ pos = StartOf[i] /\ (dec.lastTilePart => i = NumParts + 1)
    /\ pc \in {"correct", "next"} => marker = "SOD"
    /\ pc = "found" => dec.canDecode /\ marker = "SOD"

\* The reader is at tile-part i, and has all there is before it.
Reading(i) == (AtSOT(i) \/ InPart(i) \/ Behind(i)) /\ HasUpTo(i)

\* All tile-parts have been read, and what is left of the tiles is decoded in order.
Emptying ==
    /\ HasUpTo(NumParts + 1) /\ ~dec.canDecode
    /\ \/ pc = "found" /\ marker = "EOC" /\ dec.state = "TPHSOT"
       \/ /\ pc \in {"enter", "found", "decode", "after"} /\ dec.state = "EOC"
          /\ \A t \in Tiles : tcp[t].hasData => dec.cur <= t

\* Every requested tile has been decoded.
AllDecoded == \A t \in Tiles : Wanted(t) => IsDecoded(t)

\* Only requested tiles have been decoded, and from all their data; there is one
\* behind decodeTile.
DecodedWhole ==
    /\ \A k \in 1 .. Len(decoded) :
           Wanted(decoded[k].tile) /\ decoded[k].data = DataOf(decoded[k].tile)
    /\ pc = "after" => Len(decoded) # 0

\* A tile has been given data if there is any, and only requested tiles have.
DataShown ==
    \A t \in Tiles : /\ tcp[t].hasData <=> tcp[t].data # <<>>
                     /\ tcp[t].hasData => Wanted(t)

\* The tile to decode is one that is left.
ChosenLeft ==
    pc = "decode" \/ (pc = "found" /\ dec.canDecode) => Wanted(dec.cur) /\ ~IsDecoded(dec.cur)

\* Before the look-ahead, no tile is complete but one whose last tile-part is being read;
\* tiles announced one short have their number from their first tile-part on.
NoneComplete ==
    ~dec.checked => \A t \in Tiles : Complete(t) =>
                        t = dec.cur /\ dec.canDecode /\ pc \in {"scan", "correct"}
NumberKnown == OneShort => \A t \in Tiles : tcp[t].nb = 0 => tcp[t].part = -1

\* A whole file is read to its end without an error.
WholeRun ==
    /\ pc # "error"
    /\ \E t \in Tiles : Wanted(t)
    /\ DecodedWhole /\ DataShown /\ ChosenLeft
    /\ NoneComplete /\ NumberKnown
    /\ \/ \E i \in 1 .. NumParts + 1 : Reading(i)
       \/ Emptying
       \/ pc \in {"finish", "ok"} /\ AllDecoded
WholeInv == WholeFile => WholeRun

-------------------------------------------------------------------------------
(* The layout of the file. *)

LEMMA PartsType ==
    ASSUME NEW f, IsInput(f)
    PROVE  /\ f.parts \in Seq(Parts) /\ Len(f.parts) \in Nat /\ Len(f.parts) >= 1
           /\ \A i \in 1 .. Len(f.parts) :
                 /\ f.parts[i] \in Parts
                 /\ PartLen(f.parts[i]) \in Nat /\ PartLen(f.parts[i]) >= 14
                 /\ PartLen(f.parts[i]) = 14 + 4 * f.parts[i].hdr + f.parts[i].len
                 /\ f.parts[i].hdr \in 0 .. 1 /\ f.parts[i].len \in Nat
<1>2. f.parts \in Seq(Parts) /\ f.parts # <<>>
  BY DEF IsInput
<1>3. Len(f.parts) \in Nat /\ Len(f.parts) >= 1
  BY <1>2
<1>4. ASSUME NEW p \in Parts
      PROVE  /\ PartLen(p) \in Nat /\ PartLen(p) >= 14
             /\ p.hdr \in 0 .. 1 /\ p.len \in Nat
  <2>1. p.hdr \in 0 .. 1 /\ p.len \in Nat
    BY DEF Parts
  <2> QED
    BY <2>1 DEF PartLen
<1>5. \A i \in 1 .. Len(f.parts) : f.parts[i] \in Parts
  BY <1>2
<1> QED
  BY <1>2, <1>3, <1>4, <1>5 DEF PartLen

\* Where the tile-parts begin.
LEMMA StartsStep ==
    ASSUME NEW f, IsInput(f)
    PROVE  /\ Starts(f.parts) \in [1 .. Len(f.parts) + 1 -> Nat]
           /\ Starts(f.parts)[1] = 0
           /\ \A i \in 1 .. Len(f.parts) :
                 Starts(f.parts)[i + 1] = Starts(f.parts)[i] + PartLen(f.parts[i])
<1> DEFINE N == Len(f.parts)
           h == [i \in 2 .. N + 1 |-> [v \in Nat |-> v + PartLen(f.parts[i - 1])]]
           Is(s) == s = [i \in 1 .. N + 1 |->
                           IF i = 1 THEN 0 ELSE s[i - 1] + PartLen(f.parts[i - 1])]
<1>1. N \in Nat /\ \A i \in 1 .. N : PartLen(f.parts[i]) \in Nat
  BY PartsType
<1>2. \E s \in [1 .. N + 1 -> Nat] : Is(s)
  <2>1. StepsIn(Nat, 1, N + 1, h)
    <3>1. \A i \in 2 .. N + 1 : i - 1 \in 1 .. N
      BY <1>1
    <3>2. \A i \in 2 .. N + 1 : \A v \in Nat : h[i][v] \in Nat
      <4> TAKE i \in 2 .. N + 1
      <4> TAKE v \in Nat
      <4> DEFINE l == PartLen(f.parts[i - 1])
      <4>1. l \in Nat
        BY <1>1, <3>1
      <4>2. h[i][v] = v + l
        <5>1. h[i] = [w \in Nat |-> w + l]
          <6> HIDE DEF N
          <6> QED
            BY Zenon
        <5> HIDE DEF h, l
        <5> QED
          BY <5>1
      <4> HIDE DEF h, l
      <4> QED
        BY <4>1, <4>2
    <3>3. 1 + 1 = 2
      OBVIOUS
    <3> HIDE DEF h, N
    <3> QED
      BY <3>2, <3>3 DEF StepsIn
  <2>2. PICK s \in [1 .. N + 1 -> Nat] : Recurses(s, 1, N + 1, 0, h)
    <3>1. 1 \in Int /\ N + 1 \in Int /\ 0 \in Nat
      BY <1>1
    <3> HIDE DEF h, N
    <3> QED
      BY <2>1, <3>1, IntervalRecursion
  <2>3. \A i \in 1 .. N + 1 : s[i] = IF i = 1 THEN 0 ELSE s[i - 1] + PartLen(f.parts[i - 1])
    <3> TAKE i \in 1 .. N + 1
    <3>1. s[i] = IF i = 1 THEN 0 ELSE h[i][s[i - 1]]
      BY <2>2 DEF Recurses
    <3>2. i # 1 => i \in 2 .. N + 1 /\ s[i - 1] \in Nat
      BY <1>1
    <3> QED
      BY <3>1, <3>2
  <2>4. Is(s)
    BY <2>2, <2>3
  <2> QED
    BY <2>4
<1> DEFINE g == CHOOSE s : Is(s)
<1>3. Is(g)
  BY <1>2
<1>4. Starts(f.parts) = g
  BY DEF Starts
<1> HIDE DEF g
<1>5. g[1] = 0 /\ \A i \in 1 .. N : g[i + 1] = g[i] + PartLen(f.parts[i])
  <2>1. 1 \in 1 .. N + 1 /\ \A i \in 1 .. N : i + 1 \in 1 .. N + 1 /\ (i + 1) - 1 = i /\ i + 1 # 1
    BY <1>1
  <2> QED
    BY <1>3, <2>1
<1>6. 1 .. N + 1 \subseteq {i \in 1 .. N + 1 : g[i] \in Nat}
  <2> DEFINE S == {i \in 1 .. N + 1 : g[i] \in Nat}
  <2>1. 1 \in S
    BY <1>1, <1>5
  <2>2. \A i \in 1 .. (N + 1) - 1 : i \in S => i + 1 \in S
    <3>1. (N + 1) - 1 = N /\ \A i \in 1 .. N : i + 1 \in 1 .. N + 1
      BY <1>1
    <3> QED
      BY <1>1, <1>5, <3>1
  <2>3. 1 \in Int /\ N + 1 \in Int
    BY <1>1
  <2> HIDE DEF S, N
  <2>4. 1 .. N + 1 \subseteq S
    BY <2>1, <2>2, <2>3, IntervalInduction
  <2> QED
    BY <2>4 DEF S
<1>7. g \in [1 .. N + 1 -> Nat]
  <2>1. DOMAIN g = 1 .. N + 1 /\ g = [i \in 1 .. N + 1 |-> g[i]]
    BY <1>3
  <2> QED
    BY <1>6, <2>1
<1> QED
  BY <1>4, <1>5, <1>7

\* The tile-parts follow one another.
LEMMA StartGrows ==
    ASSUME NEW f, IsInput(f), NEW i \in 1 .. Len(f.parts), NEW j \in 1 .. Len(f.parts) + 1, i < j
    PROVE  Starts(f.parts)[i] + PartLen(f.parts[i]) <= Starts(f.parts)[j]
<1> DEFINE N == Len(f.parts)
           at == Starts(f.parts)
           len(k) == PartLen(f.parts[k])
           S == {k \in i + 1 .. N + 1 : at[i] + len(i) <= at[k]}
<1>1. N \in Nat /\ \A k \in 1 .. N : len(k) \in Nat
  BY PartsType
<1>2. /\ \A k \in 1 .. N + 1 : at[k] \in Nat
      /\ \A k \in 1 .. N : at[k + 1] = at[k] + len(k)
  BY StartsStep
<1>3. i \in 1 .. N /\ j \in i + 1 .. N + 1
  OBVIOUS
<1> HIDE DEF N, at, len
<1>4. i + 1 \in S
  BY <1>1, <1>2, <1>3
<1>5. \A k \in i + 1 .. (N + 1) - 1 : k \in S => k + 1 \in S
  <2> TAKE k \in i + 1 .. (N + 1) - 1
  <2>1. k \in 1 .. N /\ k + 1 \in i + 1 .. N + 1 /\ k \in 1 .. N + 1 /\ i \in 1 .. N + 1
    BY <1>1, <1>3
  <2>2. len(k) \in Nat /\ at[k] \in Nat /\ at[i] \in Nat /\ len(i) \in Nat /\ at[k + 1] = at[k] + len(k)
    BY <1>1, <1>2, <2>1
  <2>3. at[i] + len(i) <= at[k] => at[i] + len(i) <= at[k + 1]
    BY <2>2
  <2> QED
    BY <2>1, <2>3
<1>6. i + 1 \in Int /\ N + 1 \in Int
  BY <1>1
<1> HIDE DEF S
<1>7. i + 1 .. N + 1 \subseteq S
  BY <1>4, <1>5, <1>6, IntervalInduction
<1> QED
  BY <1>3, <1>7 DEF S, at, len

\* The places in the file, in terms of the state.
LEMMA Layout ==
    ASSUME IsInput(file)
    PROVE  /\ NumParts \in Nat /\ NumParts >= 1
           /\ \A i \in 1 .. NumParts + 1 : StartOf[i] \in Nat
           /\ StartOf[1] = 0
           /\ \A i \in 1 .. NumParts :
                 /\ i \in 1 .. NumParts + 1 /\ StartOf[i] \in Nat
                 /\ file.parts[i] \in Parts
                 /\ file.parts[i].len \in Nat /\ file.parts[i].hdr \in {0, 1}
                 /\ PartLen(file.parts[i]) = 14 + 4 * file.parts[i].hdr + file.parts[i].len
                 /\ DataAt(i) = StartOf[i] + 14 + 4 * file.parts[i].hdr
                 /\ DataEnd(i) = DataAt(i) + file.parts[i].len
                 /\ StartOf[i + 1] = DataEnd(i)
                 /\ \A j \in 1 .. NumParts + 1 : i < j => DataEnd(i) <= StartOf[j]
<1>1. /\ NumParts \in Nat /\ NumParts >= 1
      /\ \A i \in 1 .. NumParts :
            /\ file.parts[i] \in Parts
            /\ file.parts[i].hdr \in 0 .. 1 /\ file.parts[i].len \in Nat
            /\ PartLen(file.parts[i]) = 14 + 4 * file.parts[i].hdr + file.parts[i].len
  BY PartsType DEF NumParts
<1>2. /\ \A i \in 1 .. NumParts + 1 : StartOf[i] \in Nat
      /\ StartOf[1] = 0
      /\ \A i \in 1 .. NumParts : StartOf[i + 1] = StartOf[i] + PartLen(file.parts[i])
  BY StartsStep DEF NumParts, StartOf
<1>3. \A i \in 1 .. NumParts : \A j \in 1 .. NumParts + 1 :
          i < j => StartOf[i] + PartLen(file.parts[i]) <= StartOf[j]
  BY StartGrows DEF NumParts, StartOf
<1>4. ASSUME NEW i \in 1 .. NumParts
      PROVE  /\ DataAt(i) = StartOf[i] + 14 + 4 * file.parts[i].hdr
             /\ DataEnd(i) = DataAt(i) + file.parts[i].len
             /\ DataEnd(i) = StartOf[i] + PartLen(file.parts[i])
  <2>1. i \in 1 .. NumParts + 1
    BY <1>1
  <2> QED
    BY <1>1, <1>2, <2>1 DEF DataAt, DataEnd
<1>5. \A i \in 1 .. NumParts : i \in 1 .. NumParts + 1 /\ StartOf[i] \in Nat
  BY <1>1, <1>2
<1> QED
  BY <1>1, <1>2, <1>3, <1>4, <1>5

\* Only the last tile-part may be open at its end.
LEMMA OpenEndLast ==
    ASSUME IsInput(file), NEW i \in 1 .. NumParts, file.parts[i].psot0
    PROVE  i = NumParts
<1>1. file.parts \in Seq(Parts)
  BY DEF IsInput
<1>2. i \in DOMAIN file.parts
  BY <1>1 DEF NumParts
<1> QED
  BY <1>2 DEF IsInput, NumParts

\* Which marker is where.
LEMMA MarkerFacts ==
    ASSUME IsInput(file)
    PROVE  /\ \A p : MarkerAt(p) \in {"SOT", "COM", "SOD", "EOC", "data"}
           /\ \A p : MarkerAt(p) = "SOT" => \E i \in 1 .. NumParts : p = StartOf[i]
           /\ \A i \in 1 .. NumParts :
                 /\ MarkerAt(StartOf[i]) = "SOT"
                 /\ file.parts[i].hdr = 0 => MarkerAt(StartOf[i] + 12) = "SOD"
                 /\ file.parts[i].hdr = 1 => /\ MarkerAt(StartOf[i] + 12) = "COM"
                                             /\ MarkerAt(StartOf[i] + 16) = "SOD"
           /\ MarkerAt(StartOf[NumParts + 1]) = IF file.eoc THEN "EOC" ELSE "data"
<1> DEFINE N == NumParts
           SOT(p) == \E i \in 1 .. N : p = StartOf[i]
           COM(p) == \E i \in 1 .. N : file.parts[i].hdr = 1 /\ p = StartOf[i] + 12
           SOD(p) == \E i \in 1 .. N : p = DataAt(i) - 2
           EOC(p) == file.eoc /\ p = StartOf[N + 1]
<1>1. /\ N \in Nat
      /\ \A i \in 1 .. N + 1 : StartOf[i] \in Nat
      /\ \A i \in 1 .. N :
            /\ file.parts[i].hdr \in {0, 1}
            /\ DataAt(i) = StartOf[i] + 14 + 4 * file.parts[i].hdr
            /\ DataAt(i) \in Nat /\ DataEnd(i) \in Nat /\ DataEnd(i) >= DataAt(i)
            /\ \A j \in 1 .. N + 1 : i < j => DataEnd(i) <= StartOf[j]
            /\ i \in 1 .. N + 1
      /\ N + 1 \in 1 .. N + 1
  <2>1. N \in Nat /\ (\A i \in 1 .. N : i \in 1 .. N + 1) /\ N + 1 \in 1 .. N + 1
    BY Layout
  <2>2. /\ \A i \in 1 .. N + 1 : StartOf[i] \in Nat
        /\ \A i \in 1 .. N :
              /\ file.parts[i].len \in Nat /\ file.parts[i].hdr \in {0, 1}
              /\ DataAt(i) = StartOf[i] + 14 + 4 * file.parts[i].hdr
              /\ DataEnd(i) = DataAt(i) + file.parts[i].len
              /\ \A j \in 1 .. N + 1 : i < j => DataEnd(i) <= StartOf[j]
    BY Layout
  <2> HIDE DEF N
  <2>3. ASSUME NEW i \in 1 .. N
        PROVE  DataAt(i) \in Nat /\ DataEnd(i) \in Nat /\ DataEnd(i) >= DataAt(i)
    <3>1. StartOf[i] \in Nat
      BY <2>1, <2>2
    <3> QED
      BY <2>2, <3>1
  <2> QED
    BY <2>1, <2>2, <2>3
<1> HIDE DEF N
<1>2. \A i, j \in 1 .. N : i < j \/ i = j \/ j < i
  BY <1>1
\* Two places that differ have different markers.
<1>3. \A i, j \in 1 .. N :
         /\ StartOf[i] # DataAt(j) - 2
         /\ file.parts[j].hdr = 1 => StartOf[i] # StartOf[j] + 12 /\ StartOf[j] + 12 # DataAt(i) - 2
  <2> TAKE i \in 1 .. N
  <2> TAKE j \in 1 .. N
  <2>1. CASE i < j
    <3>1. DataEnd(i) <= StartOf[j]
      BY <1>1, <2>1
    <3> QED
      BY <1>1, <3>1
  <2>2. CASE i = j
    BY <1>1, <2>2
  <2>3. CASE j < i
    <3>1. DataEnd(j) <= StartOf[i]
      BY <1>1, <2>3
    <3> QED
      BY <1>1, <3>1
  <2> QED
    BY <1>2, <2>1, <2>2, <2>3
<1>4. \A i \in 1 .. N :
         /\ StartOf[N + 1] # StartOf[i]
         /\ StartOf[N + 1] # DataAt(i) - 2
         /\ StartOf[N + 1] # StartOf[i] + 12
  <2> TAKE i \in 1 .. N
  <2>1. DataEnd(i) <= StartOf[N + 1]
    BY <1>1
  <2> QED
    BY <1>1, <2>1
<1>5. \A p : /\ SOT(p) => ~COM(p) /\ ~SOD(p) /\ ~EOC(p)
             /\ COM(p) => ~SOD(p) /\ ~EOC(p)
             /\ SOD(p) => ~EOC(p)
  BY <1>3, <1>4, Zenon
<1>6. \A p : /\ SOT(p) => MarkerAt(p) = "SOT"
             /\ COM(p) => MarkerAt(p) = "COM"
             /\ SOD(p) => MarkerAt(p) = "SOD"
             /\ EOC(p) => MarkerAt(p) = "EOC"
             /\ ~SOT(p) /\ ~COM(p) /\ ~SOD(p) /\ ~EOC(p) => MarkerAt(p) = "data"
  <2> TAKE p
  <2> DEFINE a == SOT(p)
             b == COM(p)
             c == SOD(p)
             d == EOC(p)
  <2>1. MarkerAt(p) = CASE a -> "SOT" [] b -> "COM" [] c -> "SOD" [] d -> "EOC" [] OTHER -> "data"
    BY DEF MarkerAt, N
  <2>2. /\ a => ~b /\ ~c /\ ~d
        /\ b => ~c /\ ~d
        /\ c => ~d
    BY <1>5
  <2> HIDE DEF a, b, c, d
  <2>3. /\ a => MarkerAt(p) = "SOT"
        /\ b => MarkerAt(p) = "COM"
        /\ c => MarkerAt(p) = "SOD"
        /\ d => MarkerAt(p) = "EOC"
        /\ ~a /\ ~b /\ ~c /\ ~d => MarkerAt(p) = "data"
    BY <2>1, <2>2
  <2> QED
    BY <2>3 DEF a, b, c, d
<1> HIDE DEF SOT, COM, SOD, EOC
<1>7. \A p : MarkerAt(p) \in {"SOT", "COM", "SOD", "EOC", "data"}
  BY <1>6
<1>8. \A p : MarkerAt(p) = "SOT" => \E i \in 1 .. N : p = StartOf[i]
  <2>1. \A p : MarkerAt(p) = "SOT" => SOT(p)
    BY <1>6
  <2> QED
    BY <2>1 DEF SOT
<1>9. ASSUME NEW i \in 1 .. N
      PROVE  /\ MarkerAt(StartOf[i]) = "SOT"
             /\ file.parts[i].hdr = 0 => MarkerAt(StartOf[i] + 12) = "SOD"
             /\ file.parts[i].hdr = 1 => /\ MarkerAt(StartOf[i] + 12) = "COM"
                                         /\ MarkerAt(StartOf[i] + 16) = "SOD"
  <2>1. SOT(StartOf[i])
    BY DEF SOT
  <2>2. file.parts[i].hdr = 1 => COM(StartOf[i] + 12)
    BY DEF COM
  <2>3. SOD(DataAt(i) - 2)
    BY DEF SOD
  <2>4. DataAt(i) - 2 = IF file.parts[i].hdr = 0 THEN StartOf[i] + 12 ELSE StartOf[i] + 16
    BY <1>1
  <2> QED
    BY <1>6, <2>1, <2>2, <2>3, <2>4
<1>10. MarkerAt(StartOf[N + 1]) = IF file.eoc THEN "EOC" ELSE "data"
  <2> DEFINE e == StartOf[N + 1]
  <2>1. ~SOT(e) /\ ~COM(e) /\ ~SOD(e)
    BY <1>4 DEF SOT, COM, SOD
  <2>2. EOC(e) <=> file.eoc = TRUE
    BY DEF EOC
  <2> QED
    BY <1>6, <2>1, <2>2
<1> QED
  BY <1>7, <1>8, <1>9, <1>10 DEF N

\* The part that PartHere picks.
LEMMA PartHereIs ==
    ASSUME IsInput(file), NEW i \in 1 .. NumParts, pos = StartOf[i] + 2
    PROVE  PartHere = file.parts[i]
<1> DEFINE N == NumParts
<1>1. /\ N \in Nat
      /\ \A k \in 1 .. N : StartOf[k] \in Nat /\ k \in 1 .. N + 1
  BY Layout
<1>2. \A k, m \in 1 .. N : k < m => StartOf[k] < StartOf[m]
  <2>1. \A k \in 1 .. N : \A m \in 1 .. N + 1 :
           /\ k < m => DataEnd(k) <= StartOf[m]
           /\ DataEnd(k) = StartOf[k] + 14 + 4 * file.parts[k].hdr + file.parts[k].len
           /\ file.parts[k].hdr \in {0, 1} /\ file.parts[k].len \in Nat
    BY Layout
  <2> HIDE DEF N
  <2> QED
    BY <1>1, <2>1
<1> DEFINE P(k) == k \in 1 .. N /\ StartOf[k] + 2 = pos
           c == CHOOSE k : P(k)
<1>3. PartHere = file.parts[c]
  BY DEF PartHere
<1> HIDE DEF N
<1>4. P(c)
  <2>1. P(i)
    BY DEF N
  <2> QED
    BY <2>1
<1>5. c = i
  <2> HIDE DEF c
  <2>1. i \in 1 .. N /\ c \in 1 .. N
    BY <1>4 DEF N
  <2>2. ~(c < i) /\ ~(i < c)
    BY <1>1, <1>2, <1>4, <2>1
  <2> QED
    BY <1>1, <2>1, <2>2
<1> QED
  BY <1>3, <1>5

\* Least(S) is one of S.
LEMMA LeastIn ==
    ASSUME NEW S, S \subseteq Tiles, S # {}
    PROVE  Least(S) \in S /\ \A y \in S : Least(S) <= y
<1>1. Tiles \subseteq Nat
  BY TilePartsAssumption DEF Tiles
<1>2. \E x \in S : \A y \in S : x <= y
  <2> DEFINE R == OpToRel(<, Nat)
  <2>1. IsWellFoundedOn(R, Nat)
    BY NatLessThanWellFounded
  <2>2. PICK x \in S : \A y \in S : <<y, x>> \notin R
    <3>1. S \subseteq Nat
      BY <1>1
    <3> HIDE DEF R
    <3> QED
      BY <2>1, <3>1, WFMin
  <2>3. \A y \in S : ~(y < x)
    BY <1>1, <2>2 DEF OpToRel
  <2> QED
    BY <1>1, <2>3
<1> QED
  BY <1>2 DEF Least

-------------------------------------------------------------------------------
(* What the steps leave alone. *)

LEMMA SameFile ==
    ASSUME file' = file
    PROVE  /\ NumParts' = NumParts /\ StartOf' = StartOf
           /\ \A i : DataAt(i)' = DataAt(i) /\ DataEnd(i)' = DataEnd(i)
           /\ \A p : MarkerAt(p)' = MarkerAt(p)
BY DEF NumParts, StartOf, DataAt, DataEnd, MarkerAt

LEMMA SameDecoded ==
    ASSUME decoded' = decoded
    PROVE  \A t : IsDecoded(t)' <=> IsDecoded(t)
BY DEF IsDecoded

LEMMA SameTiles ==
    ASSUME tcp' = tcp, request' = request
    PROVE  \A t : /\ Wanted(t)' <=> Wanted(t)
                  /\ Complete(t)' <=> Complete(t)
BY DEF request, Complete, Wanted

\* Types that the proofs use one at a time.
LEMMA Types ==
    ASSUME TypeOK
    PROVE  /\ IsInput(file)
           /\ file.limit \in Nat /\ pos \in Nat /\ pos <= file.limit /\ Left \in Nat
           /\ Left = file.limit - pos
           /\ \A t \in Tiles : /\ tcp[t].part \in Nat \union {-1} /\ tcp[t].nb \in Nat
                               /\ tcp[t].hasData \in BOOLEAN
                               /\ tcp[t].data \in Seq(Nat \X Nat)
           /\ DOMAIN tcp = Tiles
           /\ dec.cur \in 0 .. NumTiles /\ dec.sotLength \in Nat
           /\ dec.canDecode \in BOOLEAN /\ dec.checked \in BOOLEAN
           /\ dec.skipData \in BOOLEAN /\ dec.lastTilePart \in BOOLEAN
           /\ dec.correction \in {0, 1}
           /\ dec.state \in {"TPHSOT", "TPH", "NEOC", "EOC"}
           /\ NumTiles \in Nat /\ NumTiles >= 2
           /\ Tiles \subseteq 0 .. NumTiles /\ 0 \in Tiles
           /\ Len(decoded) \in Nat
<1>1. IsInput(file) /\ pos \in 0 .. file.limit /\ file.limit \in Nat
  BY DEF TypeOK, IsInput
<1>2. NumTiles \in Nat /\ NumTiles >= 2
  BY TilePartsAssumption
<1>3. tcp \in [Tiles -> [part : Nat \union {-1}, nb : Nat, hasData : BOOLEAN,
                         data : Seq(Nat \X Nat)]]
  BY DEF TypeOK
<1>4. dec \in [state : {"TPHSOT", "TPH", "NEOC", "EOC"}, cur : 0 .. NumTiles,
                canDecode : BOOLEAN, lastTilePart : BOOLEAN, sotLength : Nat,
                skipData : BOOLEAN, checked : BOOLEAN, correction : 0 .. 1]
  BY DEF TypeOK
<1>5. /\ dec.cur \in 0 .. NumTiles /\ dec.sotLength \in Nat
      /\ dec.canDecode \in BOOLEAN /\ dec.checked \in BOOLEAN
      /\ dec.skipData \in BOOLEAN /\ dec.lastTilePart \in BOOLEAN
      /\ dec.correction \in 0 .. 1
      /\ dec.state \in {"TPHSOT", "TPH", "NEOC", "EOC"}
  BY <1>4
<1>6. Tiles \subseteq 0 .. NumTiles /\ 0 \in Tiles
  BY <1>2 DEF Tiles
<1>7. Len(decoded) \in Nat
  BY DEF TypeOK
<1>8. Left \in Nat /\ Left = file.limit - pos
  BY <1>1 DEF Left
<1>9. \A t \in Tiles : /\ tcp[t].part \in Nat \union {-1} /\ tcp[t].nb \in Nat
                       /\ tcp[t].hasData \in BOOLEAN /\ tcp[t].data \in Seq(Nat \X Nat)
  BY <1>3
<1> QED
  BY <1>1, <1>2, <1>3, <1>5, <1>6, <1>7, <1>8, <1>9

-------------------------------------------------------------------------------
(* No tile is decoded twice: one lemma per action. *)

LEMMA FailTiles ==
    ASSUME TilesInv, Fail
    PROVE  TilesInv'
<1> USE DEF Fail, request
<1>1. file' = file
  OBVIOUS
<1>2. TypeOK'
  BY DEF TilesInv, TypeOK
<1>3. FlagInv'
  BY DEF FlagInv
<1>4. MarkerInv'
  BY DEF MarkerInv
<1>5. OnceInv'
  BY SameDecoded, SameTiles DEF TilesInv, OnceInv, Ended
<1>6. NoTileTwice'
  BY DEF TilesInv, NoTileTwice
<1> QED
  BY <1>2, <1>3, <1>4, <1>5, <1>6 DEF TilesInv

LEMMA EnterTileHeaderTiles ==
    ASSUME TilesInv, EnterTileHeader
    PROVE  TilesInv'
<1>1. CASE Fail
  BY <1>1, FailTiles
<1>2. CASE ~Fail
  <2> USE <1>2 DEF EnterTileHeader, LoopTop
  <2>1. /\ UNCHANGED <<request, pos, dec, tcp, decoded>>
        /\ pc = "enter" /\ pc' \in {"found", "scan"}
        /\ ~dec.canDecode /\ dec.cur \in Tiles
        /\ \/ dec.state = "EOC" /\ marker' = "EOC" /\ pc' = "found"
           \/ dec.state = "TPHSOT" /\ marker' = "SOT" /\ pc' = "scan"
    BY DEF TilesInv, FlagInv
  <2>2. TypeOK'
    BY <2>1 DEF TilesInv, TypeOK, request
  <2>3. FlagInv'
    BY <2>1 DEF FlagInv, Ended
  <2>4. MarkerInv'
    BY <2>1, SameFile DEF TilesInv, MarkerInv, request, Left
  <2>5. OnceInv'
    BY <2>1, SameDecoded, SameTiles DEF TilesInv, OnceInv, Ended
  <2>6. NoTileTwice'
    BY <2>1 DEF TilesInv, NoTileTwice
  <2> QED
    BY <2>2, <2>3, <2>4, <2>5, <2>6 DEF TilesInv
<1> QED
  BY <1>1, <1>2

LEMMA EndOfStreamTiles ==
    ASSUME TilesInv, EndOfStream
    PROVE  TilesInv'
<1>1. /\ UNCHANGED <<request, pos, marker, tcp, decoded>>
      /\ pc = "scan" /\ pc' = "found"
      /\ dec' = [dec EXCEPT !.state = "NEOC"]
      /\ dec.cur \in Tiles
  BY DEF EndOfStream, TilesInv, FlagInv
<1>2. dec'.state = "NEOC" /\ dec'.cur = dec.cur /\ dec'.checked = dec.checked /\ Ended'
  BY <1>1, Types DEF TilesInv, TypeOK, Ended
<1>3. TypeOK'
  BY <1>1 DEF TilesInv, TypeOK, request
<1>4. FlagInv'
  BY <1>1, <1>2 DEF FlagInv, Tiles
<1>5. MarkerInv'
  BY <1>1 DEF MarkerInv
<1>6. OnceInv'
  BY <1>1, <1>2, SameDecoded, SameTiles DEF TilesInv, OnceInv
<1>7. NoTileTwice'
  BY <1>1 DEF TilesInv, NoTileTwice
<1> QED
  BY <1>3, <1>4, <1>5, <1>6, <1>7 DEF TilesInv

\* readSOT accepts tile-part i, which is p of tile t.
SOTRead(i, p, t, nb, last, sot) ==
    /\ p = file.parts[i] /\ t = p.tile
    /\ pos = StartOf[i] + 2 /\ Left >= 10
    /\ pc = "scan" /\ marker = "SOT" /\ ~dec.canDecode
    /\ TilePartInOrder(p)
    /\ nb = IF p.tn = 0 THEN tcp[t].nb ELSE p.tn + dec.correction
    /\ last = (dec.lastTilePart \/ p.psot0)
    /\ sot = IF last THEN 0 ELSE PartLen(p) - 12
    /\ tcp' = [tcp EXCEPT ![t].part = p.tp, ![t].nb = nb]
    /\ dec' = [dec EXCEPT !.cur = t, !.lastTilePart = last, !.canDecode = (nb = p.tp + 1),
                          !.sotLength = sot, !.state = "TPH", !.skipData = ~Wanted(t)]
    /\ IF Wanted(t) THEN ReadMarker(pos + 10) ELSE SkipData(pos + 10, sot)
    /\ UNCHANGED <<request, decoded>>

LEMMA ReadSOTEffect ==
    ASSUME TilesInv, ReadSOT, ~Fail
    PROVE  \E i \in 1 .. NumParts, p \in Parts, t \in Tiles, nb \in Nat, last \in BOOLEAN, sot \in Nat :
              SOTRead(i, p, t, nb, last, sot)
<1>1. /\ pc = "scan" /\ marker = "SOT" /\ Left # 0
      /\ Left >= 10 /\ TilePartInOrder(PartHere) /\ AcceptSOT(PartHere)
  BY DEF ReadSOT
<1>2. PICK i \in 1 .. NumParts : pos = StartOf[i] + 2
  BY <1>1 DEF TilesInv, MarkerInv
<1>3. dec.canDecode = FALSE
  BY <1>1, Types DEF TilesInv, MarkerInv
<1>4. IsInput(file)
  BY Types DEF TilesInv
<1>5. PartHere = file.parts[i] /\ file.parts[i] \in Parts
  BY <1>2, <1>4, PartHereIs, Layout
<1>6. PICK p \in Parts : p = file.parts[i]
  BY <1>5
<1>7. /\ p.tile \in Tiles /\ p.tn \in Nat /\ p.psot0 \in BOOLEAN
      /\ PartLen(p) \in Nat /\ PartLen(p) >= 14
  BY <1>4, <1>6, PartsType DEF Parts, NumParts
<1>8. PICK t \in Tiles : t = p.tile
  BY <1>7
<1>9. \E nb \in Nat : nb = IF p.tn = 0 THEN tcp[t].nb ELSE p.tn + dec.correction
  <2>1. tcp[t].nb \in Nat /\ dec.correction \in {0, 1}
    BY Types DEF TilesInv
  <2> QED
    BY <1>7, <2>1
<1>10. PICK nb \in Nat : nb = IF p.tn = 0 THEN tcp[t].nb ELSE p.tn + dec.correction
  BY <1>9
<1>11. PICK last \in BOOLEAN : last = (dec.lastTilePart \/ p.psot0)
  OBVIOUS
<1>12. PICK sot \in Nat : sot = IF last THEN 0 ELSE PartLen(p) - 12
  BY <1>7
<1>13. /\ tcp' = [tcp EXCEPT ![t].part = p.tp, ![t].nb = nb]
       /\ dec' = StartTilePart(p, nb, last, sot)
       /\ IF Wanted(t) THEN ReadMarker(pos + 10) ELSE SkipData(pos + 10, sot)
       /\ UNCHANGED <<request, decoded>>
  BY <1>1, <1>5, <1>6, <1>8, <1>10, <1>11, <1>12 DEF AcceptSOT
<1>14. dec' = [dec EXCEPT !.cur = t, !.lastTilePart = last, !.canDecode = (nb = p.tp + 1),
                          !.sotLength = sot, !.state = "TPH", !.skipData = ~Wanted(t)]
  BY <1>3, <1>8, <1>13 DEF StartTilePart
<1>15. SOTRead(i, p, t, nb, last, sot)
  BY <1>1, <1>2, <1>3, <1>5, <1>6, <1>8, <1>10, <1>11, <1>12, <1>13, <1>14 DEF SOTRead
<1> QED
  BY <1>15

\* The marker and the position behind readSOT.
LEMMA BehindSOT ==
    ASSUME TypeOK, NEW i \in 1 .. NumParts, NEW sot \in Nat,
           pos = StartOf[i] + 2, Left >= 10, request' = request,
           pc = "scan",
           \/ ReadMarker(pos + 10)
           \/ SkipData(pos + 10, sot)
    PROVE  /\ pos' \in 0 .. file.limit
           /\ pc' = "error" => UNCHANGED <<marker, pos>>
           /\ pc' # "error" =>
                /\ pc' = "scan"
                /\ \/ marker' = "SOD"
                   \/ /\ marker' = "COM" /\ file.parts[i].hdr = 1
                      /\ pos' = StartOf[i] + 14
                      /\ ReadMarker(pos + 10)
<1>1. /\ IsInput(file) /\ file.limit \in Nat /\ pos \in Nat /\ Left = file.limit - pos
      /\ pos <= file.limit
  BY Types
<1>2. file.parts[i].hdr \in {0, 1} /\ StartOf[i] \in Nat
  BY <1>1, Layout
<1>3. MarkerAt(pos + 10) = IF file.parts[i].hdr = 1 THEN "COM" ELSE "SOD"
  <2>1. pos + 10 = StartOf[i] + 12
    BY <1>2
  <2> QED
    BY <1>1, <1>2, <2>1, MarkerFacts
<1>4. CASE ReadMarker(pos + 10)
  BY <1>1, <1>2, <1>3, <1>4 DEF ReadMarker
<1>5. CASE SkipData(pos + 10, sot)
  BY <1>1, <1>5 DEF SkipData
<1> QED
  BY <1>4, <1>5

LEMMA ReadSOTTiles ==
    ASSUME TilesInv, ReadSOT
    PROVE  TilesInv'
<1>1. CASE Fail
  BY <1>1, FailTiles
<1>2. CASE ~Fail
  <2>1. PICK i \in 1 .. NumParts, p \in Parts, t \in Tiles, nb \in Nat, last \in BOOLEAN, sot \in Nat :
           SOTRead(i, p, t, nb, last, sot)
    BY <1>2, ReadSOTEffect
  <2>2. /\ p = file.parts[i] /\ t = p.tile
        /\ pos = StartOf[i] + 2 /\ Left >= 10
        /\ pc = "scan" /\ marker = "SOT" /\ ~dec.canDecode
        /\ TilePartInOrder(p)
        /\ sot = IF last THEN 0 ELSE PartLen(p) - 12
        /\ tcp' = [tcp EXCEPT ![t].part = p.tp, ![t].nb = nb]
        /\ IF Wanted(t) THEN ReadMarker(pos + 10) ELSE SkipData(pos + 10, sot)
        /\ UNCHANGED <<request, decoded>>
    BY <2>1 DEF SOTRead
  <2>3. p.tp \in Nat
    BY DEF Parts
  <2>4. /\ dec' = [dec EXCEPT !.cur = t, !.lastTilePart = last, !.canDecode = (nb = p.tp + 1),
                              !.sotLength = sot, !.state = "TPH", !.skipData = ~Wanted(t)]
    BY <2>1 DEF SOTRead
  <2>5. /\ dec'.cur = t /\ dec'.lastTilePart = last /\ dec'.sotLength = sot
        /\ dec'.canDecode = (nb = p.tp + 1) /\ dec'.state = "TPH" /\ dec'.skipData = ~Wanted(t)
        /\ dec'.checked = dec.checked
    <3>1. dec \in [state : {"TPHSOT", "TPH", "NEOC", "EOC"}, cur : 0 .. NumTiles,
                      canDecode : BOOLEAN, lastTilePart : BOOLEAN, sotLength : Nat,
                      skipData : BOOLEAN, checked : BOOLEAN, correction : 0 .. 1]
      BY DEF TilesInv, TypeOK
    <3> QED
      BY <2>4, <3>1
  <2>6. /\ tcp'[t].part = p.tp /\ tcp'[t].nb = nb /\ tcp'[t].hasData = tcp[t].hasData
        /\ \A u \in Tiles : u # t => tcp'[u] = tcp[u]
    <3>1. tcp \in [Tiles -> [part : Nat \union {-1}, nb : Nat, hasData : BOOLEAN,
                             data : Seq(Nat \X Nat)]]
      BY DEF TilesInv, TypeOK
    <3>2. tcp' = [tcp EXCEPT ![t].part = p.tp, ![t].nb = nb]
      BY <2>2
    <3> QED
      BY <3>1, <3>2
  <2>7. /\ pos' \in 0 .. file.limit
        /\ pc' = "error" => UNCHANGED <<marker, pos>>
        /\ pc' # "error" =>
             /\ pc' = "scan"
             /\ \/ marker' = "SOD"
                \/ /\ marker' = "COM" /\ file.parts[i].hdr = 1
                   /\ pos' = StartOf[i] + 14
    BY <2>2, BehindSOT DEF TilesInv
  <2>8. file' = file /\ target' = target /\ window' = window /\ strict' = strict
    BY <2>2 DEF request
  \* A tile that has been decoded is not this one: no further tile-part of it is in order.
  <2>9. ASSUME NEW u \in Tiles, IsDecoded(u)
        PROVE  u # t /\ dec.checked /\ Complete(u)
    <3>1. ~Ended
      BY <2>2 DEF TilesInv, FlagInv, Ended
    <3>2. dec.checked /\ Complete(u)
      BY <2>9, <3>1 DEF TilesInv, OnceInv
    <3>3. ASSUME u = t PROVE FALSE
      <4>1. /\ tcp[t].nb = tcp[t].part + 1 /\ tcp[t].nb # 0 /\ target \in {-1, t}
        BY <3>2, <3>3 DEF Complete, Wanted
      <4>2. p.tp = tcp[t].part + 1 /\ p.tp < tcp[t].nb
        BY <2>2, <4>1 DEF TilePartInOrder
      <4>3. tcp[t].part \in Nat \union {-1}
        BY <2>2, Types DEF TilesInv
      <4> QED
        BY <2>3, <4>1, <4>2, <4>3
    <3> QED
      BY <3>2, <3>3
  <2>10. TypeOK'
    <3>1. marker' \in {"SOT", "COM", "SOD", "EOC", "data"} /\ pc' \in {"scan", "error"}
      BY <2>7, <2>2
    <3>2. tcp' \in [Tiles -> [part : Nat \union {-1}, nb : Nat, hasData : BOOLEAN,
                              data : Seq(Nat \X Nat)]]
      <4>1. tcp \in [Tiles -> [part : Nat \union {-1}, nb : Nat, hasData : BOOLEAN,
                               data : Seq(Nat \X Nat)]]
        BY DEF TilesInv, TypeOK
      <4> DEFINE r == [tcp[t] EXCEPT !.part = p.tp, !.nb = nb]
      <4>2. r \in [part : Nat \union {-1}, nb : Nat, hasData : BOOLEAN, data : Seq(Nat \X Nat)]
        BY <2>3, <4>1
      <4>3. tcp' = [tcp EXCEPT ![t] = r]
        BY <2>2, <4>1
      <4> HIDE DEF r
      <4> QED
        BY <4>1, <4>2, <4>3
    <3>3. dec' \in [state : {"TPHSOT", "TPH", "NEOC", "EOC"}, cur : 0 .. NumTiles,
                    canDecode : BOOLEAN, lastTilePart : BOOLEAN, sotLength : Nat,
                    skipData : BOOLEAN, checked : BOOLEAN, correction : 0 .. 1]
      <4>1. t \in 0 .. NumTiles
        BY Types DEF TilesInv
      <4>2. PICK b \in BOOLEAN : b = (nb = p.tp + 1)
        OBVIOUS
      <4>3. PICK w \in BOOLEAN : w = ~Wanted(t)
        OBVIOUS
      <4>4. dec' = [dec EXCEPT !.cur = t, !.lastTilePart = last, !.canDecode = b,
                               !.sotLength = sot, !.state = "TPH", !.skipData = w]
        BY <2>4, <4>2, <4>3
      <4>5. dec \in [state : {"TPHSOT", "TPH", "NEOC", "EOC"}, cur : 0 .. NumTiles,
                     canDecode : BOOLEAN, lastTilePart : BOOLEAN, sotLength : Nat,
                     skipData : BOOLEAN, checked : BOOLEAN, correction : 0 .. 1]
        BY DEF TilesInv, TypeOK
      <4> QED
        BY <4>1, <4>4, <4>5
    <3>4. decoded' = decoded
      BY <2>2
    <3> QED
      BY <2>7, <2>8, <3>1, <3>2, <3>3, <3>4 DEF TilesInv, TypeOK
  <2>11. FlagInv'
    <3>1. dec'.canDecode /\ ~dec'.skipData => Complete(dec.cur)'
      <4>1. dec'.canDecode /\ ~dec'.skipData => nb = p.tp + 1 /\ Wanted(t)
        BY <2>5
      <4>2. Wanted(t)' <=> Wanted(t)
        BY <2>8 DEF Wanted
      <4>3. nb = p.tp + 1 => nb # 0
        BY <2>3
      <4>4. nb = p.tp + 1 /\ Wanted(t) => Complete(t)'
        BY <2>6, <4>2, <4>3 DEF Complete
      <4> QED
        BY <2>5, <4>1, <4>4 DEF Complete, Wanted
    <3> QED
      BY <2>2, <2>5, <2>7, <3>1 DEF FlagInv
  <2>12. MarkerInv'
    <3>1. CASE pc' = "error"
      BY <3>1 DEF MarkerInv
    <3>2. CASE pc' = "scan" /\ marker' = "SOD"
      BY <3>2 DEF MarkerInv
    <3>3. CASE pc' = "scan" /\ marker' = "COM" /\ file.parts[i].hdr = 1 /\ pos' = StartOf[i] + 14
      <4>1. sot \in {0, DataEnd(i) + 2 - (StartOf[i] + 14)}
        <5>1. /\ PartLen(p) = 14 + 4 * p.hdr + p.len /\ p.len \in Nat /\ p.hdr = 1
              /\ DataEnd(i) = DataAt(i) + p.len /\ DataAt(i) = StartOf[i] + 14 + 4 * p.hdr
              /\ StartOf[i] \in Nat
          BY <3>3, <2>2, Layout, Types DEF TilesInv
        <5>2. sot = 0 \/ sot = PartLen(p) - 12
          BY <2>2
        <5> QED
          BY <5>1, <5>2
      <4> QED
        BY <2>5, <2>8, <3>3, <4>1, SameFile DEF MarkerInv
    <3> QED
      BY <2>7, <3>1, <3>2, <3>3
  <2>13. OnceInv'
    <3>1. \A u \in Tiles : IsDecoded(u)' => /\ ~tcp'[u].hasData
                                            /\ dec'.checked /\ Complete(u)'
      <4> TAKE u \in Tiles
      <4> HAVE IsDecoded(u)'
      <4>1. IsDecoded(u)
        BY <2>2, SameDecoded
      <4>2. u # t /\ dec.checked /\ Complete(u) /\ ~tcp[u].hasData
        BY <2>9, <4>1 DEF TilesInv, OnceInv
      <4> QED
        BY <2>5, <2>6, <2>8, <4>2 DEF Complete, Wanted
    <3>2. ~IsDecoded(dec.cur)'
      <4>1. ~IsDecoded(t)
        BY <2>2, <2>9
      <4> QED
        BY <2>2, <2>5, <4>1 DEF IsDecoded
    <3> QED
      BY <3>1, <3>2 DEF OnceInv
  <2>14. NoTileTwice'
    BY <2>2 DEF TilesInv, NoTileTwice
  <2> QED
    BY <2>10, <2>11, <2>12, <2>13, <2>14 DEF TilesInv
<1> QED
  BY <1>1, <1>2

LEMMA ReadHeaderSegmentTiles ==
    ASSUME TilesInv, ReadHeaderSegment
    PROVE  TilesInv'
<1>1. CASE Fail
  BY <1>1, FailTiles
<1>2. CASE ~Fail
  <2>1. /\ pc = "scan" /\ marker = "COM" /\ Left # 0 /\ Left >= 4 /\ dec.state = "TPH"
        /\ dec' = [dec EXCEPT !.sotLength = IF @ = 0 THEN 0 ELSE @ - 4]
        /\ marker' = MarkerAt(pos + 2) /\ pos' = pos + 4
        /\ UNCHANGED <<request, tcp, decoded, pc>>
    BY <1>2, Types DEF ReadHeaderSegment, TilesInv
  <2>2. PICK i \in 1 .. NumParts : /\ file.parts[i].hdr = 1 /\ pos = StartOf[i] + 14
                                   /\ dec.sotLength \in {0, DataEnd(i) + 2 - pos}
    BY <2>1 DEF TilesInv, MarkerInv
  <2>3. marker' = "SOD"
    <3>1. pos + 2 = StartOf[i] + 16
      <4>1. StartOf[i] \in Nat /\ pos = StartOf[i] + 14
        BY <2>2, Layout, Types DEF TilesInv
      <4> QED
        BY <4>1
    <3> QED
      BY <2>1, <2>2, <3>1, MarkerFacts, Types DEF TilesInv
  <2>4. PICK sot \in Nat : sot = IF dec.sotLength = 0 THEN 0 ELSE dec.sotLength - 4
    <3>1. /\ file.parts[i].len \in Nat
          /\ DataEnd(i) = DataAt(i) + file.parts[i].len /\ DataAt(i) = StartOf[i] + 14 + 4 * file.parts[i].hdr
          /\ StartOf[i] \in Nat
      BY Layout, Types DEF TilesInv
    <3>2. dec.sotLength = 0 \/ dec.sotLength = 6 + file.parts[i].len
      BY <2>2, <3>1
    <3> QED
      BY <3>1, <3>2
  <2>5. dec' = [dec EXCEPT !.sotLength = sot]
    BY <2>1, <2>4
  <2>6. /\ dec'.cur = dec.cur /\ dec'.canDecode = dec.canDecode /\ dec'.state = dec.state
        /\ dec'.skipData = dec.skipData /\ dec'.checked = dec.checked
    BY <2>5 DEF TilesInv, TypeOK
  <2>7. TypeOK'
    <3>1. pos' \in 0 .. file.limit
      <4>1. pos \in Nat /\ file.limit \in Nat /\ Left = file.limit - pos
        BY Types DEF TilesInv
      <4>2. Left >= 4 /\ pos' = pos + 4
        BY <2>1
      <4> QED
        BY <4>1, <4>2
    <3> QED
      BY <2>1, <2>3, <2>5, <3>1 DEF TilesInv, TypeOK, request
  <2>8. FlagInv'
    BY <2>1, <2>6 DEF TilesInv, FlagInv, Complete, Wanted, request, Ended
  <2>9. MarkerInv'
    BY <2>1, <2>3 DEF MarkerInv
  <2>10. OnceInv'
    BY <2>1, <2>6 DEF TilesInv, OnceInv, Complete, Wanted, request, Ended, IsDecoded
  <2>11. NoTileTwice'
    BY <2>1 DEF TilesInv, NoTileTwice
  <2> QED
    BY <2>7, <2>8, <2>9, <2>10, <2>11 DEF TilesInv
<1> QED
  BY <1>1, <1>2

LEMMA SkipTilePartTiles ==
    ASSUME TilesInv, SkipTilePart
    PROVE  TilesInv'
<1>1. /\ pc = "scan" /\ marker = "SOD" /\ dec.skipData /\ pc' = "next"
      /\ dec' = [dec EXCEPT !.skipData = FALSE, !.canDecode = FALSE, !.state = "TPHSOT"]
      /\ UNCHANGED <<request, pos, marker, tcp, decoded>>
  BY DEF SkipTilePart
<1>2. /\ dec'.cur = dec.cur /\ dec'.canDecode = FALSE /\ dec'.state = "TPHSOT"
      /\ dec'.checked = dec.checked
  BY <1>1 DEF TilesInv, TypeOK
<1>3. TypeOK'
  BY <1>1 DEF TilesInv, TypeOK, request
<1>4. FlagInv'
  BY <1>1, <1>2 DEF TilesInv, FlagInv, Tiles
<1>5. MarkerInv'
  BY <1>1 DEF MarkerInv
<1>6. OnceInv'
  BY <1>1, <1>2 DEF TilesInv, FlagInv, OnceInv, Complete, Wanted, request, Ended, IsDecoded
<1>7. NoTileTwice'
  BY <1>1 DEF TilesInv, NoTileTwice
<1> QED
  BY <1>3, <1>4, <1>5, <1>6, <1>7 DEF TilesInv

\* readSOD takes read of sot bytes.
SODRead(sot, read) ==
    /\ sot = IF dec.lastTilePart THEN Left - 2
             ELSE IF dec.sotLength >= 2 THEN dec.sotLength - 2 ELSE dec.sotLength
    /\ read = IF sot > Left THEN Left ELSE sot
    /\ pc = "scan" /\ marker = "SOD" /\ ~dec.skipData
    /\ tcp' = [tcp EXCEPT ![dec.cur].hasData = @ \/ sot # 0,
                          ![dec.cur].data = IF read = 0 THEN @ ELSE Append(@, <<pos, pos + read>>)]
    /\ dec' = [dec EXCEPT !.sotLength = sot, !.state = IF read = sot THEN "TPHSOT" ELSE "NEOC"]
    /\ pos' = pos + read
    /\ pc' = IF dec.canDecode /\ ~dec.checked THEN "correct" ELSE "next"
    /\ UNCHANGED <<request, marker, decoded>>

LEMMA ReadSODEffect ==
    ASSUME TilesInv, ReadSOD, ~Fail
    PROVE  \E sot, read \in Nat : SODRead(sot, read) /\ (read # sot => read = Left)
<1> DEFINE sot == IF dec.lastTilePart THEN Left - 2
                  ELSE IF dec.sotLength >= 2 THEN dec.sotLength - 2 ELSE dec.sotLength
<1>1. SODRead(sot, BytesRead(sot)) /\ ~(sot < 0)
  BY DEF ReadSOD, SODRead, BytesRead
<1>2. Left \in Nat /\ dec.sotLength \in Nat /\ dec.lastTilePart \in BOOLEAN
  BY Types DEF TilesInv
<1>3. sot \in Nat
  BY <1>1, <1>2
<1> HIDE DEF sot
<1>4. BytesRead(sot) \in Nat /\ (BytesRead(sot) # sot => BytesRead(sot) = Left)
  BY <1>2, <1>3 DEF BytesRead
<1> QED
  BY <1>1, <1>3, <1>4

LEMMA ReadSODTiles ==
    ASSUME TilesInv, ReadSOD
    PROVE  TilesInv'
<1>1. CASE Fail
  BY <1>1, FailTiles
<1>2. CASE ~Fail
  <2>1. PICK sot \in Nat, read \in Nat : SODRead(sot, read) /\ (read # sot => read = Left)
    BY <1>2, ReadSODEffect
  <2>2. /\ pc = "scan" /\ marker = "SOD" /\ ~dec.skipData
        /\ read = IF sot > Left THEN Left ELSE sot
        /\ tcp' = [tcp EXCEPT ![dec.cur].hasData = @ \/ sot # 0,
                              ![dec.cur].data = IF read = 0 THEN @ ELSE Append(@, <<pos, pos + read>>)]
        /\ dec' = [dec EXCEPT !.sotLength = sot, !.state = IF read = sot THEN "TPHSOT" ELSE "NEOC"]
        /\ pos' = pos + read
        /\ pc' = IF dec.canDecode /\ ~dec.checked THEN "correct" ELSE "next"
        /\ UNCHANGED <<request, marker, decoded>>
    BY <2>1 DEF SODRead
  <2>3. /\ dec'.cur = dec.cur /\ dec'.canDecode = dec.canDecode /\ dec'.checked = dec.checked
        /\ dec'.state = IF read = sot THEN "TPHSOT" ELSE "NEOC"
    BY <2>2 DEF TilesInv, TypeOK
  <2>4. PICK t \in Tiles : t = dec.cur
    BY <2>2 DEF TilesInv, FlagInv
  <2>5. tcp[t] \in [part : Nat \union {-1}, nb : Nat, hasData : BOOLEAN, data : Seq(Nat \X Nat)]
    BY DEF TilesInv, TypeOK
  <2>6. pos \in Nat /\ pos' \in 0 .. file.limit /\ (read # sot => pos' = file.limit)
    <3>1. /\ pos \in Nat /\ file.limit \in Nat /\ Left \in Nat /\ Left = file.limit - pos
      BY Types DEF TilesInv
    <3>2. /\ read = IF sot > Left THEN Left ELSE sot
          /\ pos' = pos + read
      BY <2>2
    <3>3. read <= Left /\ (read # sot => read = Left)
      BY <3>1, <3>2
    <3> QED
      BY <3>1, <3>2, <3>3
  <2>7. PICK d \in Seq(Nat \X Nat) :
           d = IF read = 0 THEN tcp[t].data ELSE Append(tcp[t].data, <<pos, pos + read>>)
    <3>1. <<pos, pos + read>> \in Nat \X Nat /\ tcp[t].data \in Seq(Nat \X Nat)
      BY <2>5, <2>6
    <3>2. Append(tcp[t].data, <<pos, pos + read>>) \in Seq(Nat \X Nat)
      BY <3>1
    <3> QED
      BY <3>1, <3>2
  <2>8. PICK has \in BOOLEAN : has = (tcp[t].hasData \/ sot # 0)
    OBVIOUS
  <2>9. tcp' = [tcp EXCEPT ![t] = [@ EXCEPT !.hasData = has, !.data = d]]
    BY <2>2, <2>4, <2>5, <2>7, <2>8 DEF TilesInv, TypeOK
  <2>10. /\ tcp'[t].part = tcp[t].part /\ tcp'[t].nb = tcp[t].nb
         /\ \A u \in Tiles : u # t => tcp'[u] = tcp[u]
    BY <2>5, <2>9 DEF TilesInv, TypeOK
  <2>11. \A u \in Tiles : Complete(u)' <=> Complete(u)
    BY <2>2, <2>10 DEF Complete, Wanted, request
  <2>12. TypeOK'
    <3>1. tcp' \in [Tiles -> [part : Nat \union {-1}, nb : Nat, hasData : BOOLEAN,
                              data : Seq(Nat \X Nat)]]
      BY <2>5, <2>7, <2>8, <2>9 DEF TilesInv, TypeOK
    <3>2. dec' \in [state : {"TPHSOT", "TPH", "NEOC", "EOC"}, cur : 0 .. NumTiles,
                    canDecode : BOOLEAN, lastTilePart : BOOLEAN, sotLength : Nat,
                    skipData : BOOLEAN, checked : BOOLEAN, correction : 0 .. 1]
      BY <2>2 DEF TilesInv, TypeOK
    <3> QED
      BY <2>2, <2>6, <3>1, <3>2 DEF TilesInv, TypeOK, request
  <2>13. FlagInv'
    <3>1. Left' = file.limit - pos' /\ file.limit \in Nat
      BY <2>2, Types DEF Left, request, TilesInv
    <3>2. dec.canDecode => Complete(t)
      BY <2>2, <2>4 DEF TilesInv, FlagInv, Ended
    <3>3. dec.canDecode => Complete(dec.cur)'
      BY <2>3, <2>4, <2>11, <3>2 DEF Complete, Wanted
    <3>4. dec'.state = "TPHSOT" \/ (dec'.state = "NEOC" /\ Left' = 0)
      BY <2>3, <2>6, <3>1
    <3>5. pc' = "next" /\ dec'.canDecode => dec'.checked
      BY <2>2, <2>3
    <3>6. pc' = "correct" => dec'.canDecode /\ ~dec'.checked
      BY <2>2, <2>3
    <3> QED
      BY <2>2, <2>3, <2>4, <3>3, <3>4, <3>5, <3>6 DEF FlagInv, Tiles
  <2>14. MarkerInv'
    BY <2>2 DEF MarkerInv
  <2>15. OnceInv'
    <3>1. ~IsDecoded(t)
      BY <2>2, <2>4 DEF TilesInv, OnceInv
    <3>2. \A u \in Tiles : IsDecoded(u)' => u # t /\ ~tcp'[u].hasData /\ dec'.checked /\ Complete(u)'
      <4> TAKE u \in Tiles
      <4> HAVE IsDecoded(u)'
      <4>1. IsDecoded(u)
        BY <2>2, SameDecoded
      <4>2. u # t /\ dec.checked /\ Complete(u) /\ ~tcp[u].hasData
        BY <2>2, <3>1, <4>1 DEF TilesInv, OnceInv, FlagInv, Ended
      <4> QED
        BY <2>3, <2>10, <2>11, <4>2
    <3>3. ~IsDecoded(dec.cur)'
      BY <2>2, <2>3, <2>4, <3>1 DEF IsDecoded
    <3> QED
      BY <3>2, <3>3 DEF OnceInv
  <2>16. NoTileTwice'
    BY <2>2 DEF TilesInv, NoTileTwice
  <2> QED
    BY <2>12, <2>13, <2>14, <2>15, <2>16 DEF TilesInv
<1> QED
  BY <1>1, <1>2

LEMMA CheckCorrectionTiles ==
    ASSUME TilesInv, CheckCorrection
    PROVE  TilesInv'
<1>1. CASE Fail
  BY <1>1, FailTiles
<1>2. CASE ~Fail
  <2>1. PICK c \in BOOLEAN : c = NeedsCorrection
    BY DEF NeedsCorrection
  <2>2. /\ pc = "correct" /\ pc' = "next"
        /\ dec' = [dec EXCEPT !.checked = TRUE, !.canDecode = ~c,
                              !.correction = IF c THEN 1 ELSE @]
        /\ tcp' = IF ~c THEN tcp
                  ELSE [t \in Tiles |-> [tcp[t] EXCEPT !.nb = IF @ = 0 THEN 0 ELSE @ + 1]]
        /\ UNCHANGED <<request, pos, marker, decoded>>
    BY <1>2, <2>1 DEF CheckCorrection
  <2>3. /\ dec'.cur = dec.cur /\ dec'.canDecode = ~c /\ dec'.checked = TRUE
        /\ dec'.state = dec.state
    BY <2>2 DEF TilesInv, TypeOK
  <2>4. \A u \in Tiles : IsDecoded(u) => Ended
    BY <2>2 DEF TilesInv, OnceInv, FlagInv
  <2>5. \A u \in Tiles : tcp'[u].hasData = tcp[u].hasData
    BY <2>2 DEF TilesInv, TypeOK
  <2>6. TypeOK'
    <3>1. tcp' \in [Tiles -> [part : Nat \union {-1}, nb : Nat, hasData : BOOLEAN,
                              data : Seq(Nat \X Nat)]]
      <4> DEFINE r(u) == [tcp[u] EXCEPT !.nb = IF @ = 0 THEN 0 ELSE @ + 1]
                 T == [part : Nat \union {-1}, nb : Nat, hasData : BOOLEAN, data : Seq(Nat \X Nat)]
      <4>1. tcp \in [Tiles -> T]
        BY DEF TilesInv, TypeOK
      <4>2. \A u \in Tiles : r(u) \in T
        <5> TAKE u \in Tiles
        <5>1. tcp[u] \in T /\ tcp[u].nb \in Nat
          BY <4>1
        <5>2. PICK n \in Nat : n = IF tcp[u].nb = 0 THEN 0 ELSE tcp[u].nb + 1
          BY <5>1
        <5>3. r(u) = [tcp[u] EXCEPT !.nb = n]
          BY <5>2
        <5> HIDE DEF r
        <5> QED
          BY <5>1, <5>3
      <4>3. tcp' = tcp \/ tcp' = [u \in Tiles |-> r(u)]
        BY <2>2
      <4> HIDE DEF r, T
      <4>4. tcp' \in [Tiles -> T]
        BY <4>1, <4>2, <4>3
      <4> QED
        BY <4>4 DEF T
    <3>2. dec' \in [state : {"TPHSOT", "TPH", "NEOC", "EOC"}, cur : 0 .. NumTiles,
                    canDecode : BOOLEAN, lastTilePart : BOOLEAN, sotLength : Nat,
                    skipData : BOOLEAN, checked : BOOLEAN, correction : 0 .. 1]
      <4>1. PICK n \in 0 .. 1 : n = IF c THEN 1 ELSE dec.correction
        BY Types DEF TilesInv
      <4>2. dec' = [dec EXCEPT !.checked = TRUE, !.canDecode = ~c, !.correction = n]
        BY <2>2, <4>1
      <4> QED
        BY <4>2 DEF TilesInv, TypeOK
    <3> QED
      BY <2>2, <3>1, <3>2 DEF TilesInv, TypeOK, request
  <2>7. FlagInv'
    <3>1. CASE c
      BY <2>2, <2>3, <3>1 DEF TilesInv, FlagInv, Left, request, Tiles
    <3>2. CASE ~c
      <4>1. tcp' = tcp
        BY <2>2, <3>2
      <4> QED
        BY <2>2, <2>3, <3>2, <4>1
          DEF TilesInv, FlagInv, Left, request, Tiles, Complete, Wanted, Ended
    <3> QED
      BY <3>1, <3>2
  <2>8. MarkerInv'
    BY <2>2 DEF MarkerInv
  <2>9. OnceInv'
    BY <2>2, <2>3, <2>4, <2>5 DEF TilesInv, OnceInv, Ended, IsDecoded
  <2>10. NoTileTwice'
    BY <2>2 DEF TilesInv, NoTileTwice
  <2> QED
    BY <2>6, <2>7, <2>8, <2>9, <2>10 DEF TilesInv
<1> QED
  BY <1>1, <1>2

LEMMA NextTilePartTiles ==
    ASSUME TilesInv, NextTilePart
    PROVE  TilesInv'
<1>1. CASE Fail
  BY <1>1, FailTiles
<1>2. CASE dec.canDecode /\ pc = "next" /\ pc' = "found"
           /\ UNCHANGED <<request, pos, marker, dec, tcp, decoded>>
  <2>1. TypeOK'
    BY <1>2 DEF TilesInv, TypeOK, request
  <2>2. FlagInv'
    BY <1>2 DEF TilesInv, FlagInv, Ended, Complete, Wanted, request
  <2>3. MarkerInv'
    BY <1>2 DEF MarkerInv
  <2>4. OnceInv'
    BY <1>2 DEF TilesInv, OnceInv, Ended, Complete, Wanted, request, IsDecoded
  <2>5. NoTileTwice'
    BY <1>2 DEF TilesInv, NoTileTwice
  <2> QED
    BY <2>1, <2>2, <2>3, <2>4, <2>5 DEF TilesInv
<1>3. CASE /\ pc = "next" /\ ~dec.canDecode /\ Left >= 2
           /\ marker' = MarkerAt(pos) /\ pos' = pos + 2
           /\ pc' = IF marker' = "EOC" THEN "found" ELSE "scan"
           /\ UNCHANGED <<request, dec, tcp, decoded>>
  <2>1. IsInput(file) /\ dec.state = "TPHSOT"
    BY <1>3, Types DEF TilesInv, FlagInv
  <2>2. TypeOK'
    <3>1. pos' \in 0 .. file.limit
      BY <1>3, Types DEF TilesInv
    <3>2. marker' \in {"SOT", "COM", "SOD", "EOC", "data"}
      BY <1>3, <2>1, MarkerFacts
    <3> QED
      BY <1>3, <3>1, <3>2 DEF TilesInv, TypeOK, request
  <2>3. FlagInv'
    BY <1>3, <2>1 DEF TilesInv, FlagInv, Ended
  <2>4. MarkerInv'
    <3>1. marker' = "SOT" => \E i \in 1 .. NumParts : pos' = StartOf[i] + 2
      BY <1>3, <2>1, MarkerFacts
    <3>2. UNCHANGED file
      BY <1>3 DEF request
    <3> QED
      BY <1>3, <2>1, <3>1, <3>2, SameFile DEF MarkerInv
  <2>5. OnceInv'
    BY <1>3 DEF TilesInv, OnceInv, Ended, Complete, Wanted, request, IsDecoded
  <2>6. NoTileTwice'
    BY <1>3 DEF TilesInv, NoTileTwice
  <2> QED
    BY <2>2, <2>3, <2>4, <2>5, <2>6 DEF TilesInv
<1>4. CASE /\ pc = "next" /\ ~dec.canDecode /\ Spot6 # {}
           /\ pos' = file.limit /\ marker' = "EOC" /\ pc' = "found"
           /\ dec' = [dec EXCEPT !.cur = Least(Spot6), !.state = "EOC"]
           /\ UNCHANGED <<request, tcp, decoded>>
  <2>1. PICK t \in Tiles : t = Least(Spot6)
    BY <1>4, LeastIn DEF Spot6
  <2>2. dec' = [dec EXCEPT !.cur = t, !.state = "EOC"]
    BY <1>4, <2>1
  <2>3. /\ dec'.cur = t /\ dec'.state = "EOC" /\ dec'.canDecode = dec.canDecode
    BY <2>2 DEF TilesInv, TypeOK
  <2>4. TypeOK'
    <3>1. t \in 0 .. NumTiles /\ pos' \in 0 .. file.limit
      BY <1>4, Types DEF TilesInv
    <3> QED
      BY <1>4, <2>2, <3>1 DEF TilesInv, TypeOK, request
  <2>5. FlagInv'
    BY <1>4, <2>3 DEF FlagInv, Ended, Tiles
  <2>6. MarkerInv'
    BY <1>4 DEF MarkerInv
  <2>7. OnceInv'
    BY <1>4, <2>3 DEF TilesInv, OnceInv, Ended, IsDecoded
  <2>8. NoTileTwice'
    BY <1>4 DEF TilesInv, NoTileTwice
  <2> QED
    BY <2>4, <2>5, <2>6, <2>7, <2>8 DEF TilesInv
<1>5. \/ Fail
      \/ dec.canDecode /\ pc = "next" /\ pc' = "found"
           /\ UNCHANGED <<request, pos, marker, dec, tcp, decoded>>
      \/ /\ pc = "next" /\ ~dec.canDecode /\ Left >= 2
         /\ marker' = MarkerAt(pos) /\ pos' = pos + 2
         /\ pc' = IF marker' = "EOC" THEN "found" ELSE "scan"
         /\ UNCHANGED <<request, dec, tcp, decoded>>
      \/ /\ pc = "next" /\ ~dec.canDecode /\ Spot6 # {}
         /\ pos' = file.limit /\ marker' = "EOC" /\ pc' = "found"
         /\ dec' = [dec EXCEPT !.cur = Least(Spot6), !.state = "EOC"]
         /\ UNCHANGED <<request, tcp, decoded>>
  <2>1. Left \in Nat
    BY Types DEF TilesInv
  <2> QED
    BY <2>1 DEF NextTilePart, LoopTop
<1> QED
  BY <1>1, <1>2, <1>3, <1>4, <1>5

LEMMA SelectTileTiles ==
    ASSUME TilesInv, SelectTile
    PROVE  TilesInv'
<1> DEFINE atEOC == marker = "EOC" /\ dec.state # "EOC"
<1>1. PICK from \in Tiles : from = IF atEOC THEN 0 ELSE dec.cur
  <2>1. dec.cur \in Tiles /\ 0 \in Tiles
    BY Types DEF SelectTile, TilesInv, FlagInv
  <2> QED
    BY <2>1
<1>2. PICK state : state = IF atEOC THEN "EOC" ELSE dec.state
  OBVIOUS
<1> DEFINE withData == {t \in Tiles : t >= from /\ tcp[t].hasData}
<1>3. /\ pc = "found"
      /\ IF dec.canDecode
           THEN dec' = [dec EXCEPT !.state = state, !.cur = from] /\ pc' = "decode"
           ELSE /\ dec' = [dec EXCEPT !.state = state,
                               !.cur = IF withData = {} THEN NumTiles ELSE Least(withData)]
                /\ pc' = IF withData = {} THEN "finish" ELSE "decode"
      /\ UNCHANGED <<request, pos, marker, tcp, decoded>>
  BY <1>1, <1>2 DEF SelectTile, Selected
<1>4. PICK c \in 0 .. NumTiles :
         /\ dec' = [dec EXCEPT !.state = state, !.cur = c]
         /\ dec.canDecode => c = from
         /\ pc' = "decode" => c \in Tiles
         /\ pc' \in {"decode", "finish"}
  <2>1. withData # {} => Least(withData) \in Tiles
    <3>1. withData \subseteq Tiles
      OBVIOUS
    <3> HIDE DEF withData
    <3> QED
      BY <3>1, LeastIn
  <2>2. Tiles \subseteq 0 .. NumTiles /\ NumTiles \in 0 .. NumTiles
    BY Types DEF TilesInv
  <2> HIDE DEF withData
  <2> QED
    BY <1>3, <2>1, <2>2
<1> HIDE DEF withData
<1>5. state \in {"TPHSOT", "TPH", "NEOC", "EOC"} /\ state # "TPH"
  BY <1>2, <1>3, Types DEF TilesInv, FlagInv
<1>6. /\ dec'.state = state /\ dec'.cur = c /\ dec'.canDecode = dec.canDecode
      /\ dec'.checked = dec.checked
  BY <1>4 DEF TilesInv, TypeOK
<1>7. TypeOK'
  BY <1>3, <1>4, <1>5 DEF TilesInv, TypeOK, request
<1>8. FlagInv'
  <2>1. Ended => Ended'
    BY <1>2, <1>6 DEF Ended
  <2>2. ~dec.canDecode => Ended'
    <3>1. ~dec.canDecode => Ended \/ marker = "EOC"
      BY <1>3 DEF TilesInv, FlagInv
    <3>2. marker = "EOC" => state = "EOC"
      BY <1>2
    <3> QED
      BY <1>6, <2>1, <3>1, <3>2 DEF Ended
  <2>3. dec.canDecode => Complete(dec.cur)' \/ Ended'
    <3>1. dec.canDecode => Complete(dec.cur) \/ Ended
      BY <1>3 DEF TilesInv, FlagInv
    <3>2. atEOC => Ended'
      BY <1>2, <1>6 DEF Ended
    <3>3. ~atEOC /\ dec.canDecode => c = dec.cur
      BY <1>1, <1>4
    <3>4. c = dec.cur /\ Complete(dec.cur) => Complete(dec.cur)'
      BY <1>3, <1>6 DEF Complete, Wanted, request
    <3> QED
      BY <2>1, <3>1, <3>2, <3>3, <3>4
  <2>4. dec.canDecode => dec.checked \/ Ended
    BY <1>3 DEF TilesInv, FlagInv
  <2>5. pc' # "finish" => dec'.cur \in Tiles /\ Tiles' = Tiles
    BY <1>4, <1>6 DEF Tiles
  <2> QED
    BY <1>4, <1>5, <1>6, <2>1, <2>2, <2>3, <2>4, <2>5 DEF FlagInv
<1>9. MarkerInv'
  BY <1>4 DEF MarkerInv
<1>10. OnceInv'
  <2>1. Ended => Ended'
    BY <1>2, <1>6 DEF Ended
  <2>2. ASSUME NEW u \in Tiles, IsDecoded(u)'
        PROVE  ~tcp'[u].hasData /\ (Ended' \/ (dec'.checked /\ Complete(u)'))
    <3>1. IsDecoded(u)
      BY <1>3, <2>2, SameDecoded
    <3>2. ~tcp[u].hasData /\ (Ended \/ (dec.checked /\ Complete(u)))
      BY <3>1 DEF TilesInv, OnceInv
    <3> QED
      BY <1>3, <1>6, <2>1, <3>2, SameTiles
  <2> QED
    BY <1>4, <2>2 DEF OnceInv
<1>11. NoTileTwice'
  BY <1>3 DEF TilesInv, NoTileTwice
<1> QED
  BY <1>7, <1>8, <1>9, <1>10, <1>11 DEF TilesInv

LEMMA DecodeTileTiles ==
    ASSUME TilesInv, DecodeTile
    PROVE  TilesInv'
<1>1. CASE Fail
  BY <1>1, FailTiles
<1>2. CASE ~Fail
  <2>1. PICK t \in Tiles : t = dec.cur
    BY DEF DecodeTile, TilesInv, FlagInv
  <2>2. /\ pc = "decode" /\ pc' = "after" /\ tcp[t].hasData
        /\ decoded' = Append(decoded, [tile |-> t, data |-> tcp[t].data, at |-> pos])
        /\ tcp' = [tcp EXCEPT ![t].hasData = FALSE, ![t].data = <<>>]
        /\ dec' = [dec EXCEPT !.canDecode = FALSE]
        /\ UNCHANGED <<request, pos, marker>>
    BY <1>2, <2>1 DEF DecodeTile, DropData
  <2>3. /\ dec'.cur = t /\ dec'.canDecode = FALSE /\ dec'.checked = dec.checked
        /\ dec'.state = dec.state
    BY <2>1, <2>2 DEF TilesInv, TypeOK
  <2>4. tcp[t] \in [part : Nat \union {-1}, nb : Nat, hasData : BOOLEAN, data : Seq(Nat \X Nat)]
    BY DEF TilesInv, TypeOK
  <2>5. tcp' = [tcp EXCEPT ![t] = [@ EXCEPT !.hasData = FALSE, !.data = <<>>]]
    BY <2>2, <2>4 DEF TilesInv, TypeOK
  <2>6. /\ tcp'[t].part = tcp[t].part /\ tcp'[t].nb = tcp[t].nb /\ tcp'[t].hasData = FALSE
        /\ \A u \in Tiles : u # t => tcp'[u] = tcp[u]
    BY <2>4, <2>5 DEF TilesInv, TypeOK
  <2>7. \A u \in Tiles : Complete(u)' <=> Complete(u)
    BY <2>2, <2>6 DEF Complete, Wanted, request
  <2> DEFINE D == [tile : Tiles, data : Seq(Nat \X Nat), at : Nat]
             new == [tile |-> t, data |-> tcp[t].data, at |-> pos]
  <2>8. new \in D /\ decoded \in Seq(D) /\ new.tile = t
    BY <2>4, Types DEF TilesInv, TypeOK
  <2>9. /\ decoded' \in Seq(D) /\ Len(decoded') = Len(decoded) + 1 /\ Len(decoded) \in Nat
        /\ decoded'[Len(decoded) + 1] = new
        /\ \A k \in 1 .. Len(decoded) : decoded'[k] = decoded[k]
    <3>1. decoded' = Append(decoded, new)
      BY <2>2
    <3> HIDE DEF new, D
    <3> QED
      BY <2>8, <3>1
  <2>10. ~IsDecoded(t)
    BY <2>2 DEF TilesInv, OnceInv
  <2> HIDE DEF new
  <2>11. \A u : IsDecoded(u)' => u = t \/ IsDecoded(u)
    <3> TAKE u
    <3> HAVE IsDecoded(u)'
    <3>1. PICK k \in 1 .. Len(decoded) + 1 : decoded'[k].tile = u
      BY <2>9 DEF IsDecoded
    <3>2. CASE k = Len(decoded) + 1
      BY <2>8, <2>9, <3>1, <3>2
    <3>3. CASE k # Len(decoded) + 1
      <4>1. k \in 1 .. Len(decoded)
        BY <2>9, <3>3
      <4> QED
        BY <2>9, <3>1, <4>1 DEF IsDecoded
    <3> QED
      BY <3>2, <3>3
  <2>12. TypeOK'
    <3>1. tcp' \in [Tiles -> [part : Nat \union {-1}, nb : Nat, hasData : BOOLEAN,
                              data : Seq(Nat \X Nat)]]
      <4>1. PICK e \in Seq(Nat \X Nat) : e = <<>>
        <5>1. <<>> \in Seq(Nat \X Nat)
          OBVIOUS
        <5> QED
          BY <5>1
      <4>2. tcp' = [tcp EXCEPT ![t] = [@ EXCEPT !.hasData = FALSE, !.data = e]]
        BY <2>5, <4>1
      <4> QED
        BY <2>4, <4>2 DEF TilesInv, TypeOK
    <3> QED
      BY <2>2, <2>9, <3>1 DEF TilesInv, TypeOK, request
  <2>13. FlagInv'
    BY <2>1, <2>2, <2>3 DEF TilesInv, FlagInv, Tiles
  <2>14. MarkerInv'
    BY <2>2 DEF MarkerInv
  <2>15. OnceInv'
    <3>1. Ended' <=> Ended
      BY <2>3 DEF Ended
    <3>2. Ended \/ (dec.checked /\ Complete(t))
      BY <2>1, <2>2 DEF TilesInv, FlagInv
    <3>3. ASSUME NEW u \in Tiles, IsDecoded(u)'
          PROVE  ~tcp'[u].hasData /\ (Ended' \/ (dec'.checked /\ Complete(u)'))
      <4>1. CASE u = t
        BY <2>3, <2>6, <2>7, <3>1, <3>2, <4>1
      <4>2. CASE u # t
        <5>1. IsDecoded(u)
          BY <2>11, <3>3, <4>2
        <5>2. ~tcp[u].hasData /\ (Ended \/ (dec.checked /\ Complete(u)))
          BY <5>1 DEF TilesInv, OnceInv
        <5> QED
          BY <2>3, <2>6, <2>7, <3>1, <4>2, <5>2
      <4> QED
        BY <4>1, <4>2
    <3> QED
      BY <2>2, <3>3 DEF OnceInv
  <2>16. NoTileTwice'
    <3> DEFINE N == Len(decoded)
    <3>1. \A k \in 1 .. N : decoded'[k].tile # t
      BY <2>9, <2>10 DEF IsDecoded
    <3>2. \A j, k \in 1 .. N : decoded'[j].tile = decoded'[k].tile => j = k
      BY <2>9 DEF TilesInv, NoTileTwice
    <3>3. decoded'[N + 1].tile = t /\ N \in Nat /\ Len(decoded') = N + 1
      BY <2>8, <2>9
    <3> HIDE DEF N
    <3>4. \A j, k \in 1 .. N + 1 : decoded'[j].tile = decoded'[k].tile => j = k
      <4> TAKE j \in 1 .. N + 1
      <4> TAKE k \in 1 .. N + 1
      <4>1. (j = N + 1 \/ j \in 1 .. N) /\ (k = N + 1 \/ k \in 1 .. N)
        BY <3>3
      <4> QED
        BY <3>1, <3>2, <3>3, <4>1
    <3> QED
      BY <3>3, <3>4 DEF NoTileTwice
  <2> QED
    BY <2>12, <2>13, <2>14, <2>15, <2>16 DEF TilesInv
<1> QED
  BY <1>1, <1>2

LEMMA AfterTileTiles ==
    ASSUME TilesInv, AfterTile
    PROVE  TilesInv'
\* Where LoopOn goes on.
<1>1. ASSUME NEW at, NEW state, LoopOn(at, state)
      PROVE  /\ pos' = 2 \/ pos' = at
             /\ pc' \in {"finish", "enter"}
             /\ pc' = "enter" => pos' = at
  BY <1>1 DEF LoopOn
<1>2. /\ pc = "after" /\ ~dec.canDecode /\ dec.state # "TPH" /\ dec.cur \in Tiles
      /\ UNCHANGED <<request, marker, tcp, decoded>>
  BY DEF AfterTile, TilesInv, FlagInv
<1>3. file.limit \in Nat /\ file.limit >= 2
  BY Types DEF TilesInv, IsInput
<1>4. \A t : (Complete(t)' <=> Complete(t)) /\ (IsDecoded(t)' <=> IsDecoded(t))
  BY <1>2, SameTiles, SameDecoded
\* What is left to show once dec' and pos' are known.
<1>5. ASSUME /\ \/ dec' = dec
                \/ dec' = [dec EXCEPT !.cur = 0, !.state = "EOC"]
                \/ dec' = [dec EXCEPT !.state = "NEOC"]
             /\ pos' \in 0 .. file.limit
             /\ pc' \in {"finish", "enter", "error"}
             /\ pc' = "enter" /\ dec'.state = "TPHSOT" =>
                   Left' = 0 \/ \E i \in 1 .. NumParts : pos' = StartOf[i] + 2
      PROVE  TilesInv'
  <2>1. /\ dec'.canDecode = dec.canDecode /\ dec'.checked = dec.checked
        /\ dec'.cur \in Tiles /\ dec'.state # "TPH"
        /\ Ended => Ended'
        /\ dec' = dec \/ Ended'
    <3>1. 0 \in Tiles
      BY Types DEF TilesInv
    <3> QED
      BY <1>2, <1>5, <3>1 DEF TilesInv, TypeOK, Ended
  <2>2. TypeOK'
    <3>1. dec' \in [state : {"TPHSOT", "TPH", "NEOC", "EOC"}, cur : 0 .. NumTiles,
                    canDecode : BOOLEAN, lastTilePart : BOOLEAN, sotLength : Nat,
                    skipData : BOOLEAN, checked : BOOLEAN, correction : 0 .. 1]
      <4>1. 0 \in 0 .. NumTiles
        BY Types DEF TilesInv
      <4> QED
        BY <1>5, <4>1 DEF TilesInv, TypeOK
    <3> QED
      BY <1>2, <1>5, <3>1 DEF TilesInv, TypeOK, request
  <2>3. FlagInv'
    BY <1>2, <1>5, <2>1 DEF FlagInv, Tiles
  <2>4. MarkerInv'
    <3>1. file' = file
      BY <1>2 DEF request
    <3> QED
      BY <1>2, <1>5, <2>1, <3>1, SameFile DEF MarkerInv
  <2>5. OnceInv'
    BY <1>2, <1>4, <1>5, <2>1 DEF TilesInv, OnceInv
  <2>6. NoTileTwice'
    BY <1>2 DEF TilesInv, NoTileTwice
  <2> QED
    BY <2>2, <2>3, <2>4, <2>5, <2>6 DEF TilesInv
<1>6. pos \in 0 .. file.limit /\ 2 \in 0 .. file.limit /\ file.limit \in 0 .. file.limit
  BY <1>3 DEF TilesInv, TypeOK
<1>7. CASE NothingBehind
  <2>1. dec' = dec /\ dec.state # "TPHSOT" /\ LoopOn(pos, dec.state)
    BY <1>7 DEF NothingBehind
  <2> QED
    BY <1>1, <1>5, <1>6, <2>1
<1>8. CASE CutBehind
  <2>1. CASE pc' = "error" /\ dec' = dec /\ pos' = pos
    BY <1>5, <1>6, <2>1
  <2>2. CASE dec' = dec /\ LoopOn(file.limit, dec.state)
    <3>1. pos' = file.limit => Left' = 0
      BY <1>2, <1>3 DEF Left, request
    <3> QED
      BY <1>1, <1>5, <1>6, <2>2, <3>1
  <2> QED
    BY <1>8, <2>1, <2>2 DEF CutBehind
<1>9. CASE MarkerBehind
  <2>1. pos + 2 \in 0 .. file.limit /\ pos \in Nat
    BY <1>9, Types DEF MarkerBehind, TilesInv
  <2>2. CASE dec' = [dec EXCEPT !.cur = 0, !.state = "EOC"] /\ LoopOn(pos + 2, "EOC")
    <3>1. dec'.state = "EOC"
      BY <2>2 DEF TilesInv, TypeOK
    <3> QED
      BY <1>1, <1>5, <1>6, <2>1, <2>2, <3>1
  <2>3. CASE MarkerAt(pos) = "SOT" /\ dec' = dec /\ LoopOn(pos + 2, dec.state)
    <3>1. \E i \in 1 .. NumParts : pos + 2 = StartOf[i] + 2
      <4>1. \E i \in 1 .. NumParts : pos = StartOf[i]
        BY <2>3, MarkerFacts, Types DEF TilesInv
      <4> QED
        BY <4>1
    <3> QED
      BY <1>1, <1>5, <1>6, <2>1, <2>3, <3>1
  <2>4. CASE dec' = [dec EXCEPT !.state = "NEOC"] /\ LoopOn(pos + 2, "NEOC")
    <3>1. dec'.state = "NEOC"
      BY <2>4 DEF TilesInv, TypeOK
    <3> QED
      BY <1>1, <1>5, <1>6, <2>1, <2>4, <3>1
  <2>5. CASE pc' = "error" /\ UNCHANGED <<pos, dec>>
    BY <1>5, <1>6, <2>5
  <2> QED
    BY <1>9, <2>2, <2>3, <2>4, <2>5 DEF MarkerBehind
<1> QED
  BY <1>7, <1>8, <1>9 DEF AfterTile

LEMMA FinishTiles ==
    ASSUME TilesInv, Finish
    PROVE  TilesInv'
<1>1. /\ pc' \in {"ok", "error"}
      /\ UNCHANGED <<request, pos, marker, dec, tcp, decoded>>
  BY DEF Finish
<1>2. TypeOK'
  BY <1>1 DEF TilesInv, TypeOK, request
<1>3. FlagInv'
  BY <1>1 DEF FlagInv
<1>4. MarkerInv'
  BY <1>1 DEF MarkerInv
<1>5. OnceInv'
  BY <1>1, SameDecoded, SameTiles DEF TilesInv, OnceInv, Ended
<1>6. NoTileTwice'
  BY <1>1 DEF TilesInv, NoTileTwice
<1> QED
  BY <1>2, <1>3, <1>4, <1>5, <1>6 DEF TilesInv

LEMMA TilesInit ==
    ASSUME Init
    PROVE  TilesInv
<1>1. IsInput(file) /\ file.limit \in Nat /\ file.limit >= 2
  BY TilePartsAssumption DEF Init, IsInput
<1>2. /\ pos = 2 /\ marker = "SOT" /\ decoded = <<>> /\ pc = "enter"
      /\ dec = [state |-> "TPHSOT", cur |-> 0, canDecode |-> FALSE,
                lastTilePart |-> FALSE, sotLength |-> 0, skipData |-> FALSE,
                checked |-> FALSE, correction |-> 0]
      /\ tcp = [t \in Tiles |-> [part |-> -1, nb |-> 0, hasData |-> FALSE, data |-> <<>>]]
  BY DEF Init
<1>3. NumTiles \in Nat /\ NumTiles >= 2 /\ 0 \in Tiles
  BY TilePartsAssumption DEF Tiles
<1>4. ~(\E t : IsDecoded(t)) /\ Len(decoded) = 0
  BY <1>2 DEF IsDecoded
<1>5. TypeOK
  <2>1. tcp \in [Tiles -> [part : Nat \union {-1}, nb : Nat, hasData : BOOLEAN,
                           data : Seq(Nat \X Nat)]]
    <3>1. <<>> \in Seq(Nat \X Nat)
      OBVIOUS
    <3> QED
      BY <1>2, <3>1
  <2>2. dec \in [state : {"TPHSOT", "TPH", "NEOC", "EOC"}, cur : 0 .. NumTiles,
                 canDecode : BOOLEAN, lastTilePart : BOOLEAN, sotLength : Nat,
                 skipData : BOOLEAN, checked : BOOLEAN, correction : 0 .. 1]
    BY <1>2, <1>3
  <2>3. target \in Tiles \union {-1} /\ window \subseteq Tiles /\ strict \in BOOLEAN
    BY DEF Init
  <2>4. decoded \in Seq([tile : Tiles, data : Seq(Nat \X Nat), at : Nat])
    BY <1>2
  <2>5. pos \in 0 .. file.limit
    BY <1>1, <1>2
  <2> QED
    BY <1>1, <1>2, <2>1, <2>2, <2>3, <2>4, <2>5 DEF TypeOK
<1>6. FlagInv
  BY <1>2, <1>3 DEF FlagInv
<1>7. MarkerInv
  <2>1. 1 \in 1 .. NumParts /\ pos = StartOf[1] + 2
    BY <1>1, <1>2, Layout
  <2> QED
    BY <1>2, <2>1 DEF MarkerInv
<1>8. OnceInv
  BY <1>2, <1>4 DEF OnceInv
<1>9. NoTileTwice
  BY <1>4 DEF NoTileTwice
<1> QED
  BY <1>5, <1>6, <1>7, <1>8, <1>9 DEF TilesInv

LEMMA TilesStutter ==
    ASSUME TilesInv, UNCHANGED vars
    PROVE  TilesInv'
<1> USE DEF vars
<1>1. TypeOK'
  BY DEF TilesInv, TypeOK
<1>2. FlagInv'
  BY DEF TilesInv, FlagInv, Ended, Complete, Wanted, Left, Tiles
<1>3. MarkerInv'
  BY SameFile DEF TilesInv, MarkerInv, Left
<1>4. OnceInv'
  BY DEF TilesInv, OnceInv, Ended, Complete, Wanted, IsDecoded
<1>5. NoTileTwice'
  BY DEF TilesInv, NoTileTwice
<1> QED
  BY <1>1, <1>2, <1>3, <1>4, <1>5 DEF TilesInv

LEMMA TilesInvariant == Spec => []TilesInv
<1>1. ASSUME TilesInv, [Next]_vars PROVE TilesInv'
  BY <1>1, TilesStutter, EnterTileHeaderTiles, EndOfStreamTiles, ReadSOTTiles,
     ReadHeaderSegmentTiles, SkipTilePartTiles, ReadSODTiles, CheckCorrectionTiles,
     NextTilePartTiles, SelectTileTiles, DecodeTileTiles, AfterTileTiles, FinishTiles
  DEF Next
<1> QED
  BY TilesInit, <1>1, PTL DEF Spec

\* One request decodes no tile twice, whatever the codestream announces and wherever it
\* is cut: readSOT takes no tile-part of a tile that has been decoded (decodeTiles,
\* decodeOneTile).
THEOREM TileDecodedOnce == Spec => []NoTileTwice
BY TilesInvariant, PTL DEF TilesInv

\* Every variable has its type; the lengths that readSOT and the header segments leave
\* to readSOD never become negative.
THEOREM TilePartsTypes == Spec => []TypeOK
BY TilesInvariant, PTL DEF TilesInv

-------------------------------------------------------------------------------
(* The data of a tile. *)

\* The tile-parts of a tile that have data, counted one by one.
LEMMA CountStep ==
    ASSUME IsInput(file), NEW t
    PROVE  /\ Count(t, 1) = 0
           /\ \A i \in 1 .. NumParts + 1 : Count(t, i) \in Nat
           /\ \A i \in 1 .. NumParts :
                 Count(t, i + 1) = IF i \in WithData(t, i + 1) THEN Count(t, i) + 1 ELSE Count(t, i)
           /\ \A i, j \in 1 .. NumParts + 1 : i <= j => Count(t, i) <= Count(t, j)
<1> DEFINE N == NumParts
<1>1. N \in Nat
  BY Layout
<1> HIDE DEF N
<1>2. ASSUME NEW i \in 1 .. N + 1
      PROVE  IsFiniteSet(WithData(t, i)) /\ Count(t, i) \in Nat
  <2>1. IsFiniteSet(1 .. i - 1)
    BY <1>1, FS_Interval
  <2>2. WithData(t, i) \subseteq 1 .. i - 1
    BY DEF WithData
  <2> QED
    BY <2>1, <2>2, FS_Subset, FS_CardinalityType DEF Count
<1>3. Count(t, 1) = 0
  <2>1. WithData(t, 1) = {}
    BY DEF WithData
  <2> QED
    BY <2>1, FS_EmptySet DEF Count
<1>4. ASSUME NEW i \in 1 .. N
      PROVE  Count(t, i + 1) = IF i \in WithData(t, i + 1) THEN Count(t, i) + 1 ELSE Count(t, i)
  <2>1. i \notin WithData(t, i) /\ i \in 1 .. N + 1
    BY <1>1 DEF WithData
  <2>2. CASE i \in WithData(t, i + 1)
    <3>1. WithData(t, i + 1) = WithData(t, i) \union {i}
      BY <1>1, <2>2 DEF WithData
    <3> QED
      BY <1>2, <2>1, <2>2, <3>1, FS_AddElement DEF Count
  <2>3. CASE i \notin WithData(t, i + 1)
    <3>1. WithData(t, i + 1) = WithData(t, i)
      BY <1>1, <2>3 DEF WithData
    <3> QED
      BY <2>3, <3>1 DEF Count
  <2> QED
    BY <2>2, <2>3
<1>5. ASSUME NEW i \in 1 .. N + 1, NEW j \in 1 .. N + 1, i <= j
      PROVE  Count(t, i) <= Count(t, j)
  <2>1. WithData(t, i) \subseteq WithData(t, j)
    BY <1>1, <1>5 DEF WithData
  <2> QED
    BY <1>2, <2>1, FS_Subset DEF Count
<1> QED
  BY <1>2, <1>3, <1>4, <1>5 DEF N

\* The data of tile-part i has its place in DataOf.
LEMMA DataOfPart ==
    ASSUME IsInput(file), NEW t, NEW i \in 1 .. NumParts,
           file.parts[i].tile = t, file.parts[i].len # 0
    PROVE  /\ Count(t, i + 1) = Count(t, i) + 1
           /\ Count(t, i) + 1 <= Count(t, NumParts + 1)
           /\ DataOf(t)[Count(t, i) + 1] = <<DataAt(i), DataEnd(i)>>
<1> DEFINE N == NumParts
           W == WithData(t, N + 1)
           P(j) == j \in W /\ Count(t, j) = Count(t, i)
           c == CHOOSE j : P(j)
<1>1. N \in Nat /\ i \in 1 .. N /\ i \in 1 .. N + 1 /\ i + 1 \in 1 .. N + 1 /\ N + 1 \in 1 .. N + 1
  BY Layout
<1>2. /\ \A j \in 1 .. N + 1 : Count(t, j) \in Nat
      /\ \A j \in 1 .. N :
            Count(t, j + 1) = IF j \in WithData(t, j + 1) THEN Count(t, j) + 1 ELSE Count(t, j)
      /\ \A j, k \in 1 .. N + 1 : j <= k => Count(t, j) <= Count(t, k)
  BY CountStep
<1>3. i \in W /\ i \in WithData(t, i + 1)
  BY <1>1 DEF WithData
<1>4. Count(t, i + 1) = Count(t, i) + 1 /\ Count(t, i) + 1 <= Count(t, N + 1)
  <2> HIDE DEF N
  <2>1. Count(t, i + 1) = Count(t, i) + 1
    BY <1>1, <1>2, <1>3
  <2>2. i + 1 <= N + 1
    BY <1>1
  <2>3. Count(t, i + 1) <= Count(t, N + 1)
    BY <1>1, <1>2, <2>2
  <2> QED
    BY <2>1, <2>3
\* No other one has the same rank.
<1>5. ASSUME NEW j \in W, NEW k \in W, j < k
      PROVE  Count(t, j) # Count(t, k)
  <2>1. j \in 1 .. N /\ k \in 1 .. N /\ j + 1 \in 1 .. N + 1 /\ j \in 1 .. N + 1 /\ k \in 1 .. N + 1
    BY <1>1 DEF WithData
  <2>2. j \in WithData(t, j + 1)
    BY <2>1 DEF WithData
  <2> HIDE DEF N, W
  <2>3. Count(t, j + 1) = Count(t, j) + 1
    BY <1>2, <2>1, <2>2
  <2>4. j + 1 <= k
    BY <1>5, <2>1
  <2>5. Count(t, j + 1) <= Count(t, k)
    BY <1>2, <2>1, <2>4
  <2> QED
    BY <1>2, <2>1, <2>3, <2>5
<1>6. P(c)
  <2>1. P(i)
    BY <1>3
  <2> HIDE DEF P
  <2> QED
    BY <2>1
<1>7. c = i
  <2> HIDE DEF c
  <2>1. c \in 1 .. N
    BY <1>6, <1>1 DEF WithData
  <2>2. ~(c < i) /\ ~(i < c)
    BY <1>3, <1>5, <1>6
  <2> QED
    BY <1>1, <2>1, <2>2
<1>8. DataOf(t)[Count(t, i) + 1] = <<DataAt(c), DataEnd(c)>>
  <2> DEFINE m == Count(t, i) + 1
             d(k) == LET j == CHOOSE j \in W : Count(t, j) = k - 1 IN <<DataAt(j), DataEnd(j)>>
  <2>1. m \in 1 .. Count(t, N + 1) /\ m - 1 = Count(t, i)
    <3>1. Count(t, i) \in Nat /\ Count(t, N + 1) \in Nat
      BY <1>1, <1>2
    <3> QED
      BY <1>4, <3>1
  <2>2. DataOf(t) = [k \in 1 .. Count(t, N + 1) |-> d(k)]
    BY DEF DataOf
  <2>3. DataOf(t)[m] = d(m)
    <3> HIDE DEF d, m
    <3> QED
      BY <2>1, <2>2
  <2>4. d(m) = <<DataAt(c), DataEnd(c)>>
    BY <2>1
  <2> QED
    BY <2>3, <2>4
<1> QED
  BY <1>4, <1>7, <1>8

\* Every entry of DataOf up to a tile-part is a range of bytes.
LEMMA DataOfType ==
    ASSUME IsInput(file), NEW t, NEW i \in 1 .. NumParts + 1
    PROVE  \A k \in 1 .. Count(t, i) : DataOf(t)[k] \in Nat \X Nat
<1> DEFINE N == NumParts
           S == {j \in 1 .. N + 1 : \A k \in 1 .. Count(t, j) : DataOf(t)[k] \in Nat \X Nat}
<1>1. N \in Nat /\ 1 \in Int /\ N + 1 \in Int
  BY Layout
<1>2. 1 \in S
  BY <1>1, CountStep
<1>3. \A j \in 1 .. (N + 1) - 1 : j \in S => j + 1 \in S
  <2> TAKE j \in 1 .. (N + 1) - 1
  <2> HAVE j \in S
  <2>1. j \in 1 .. N /\ j + 1 \in 1 .. N + 1 /\ j \in 1 .. N + 1
    BY <1>1
  <2>2. CASE j \in WithData(t, j + 1)
    <3>1. /\ Count(t, j + 1) = Count(t, j) + 1 /\ Count(t, j) \in Nat
          /\ DataOf(t)[Count(t, j) + 1] = <<DataAt(j), DataEnd(j)>>
      BY <2>1, <2>2, DataOfPart, CountStep DEF WithData
    <3>2. <<DataAt(j), DataEnd(j)>> \in Nat \X Nat
      <4>1. /\ StartOf[j] \in Nat /\ file.parts[j].len \in Nat /\ file.parts[j].hdr \in {0, 1}
            /\ DataAt(j) = StartOf[j] + 14 + 4 * file.parts[j].hdr
            /\ DataEnd(j) = DataAt(j) + file.parts[j].len
        BY <2>1, Layout
      <4> QED
        BY <4>1
    <3>3. \A k \in 1 .. Count(t, j) + 1 : k \in 1 .. Count(t, j) \/ k = Count(t, j) + 1
      BY <3>1
    <3>4. \A k \in 1 .. Count(t, j + 1) : DataOf(t)[k] \in Nat \X Nat
      BY <3>1, <3>2, <3>3
    <3> QED
      BY <2>1, <3>4
  <2>3. CASE j \notin WithData(t, j + 1)
    <3>1. Count(t, j + 1) = Count(t, j)
      BY <2>1, <2>3, CountStep
    <3> QED
      BY <2>1, <3>1
  <2> QED
    BY <2>2, <2>3
<1>4. 1 .. N + 1 \subseteq S
  <2> HIDE DEF N, S
  <2> QED
    BY <1>1, <1>2, <1>3, IntervalInduction
<1> QED
  BY <1>4

\* One tile-part further: its data, if it is the tile's.
LEMMA DataUpToNext ==
    ASSUME IsInput(file), NEW t, NEW i \in 1 .. NumParts
    PROVE  DataUpTo(t, i + 1) =
              IF file.parts[i].tile = t /\ file.parts[i].len # 0
                THEN Append(DataUpTo(t, i), <<DataAt(i), DataEnd(i)>>)
                ELSE DataUpTo(t, i)
<1>1. i \in 1 .. NumParts + 1 /\ Count(t, i) \in Nat
  BY Layout, CountStep
<1>2. CASE file.parts[i].tile = t /\ file.parts[i].len # 0
  <2> DEFINE n == Count(t, i)
             x == <<DataAt(i), DataEnd(i)>>
             D == DataOf(t)
  <2>1. Count(t, i + 1) = n + 1 /\ D[n + 1] = x /\ n \in Nat
    BY <1>1, <1>2, DataOfPart
  <2>2. DataUpTo(t, i) = [k \in 1 .. n |-> D[k]] /\ DataUpTo(t, i + 1) = [k \in 1 .. n + 1 |-> D[k]]
    BY <2>1 DEF DataUpTo
  <2> HIDE DEF n, x, D
  <2>3. Append([k \in 1 .. n |-> D[k]], x) = [k \in 1 .. n + 1 |-> D[k]]
    BY <2>1
  <2> QED
    BY <1>2, <2>2, <2>3 DEF x
<1>3. CASE ~(file.parts[i].tile = t /\ file.parts[i].len # 0)
  <2>1. i \notin WithData(t, i + 1)
    BY <1>3 DEF WithData
  <2>2. Count(t, i + 1) = Count(t, i)
    BY <2>1, CountStep
  <2> QED
    BY <1>3, <2>2 DEF DataUpTo
<1> QED
  BY <1>2, <1>3

LEMMA DataOfLen ==
    ASSUME IsInput(file), NEW t
    PROVE  Len(DataOf(t)) = Count(t, NumParts + 1)
<1> DEFINE m == Count(t, NumParts + 1)
           d(k) == LET j == CHOOSE j \in WithData(t, NumParts + 1) : Count(t, j) = k - 1
                   IN  <<DataAt(j), DataEnd(j)>>
<1>1. DataOf(t) = [k \in 1 .. m |-> d(k)]
  BY DEF DataOf
<1>2. m \in Nat
  <2>1. NumParts + 1 \in 1 .. NumParts + 1
    BY Layout
  <2> QED
    BY <2>1, CountStep
<1> HIDE DEF d, m
<1>3. Len([k \in 1 .. m |-> d(k)]) = m
  BY <1>2
<1> QED
  BY <1>1, <1>3 DEF m

\* Nothing has been read before the first tile-part.
LEMMA DataUpToFirst ==
    ASSUME IsInput(file), NEW t
    PROVE  DataUpTo(t, 1) = <<>>
<1>1. Count(t, 1) = 0
  BY CountStep
<1> QED
  BY <1>1 DEF DataUpTo

\* The data up to a tile-part is a beginning of the whole, and so it is with a piece
\* of the data of that tile-part.
LEMMA DataUpToBegins ==
    ASSUME IsInput(file), NEW t, NEW i \in 1 .. NumParts + 1
    PROVE  IsBeginningOf(DataUpTo(t, i), DataOf(t))
<1> DEFINE n == Count(t, i)
           m == Count(t, NumParts + 1)
           D == DataOf(t)
<1>1. NumParts + 1 \in 1 .. NumParts + 1 /\ i <= NumParts + 1
  BY Layout
<1>2. n \in Nat /\ m \in Nat /\ n <= m
  BY <1>1, CountStep
<1>3. \A k \in 1 .. n : D[k] \in Nat \X Nat
  BY DataOfType
<1>4. DataUpTo(t, i) = [k \in 1 .. n |-> D[k]]
  BY DEF DataUpTo
<1>5. Len(D) = m
  BY DataOfLen
<1> HIDE DEF n, m, D
<1>6. IsBeginningOf([k \in 1 .. n |-> D[k]], D)
  BY <1>2, <1>3, <1>5 DEF IsBeginningOf
<1> QED
  BY <1>4, <1>6 DEF D

LEMMA PieceBegins ==
    ASSUME IsInput(file), NEW t, NEW i \in 1 .. NumParts, NEW e \in Nat,
           file.parts[i].tile = t, file.parts[i].len # 0, e <= DataEnd(i)
    PROVE  IsBeginningOf(Append(DataUpTo(t, i), <<DataAt(i), e>>), DataOf(t))
<1> DEFINE n == Count(t, i)
           m == Count(t, NumParts + 1)
           D == DataOf(t)
           a == DataAt(i)
           z == DataEnd(i)
<1>1. n \in Nat /\ m \in Nat
  <2>1. i \in 1 .. NumParts + 1 /\ NumParts + 1 \in 1 .. NumParts + 1
    BY Layout
  <2> QED
    BY <2>1, CountStep
<1>2. n + 1 <= m /\ D[n + 1] = <<a, z>>
  BY DataOfPart
<1>3. IsBeginningOf(DataUpTo(t, i), D)
  <2>1. i \in 1 .. NumParts + 1
    BY Layout
  <2> QED
    BY <2>1, DataUpToBegins
<1>4. DataUpTo(t, i) = [k \in 1 .. n |-> D[k]]
  BY DEF DataUpTo
<1>5. Len(D) = m
  BY DataOfLen
<1>6. \A k \in 1 .. n : D[k] \in Nat \X Nat
  <2>1. i \in 1 .. NumParts + 1
    BY Layout
  <2> QED
    BY <2>1, DataOfType
<1>7. e <= z
  OBVIOUS
<1> HIDE DEF n, m, D, a, z
<1> DEFINE u == [k \in 1 .. n + 1 |-> IF k = n + 1 THEN <<a, e>> ELSE D[k]]
<1>8. Append([k \in 1 .. n |-> D[k]], <<a, e>>) = u
  BY <1>1
<1>9. IsBeginningOf(u, D)
  BY <1>1, <1>2, <1>5, <1>6, <1>7 DEF IsBeginningOf
<1> QED
  BY <1>4, <1>8, <1>9 DEF D, a

-------------------------------------------------------------------------------
(* A tile is decoded from its own data: one lemma per action. *)

LEMMA SameRequest ==
    ASSUME request' = request
    PROVE  /\ file' = file /\ NumParts' = NumParts /\ StartOf' = StartOf /\ Tiles' = Tiles
           /\ \A i : DataAt(i)' = DataAt(i) /\ DataEnd(i)' = DataEnd(i)
           /\ \A t : /\ Wanted(t)' <=> Wanted(t)
                     /\ DataOf(t)' = DataOf(t)
                     /\ \A i : DataUpTo(t, i)' = DataUpTo(t, i)
<1>1. file' = file /\ target' = target /\ window' = window
  BY DEF request
<1>2. /\ NumParts' = NumParts /\ StartOf' = StartOf /\ Tiles' = Tiles
      /\ \A i : DataAt(i)' = DataAt(i) /\ DataEnd(i)' = DataEnd(i)
      /\ \A t : Wanted(t)' <=> Wanted(t)
  BY <1>1, SameFile DEF Wanted, Tiles
<1>3. \A t, i : WithData(t, i)' = WithData(t, i) /\ Count(t, i)' = Count(t, i)
  BY <1>1 DEF WithData, Count
<1>4. \A t : DataOf(t)' = DataOf(t)
  BY <1>1 DEF DataOf, WithData, Count, NumParts, StartOf, DataAt, DataEnd
<1>5. \A t, i : DataUpTo(t, i)' = DataUpTo(t, i)
  BY <1>3, <1>4 DEF DataUpTo
<1> QED
  BY <1>1, <1>2, <1>4, <1>5

\* A step that gives no data to a requested tile.
LEMMA KeepsData ==
    ASSUME request' = request,
           \A t \in Tiles : Wanted(t) /\ ~IsDecoded(t)' =>
                               ~IsDecoded(t) /\ tcp'[t].data = tcp[t].data
    PROVE  /\ DataSound => DataSound'
           /\ \A i : HasUpTo(i) => HasUpTo(i)'
<1>1. DataSound => DataSound'
  BY SameRequest DEF DataSound
<1>2. \A i : HasUpTo(i) => HasUpTo(i)'
  BY SameRequest DEF HasUpTo
<1> QED
  BY <1>1, <1>2

\* A step that only moves the reader: the same tile-part, or nothing any more.
LEMMA OnlyMoves ==
    ASSUME TilesInv, DataInv, request' = request, decoded' = decoded,
           \A t \in Tiles : tcp'[t].data = tcp[t].data,
           IsPast => IsPast',
           \A i \in 1 .. NumParts + 1 : Place(i) /\ ~IsPast => IsPast' \/ Place(i)'
    PROVE  DataInv'
<1>1. \A t \in Tiles : Wanted(t) /\ ~IsDecoded(t)' => ~IsDecoded(t) /\ tcp'[t].data = tcp[t].data
  BY SameDecoded
<1>2. DataSound' /\ \A i : HasUpTo(i) => HasUpTo(i)'
  BY <1>1, KeepsData DEF DataInv
<1>3. Located'
  <2>1. NumParts' = NumParts
    BY SameRequest
  <2> QED
    BY <1>2, <2>1 DEF DataInv, Located
<1>4. OwnDataInOrder'
  BY SameRequest DEF DataInv, OwnDataInOrder
<1> QED
  BY <1>2, <1>3, <1>4 DEF DataInv

LEMMA FailData ==
    ASSUME TilesInv, DataInv, Fail
    PROVE  DataInv'
<1>1. IsPast'
  BY DEF Fail, IsPast
<1> QED
  BY <1>1, OnlyMoves DEF Fail

LEMMA EnterTileHeaderData ==
    ASSUME TilesInv, DataInv, EnterTileHeader
    PROVE  DataInv'
<1>1. CASE Fail
  BY <1>1, FailData
<1>2. CASE ~Fail
  <2>1. /\ UNCHANGED <<request, pos, dec, tcp, decoded>>
        /\ pc = "enter" /\ ~dec.canDecode
        /\ \/ dec.state = "EOC"
           \/ dec.state = "TPHSOT" /\ marker' = "SOT" /\ pc' = "scan"
    BY <1>2 DEF EnterTileHeader, LoopTop, TilesInv, FlagInv
  <2>2. IsPast => IsPast'
    BY <2>1 DEF IsPast, Ended, Left, request, BehindTail, InTail
  <2>3. ASSUME NEW i \in 1 .. NumParts + 1, Place(i) PROVE IsPast' \/ Place(i)'
    <3>1. AtSOT(i)
      BY <2>1, <2>3 DEF Place, InPart, Before
    <3>2. AtSOT(i)'
      BY <2>1, <3>1, SameRequest DEF AtSOT
    <3> QED
      BY <3>2 DEF Place
  <2> QED
    BY <2>1, <2>2, <2>3, OnlyMoves
<1> QED
  BY <1>1, <1>2

LEMMA EndOfStreamData ==
    ASSUME TilesInv, DataInv, EndOfStream
    PROVE  DataInv'
<1>1. IsPast'
  BY DEF EndOfStream, IsPast, Ended, TilesInv, TypeOK
<1> QED
  BY <1>1, OnlyMoves DEF EndOfStream

\* The tile-part that readSOT accepts is the one the reader is at; it is in it then, or
\* at the end of the stream.
LEMMA ReadSOTPlace ==
    ASSUME TilesInv, NEW i \in 1 .. NumParts + 1, AtSOT(i),
           NEW k \in 1 .. NumParts, NEW p \in Parts, NEW t \in Tiles, NEW nb \in Nat,
           NEW last \in BOOLEAN, NEW sot \in Nat, SOTRead(k, p, t, nb, last, sot)
    PROVE  /\ i \in 1 .. NumParts /\ p = file.parts[i]
           /\ pc' = "error" \/ Left' = 0 \/ InPart(i)'
<1>1. /\ p = file.parts[k] /\ t = p.tile
      /\ pos = StartOf[k] + 2 /\ Left >= 10
      /\ pc = "scan" /\ marker = "SOT" /\ ~dec.canDecode
      /\ last = (dec.lastTilePart \/ p.psot0)
      /\ sot = IF last THEN 0 ELSE PartLen(p) - 12
      /\ dec' = [dec EXCEPT !.cur = t, !.lastTilePart = last, !.canDecode = (nb = p.tp + 1),
                            !.sotLength = sot, !.state = "TPH", !.skipData = ~Wanted(t)]
      /\ IF Wanted(t) THEN ReadMarker(pos + 10) ELSE SkipData(pos + 10, sot)
      /\ UNCHANGED <<request, decoded>>
  BY DEF SOTRead
<1>2. /\ dec'.cur = t /\ dec'.lastTilePart = last /\ dec'.sotLength = sot
      /\ dec'.state = "TPH" /\ dec'.skipData = ~Wanted(t)
  BY <1>1 DEF TilesInv, TypeOK
<1>3. file.limit \in Nat /\ pos \in Nat /\ IsInput(file)
  BY Types DEF TilesInv
<1>4. Left' = file.limit - pos'
  BY <1>1 DEF Left, request
<1>5. i \in 1 .. NumParts /\ pos = StartOf[i] + 2 /\ ~dec.lastTilePart
  BY <1>3, Layout DEF AtSOT
<1>6. file.parts[i] = p
  BY <1>1, <1>3, <1>5, PartHereIs
<1>7. last = p.psot0 /\ last \in BOOLEAN
  BY <1>1, <1>5 DEF Parts
<1>8. /\ StartOf[i] \in Nat /\ p.hdr \in {0, 1} /\ p.len \in Nat
      /\ PartLen(p) = 14 + 4 * p.hdr + p.len
      /\ DataAt(i) = StartOf[i] + 14 + 4 * p.hdr
      /\ DataEnd(i) = DataAt(i) + p.len
  BY <1>3, <1>5, <1>6, Layout
<1>9. CASE Wanted(t) /\ pc' # "error"
  <2>1. /\ marker' = MarkerAt(StartOf[i] + 12) /\ pos' = StartOf[i] + 14 /\ pc' = "scan"
    <3>1. pos + 10 = StartOf[i] + 12 /\ pos + 10 + 2 = StartOf[i] + 14
      BY <1>5, <1>8
    <3> QED
      BY <1>1, <1>9, <3>1 DEF ReadMarker
  <2>2. marker' = IF p.hdr = 1 THEN "COM" ELSE "SOD"
    BY <1>3, <1>5, <1>6, <1>8, <2>1, MarkerFacts
  <2>3. pos' = DataAt(i) <=> p.hdr = 0
    BY <1>8, <2>1
  <2>4. sot = IF last THEN 0 ELSE DataEnd(i) + 2 - pos'
    BY <1>1, <1>8, <2>1
  <2>5. InHeader(i)'
    <3>1. ~dec'.skipData /\ Wanted(dec.cur)'
      <4>1. ~dec'.skipData
        BY <1>2, <1>9
      <4>2. dec'.cur = t /\ target' = target /\ window' = window /\ Wanted(t)
        BY <1>1, <1>2, <1>9 DEF request
      <4>3. Wanted(dec.cur)'
        BY <4>2 DEF Wanted
      <4> QED
        BY <4>1, <4>3
    <3>2. /\ StartOf'[i] = StartOf[i] /\ DataAt(i)' = DataAt(i) /\ DataEnd(i)' = DataEnd(i)
      BY <1>1, SameRequest
    <3>3. dec'.sotLength = IF dec'.lastTilePart THEN 0 ELSE DataEnd(i) + 2 - pos'
      BY <1>2, <2>4
    <3>4. pos' \in {StartOf[i] + 14, DataAt(i)} /\ marker' = IF pos' = DataAt(i) THEN "SOD" ELSE "COM"
      BY <1>8, <2>1, <2>2, <2>3
    <3> QED
      BY <3>1, <3>2, <3>3, <3>4 DEF InHeader
  <2>6. InPart(i)'
    BY <1>1, <1>2, <1>5, <1>6, <1>7, <2>1, <2>5, SameRequest DEF InPart
  <2> QED
    BY <1>5, <1>6, <2>6
<1>10. CASE ~Wanted(t) /\ pc' # "error"
  <2>1. /\ marker' = "SOD" /\ pc' = "scan"
        /\ pos' = IF pos + 10 + sot <= file.limit THEN pos + 10 + sot ELSE file.limit
    BY <1>1, <1>10 DEF SkipData
  <2>2. CASE pos' = file.limit
    <3>1. Left' = 0
      BY <1>3, <1>4, <2>2
    <3> QED
      BY <1>5, <1>6, <3>1
  <2>3. CASE pos' = pos + 10 + sot
    <3>1. pos' = IF last THEN StartOf[i] + 12 ELSE DataEnd(i)
      BY <1>1, <1>5, <1>8, <2>3
    <3>2. Skipped(i)'
      BY <1>1, <1>2, <1>10, <2>1, <3>1, SameRequest DEF Skipped, Wanted
    <3>3. InPart(i)'
      BY <1>1, <1>2, <1>5, <1>6, <1>7, <2>1, <3>2, SameRequest DEF InPart
    <3> QED
      BY <1>5, <1>6, <3>3
  <2> QED
    BY <2>1, <2>2, <2>3
<1> QED
  BY <1>5, <1>6, <1>9, <1>10

LEMMA ReadSOTData ==
    ASSUME TilesInv, DataInv, ReadSOT
    PROVE  DataInv'
<1>1. CASE Fail
  BY <1>1, FailData
<1>2. CASE ~Fail
  <2>1. PICK k \in 1 .. NumParts, p \in Parts, t \in Tiles, nb \in Nat, last \in BOOLEAN, sot \in Nat :
           SOTRead(k, p, t, nb, last, sot)
    BY <1>2, ReadSOTEffect
  <2>2. /\ Left >= 10 /\ pc = "scan" /\ marker = "SOT"
        /\ tcp' = [tcp EXCEPT ![t].part = p.tp, ![t].nb = nb]
        /\ UNCHANGED <<request, decoded>>
    BY <2>1 DEF SOTRead
  <2>3. \A u \in Tiles : tcp'[u].data = tcp[u].data
    <3>1. \A u \in Tiles : u # t => tcp'[u] = tcp[u]
      BY <2>2 DEF TilesInv, TypeOK
    <3>2. tcp[t] \in [part : Nat \union {-1}, nb : Nat, hasData : BOOLEAN, data : Seq(Nat \X Nat)]
      BY DEF TilesInv, TypeOK
    <3>3. tcp'[t] = [tcp[t] EXCEPT !.part = p.tp, !.nb = nb]
      BY <2>2 DEF TilesInv, TypeOK
    <3> QED
      BY <3>1, <3>2, <3>3
  <2>4. ~IsPast
    <3>1. Left \in Nat
      BY Types DEF TilesInv
    <3> QED
      BY <2>2, <3>1 DEF IsPast, Ended, BehindTail, InTail, TilesInv, FlagInv
  <2>5. ASSUME NEW i \in 1 .. NumParts + 1, Place(i) PROVE IsPast' \/ Place(i)'
    <3>1. AtSOT(i)
      BY <2>2, <2>5 DEF Place, InPart, Before, InHeader, Skipped
    <3>2. pc' = "error" \/ Left' = 0 \/ InPart(i)'
      BY <2>1, <3>1, ReadSOTPlace
    <3> QED
      BY <3>2 DEF IsPast, Place
  <2> QED
    BY <2>2, <2>3, <2>4, <2>5, OnlyMoves
<1> QED
  BY <1>1, <1>2

\* Behind another marker segment the reader is in the same tile-part.
LEMMA ReadHeaderSegmentPlace ==
    ASSUME TilesInv, ReadHeaderSegment, ~Fail, NEW i \in 1 .. NumParts + 1, InPart(i)
    PROVE  InPart(i)'
<1>1. /\ pc = "scan" /\ marker = "COM" /\ Left # 0 /\ dec.state = "TPH"
      /\ dec' = [dec EXCEPT !.sotLength = IF @ = 0 THEN 0 ELSE @ - 4]
      /\ marker' = MarkerAt(pos + 2) /\ pos' = pos + 4
      /\ UNCHANGED <<request, tcp, decoded, pc>>
  BY DEF ReadHeaderSegment
<1>2. /\ dec'.cur = dec.cur /\ dec'.lastTilePart = dec.lastTilePart /\ dec'.state = dec.state
      /\ dec'.skipData = dec.skipData
      /\ dec'.sotLength = IF dec.sotLength = 0 THEN 0 ELSE dec.sotLength - 4
  BY <1>1 DEF TilesInv, TypeOK
<1>3. InHeader(i)
  BY <1>1 DEF InPart, Skipped
<1>4. i \in 1 .. NumParts /\ IsInput(file)
  BY Layout, Types DEF InPart, TilesInv
<1>5. /\ StartOf[i] \in Nat /\ file.parts[i].hdr \in {0, 1} /\ file.parts[i].len \in Nat
      /\ DataAt(i) = StartOf[i] + 14 + 4 * file.parts[i].hdr
      /\ DataEnd(i) = DataAt(i) + file.parts[i].len
  BY <1>4, Layout
<1>6. pos = StartOf[i] + 14 /\ pos # DataAt(i)
  BY <1>1, <1>3 DEF InHeader
<1>7. file.parts[i].hdr = 1 /\ pos' = DataAt(i) /\ pos + 2 = StartOf[i] + 16
  BY <1>1, <1>5, <1>6
<1>8. marker' = "SOD"
  BY <1>1, <1>4, <1>7, MarkerFacts
<1>9. dec.sotLength = IF dec.lastTilePart THEN 0 ELSE DataEnd(i) + 2 - pos
  BY <1>3 DEF InHeader
<1>10. dec'.sotLength = IF dec'.lastTilePart THEN 0 ELSE DataEnd(i) + 2 - pos'
  BY <1>2, <1>5, <1>6, <1>7, <1>9
<1>11. InHeader(i)'
  BY <1>1, <1>2, <1>3, <1>7, <1>8, <1>10, SameRequest DEF InHeader, Wanted
<1> QED
  BY <1>1, <1>2, <1>11, SameRequest DEF InPart

LEMMA ReadHeaderSegmentData ==
    ASSUME TilesInv, DataInv, ReadHeaderSegment
    PROVE  DataInv'
<1>1. CASE Fail
  BY <1>1, FailData
<1>2. CASE ~Fail
  <2>1. /\ pc = "scan" /\ marker = "COM" /\ Left # 0 /\ dec.state = "TPH"
        /\ UNCHANGED <<request, tcp, decoded, pc>>
    BY <1>2 DEF ReadHeaderSegment
  <2>2. ~IsPast
    BY <2>1 DEF IsPast, Ended, BehindTail, InTail
  <2>3. ASSUME NEW i \in 1 .. NumParts + 1, Place(i) PROVE Place(i)'
    <3>1. InPart(i)
      BY <2>1, <2>3 DEF Place, AtSOT, Before
    <3>2. InPart(i)'
      BY <1>2, <3>1, ReadHeaderSegmentPlace
    <3> QED
      BY <3>2 DEF Place
  <2> QED
    BY <2>1, <2>2, <2>3, OnlyMoves
<1> QED
  BY <1>1, <1>2

LEMMA SkipTilePartData ==
    ASSUME TilesInv, DataInv, SkipTilePart
    PROVE  DataInv'
<1>1. /\ pc = "scan" /\ marker = "SOD" /\ dec.skipData /\ pc' = "next"
      /\ dec' = [dec EXCEPT !.skipData = FALSE, !.canDecode = FALSE, !.state = "TPHSOT"]
      /\ UNCHANGED <<request, pos, marker, tcp, decoded>>
  BY DEF SkipTilePart
<1>2. /\ dec'.cur = dec.cur /\ ~dec'.canDecode /\ dec'.state = "TPHSOT" /\ ~dec'.skipData
      /\ dec'.lastTilePart = dec.lastTilePart
  BY <1>1 DEF TilesInv, TypeOK
<1>3. IsInput(file) /\ Left' = Left /\ file' = file
  BY <1>1, Types DEF TilesInv, Left, request
<1>4. DataSound' /\ (\A i : HasUpTo(i) => HasUpTo(i)')
  BY <1>1, SameDecoded, KeepsData DEF DataInv
<1>5. OwnDataInOrder'
  BY <1>1, SameRequest DEF DataInv, OwnDataInOrder
<1>6. CASE IsPast
  <2>1. Left = 0
    BY <1>1, <1>6 DEF IsPast, Ended, BehindTail, InTail, TilesInv, FlagInv
  <2>2. Located'
    BY <1>3, <2>1 DEF Located, IsPast
  <2> QED
    BY <1>4, <1>5, <2>2 DEF DataInv
<1>7. ASSUME NEW i \in 1 .. NumParts + 1, Place(i), HasUpTo(i)
      PROVE  Located'
  <2>1. InPart(i) /\ Skipped(i)
    BY <1>1, <1>7 DEF Place, AtSOT, InPart, Before, InHeader
  <2>2. i \in 1 .. NumParts /\ i + 1 \in 1 .. NumParts + 1
    BY <1>3, <2>1, Layout DEF InPart
  <2>3. dec.cur = file.parts[i].tile /\ dec.lastTilePart = file.parts[i].psot0 /\ ~Wanted(dec.cur)
    BY <2>1 DEF InPart, Skipped
  <2>4. CASE dec.lastTilePart
    <3>1. i = NumParts
      BY <1>3, <2>2, <2>3, <2>4, OpenEndLast
    <3>2. pos = StartOf[NumParts] + 12
      BY <2>1, <2>4, <3>1 DEF Skipped
    <3>3. ~Wanted(dec.cur)'
      BY <1>1, <1>2, <2>3 DEF Wanted, request
    <3>4. NumParts' = NumParts /\ StartOf' = StartOf
      BY <1>3, SameFile
    <3>5. InTail'
      BY <1>1, <1>2, <2>4, <3>2, <3>3, <3>4 DEF InTail
    <3> QED
      BY <3>5 DEF Located, IsPast
  <2>5. CASE ~dec.lastTilePart
    <3>1. pos = StartOf[i + 1]
      BY <1>3, <2>1, <2>2, <2>5, Layout DEF Skipped
    <3>2. NumParts' = NumParts /\ StartOf' = StartOf
      BY <1>3, SameFile
    <3>3. Before(i + 1)'
      BY <1>1, <1>2, <2>5, <3>1, <3>2 DEF Before
    <3>4. HasUpTo(i + 1)
      <4> SUFFICES ASSUME NEW u \in Tiles, Wanted(u), ~IsDecoded(u)
                   PROVE  tcp[u].data = DataUpTo(u, i + 1)
        BY DEF HasUpTo
      <4>1. file.parts[i].tile # u
        BY <2>3
      <4>2. DataUpTo(u, i + 1) = DataUpTo(u, i)
        BY <1>3, <2>2, <4>1, DataUpToNext
      <4> QED
        BY <1>7, <4>2 DEF HasUpTo
    <3> QED
      BY <1>4, <2>2, <3>2, <3>3, <3>4 DEF Located, Place
  <2> QED
    BY <2>4, <2>5
<1> QED
  BY <1>4, <1>5, <1>6, <1>7 DEF DataInv, Located

LEMMA ReadSODData ==
    ASSUME TilesInv, DataInv, ReadSOD
    PROVE  DataInv'
<1>1. CASE Fail
  BY <1>1, FailData
<1>2. CASE ~Fail
  <2>1. PICK sot \in Nat, read \in Nat : SODRead(sot, read) /\ (read # sot => read = Left)
    BY <1>2, ReadSODEffect
  <2>2. /\ sot = IF dec.lastTilePart THEN Left - 2
                 ELSE IF dec.sotLength >= 2 THEN dec.sotLength - 2 ELSE dec.sotLength
        /\ read = IF sot > Left THEN Left ELSE sot
        /\ pc = "scan" /\ marker = "SOD" /\ ~dec.skipData
        /\ tcp' = [tcp EXCEPT ![dec.cur].hasData = @ \/ sot # 0,
                              ![dec.cur].data = IF read = 0 THEN @ ELSE Append(@, <<pos, pos + read>>)]
        /\ dec' = [dec EXCEPT !.sotLength = sot, !.state = IF read = sot THEN "TPHSOT" ELSE "NEOC"]
        /\ pos' = pos + read
        /\ pc' \in {"correct", "next"}
        /\ UNCHANGED <<request, marker, decoded>>
    BY <2>1 DEF SODRead
  <2>3. /\ dec'.cur = dec.cur /\ dec'.lastTilePart = dec.lastTilePart
        /\ dec'.state = IF read = sot THEN "TPHSOT" ELSE "NEOC"
    BY <2>2 DEF TilesInv, TypeOK
  <2>4. PICK t \in Tiles : t = dec.cur
    BY <2>2 DEF TilesInv, FlagInv
  <2>5. /\ tcp'[t].data = IF read = 0 THEN tcp[t].data ELSE Append(tcp[t].data, <<pos, pos + read>>)
        /\ \A u \in Tiles : u # t => tcp'[u] = tcp[u]
    <3>1. tcp[t] \in [part : Nat \union {-1}, nb : Nat, hasData : BOOLEAN, data : Seq(Nat \X Nat)]
      BY DEF TilesInv, TypeOK
    <3>2. PICK d : d = IF read = 0 THEN tcp[t].data ELSE Append(tcp[t].data, <<pos, pos + read>>)
      OBVIOUS
    <3>3. PICK has : has = (tcp[t].hasData \/ sot # 0)
      OBVIOUS
    <3>4. tcp' = [tcp EXCEPT ![t] = [@ EXCEPT !.hasData = has, !.data = d]]
      BY <2>2, <2>4, <3>1, <3>2, <3>3 DEF TilesInv, TypeOK
    <3>5. /\ tcp'[t] = [tcp[t] EXCEPT !.hasData = has, !.data = d]
          /\ \A u \in Tiles : u # t => tcp'[u] = tcp[u]
      BY <3>4 DEF TilesInv, TypeOK
    <3> QED
      BY <3>1, <3>2, <3>5
  <2>6. /\ IsInput(file) /\ file.limit \in Nat /\ pos \in Nat /\ Left \in Nat
        /\ Left = file.limit - pos /\ dec.lastTilePart \in BOOLEAN
    BY Types DEF TilesInv
  <2>7. Left' = file.limit - pos' /\ file' = file
    BY <2>2 DEF Left, request
  <2>8. ~IsDecoded(t)
    BY <2>2, <2>4 DEF TilesInv, OnceInv
  <2>9. OwnDataInOrder'
    BY <2>2, SameRequest DEF DataInv, OwnDataInOrder
  \* The end of the stream has been reached.
  <2>10. read # sot => Located'
    <3>1. read # sot => Left' = 0
      BY <2>1, <2>2, <2>6, <2>7
    <3> QED
      BY <3>1 DEF Located, IsPast
  <2>11. dec.lastTilePart => Located'
    <3> SUFFICES ASSUME dec.lastTilePart, read = sot PROVE Located'
      BY <2>10
    <3>1. Left' = 2
      BY <2>2, <2>6, <2>7
    <3>2. BehindTail'
      BY <2>2, <2>3, <3>1 DEF BehindTail
    <3> QED
      BY <3>2 DEF Located, IsPast
  <2>12. /\ read <= sot /\ read <= Left
         /\ dec.lastTilePart => sot = Left - 2
         /\ ~dec.lastTilePart => sot = IF dec.sotLength >= 2 THEN dec.sotLength - 2 ELSE dec.sotLength
    <3>1. read = IF sot > Left THEN Left ELSE sot
      BY <2>2
    <3>2. read <= sot /\ read <= Left
      BY <2>6, <3>1
    <3>3. dec.lastTilePart => sot = Left - 2
      BY <2>2
    <3>4. ~dec.lastTilePart => sot = IF dec.sotLength >= 2 THEN dec.sotLength - 2 ELSE dec.sotLength
      BY <2>2
    <3> QED
      BY <3>2, <3>3, <3>4
  <2>13. ASSUME IsPast PROVE DataSound' /\ Located'
    <3>1. Left = 0 \/ InTail
      BY <2>2, <2>13 DEF IsPast, Ended, BehindTail, TilesInv, FlagInv
    <3>2. CASE Left = 0
      <4>1. read = 0 /\ Left' = 0
        <5>1. read = 0
          BY <2>12, <3>2
        <5>2. pos' = pos
          BY <2>2, <2>6, <5>1
        <5> QED
          BY <2>6, <2>7, <3>2, <5>1, <5>2
      <4>2. \A u \in Tiles : Wanted(u) /\ ~IsDecoded(u)' => ~IsDecoded(u) /\ tcp'[u].data = tcp[u].data
        BY <2>2, <2>5, <4>1, SameDecoded
      <4> QED
        BY <2>2, <4>1, <4>2, KeepsData DEF DataInv, Located, IsPast
    <3>3. CASE InTail
      <4>1. ~Wanted(t) /\ dec.lastTilePart
        BY <2>4, <3>3 DEF InTail
      <4>2. \A u \in Tiles : Wanted(u) /\ ~IsDecoded(u)' => ~IsDecoded(u) /\ tcp'[u].data = tcp[u].data
        BY <2>2, <2>5, <4>1, SameDecoded
      <4> QED
        BY <2>2, <2>11, <4>1, <4>2, KeepsData DEF DataInv
    <3> QED
      BY <3>1, <3>2, <3>3
  <2>14. ASSUME NEW i \in 1 .. NumParts + 1, Place(i), HasUpTo(i)
         PROVE  DataSound' /\ Located'
    <3>1. InPart(i) /\ InHeader(i)
      BY <2>2, <2>14 DEF Place, AtSOT, InPart, Before, Skipped
    <3>2. i \in 1 .. NumParts /\ i + 1 \in 1 .. NumParts + 1
      BY <2>6, <3>1, Layout DEF InPart
    <3>3. /\ t = file.parts[i].tile /\ dec.lastTilePart = file.parts[i].psot0 /\ Wanted(t)
          /\ pos = DataAt(i)
          /\ dec.sotLength = IF dec.lastTilePart THEN 0 ELSE DataEnd(i) + 2 - pos
      BY <2>2, <2>4, <3>1 DEF InPart, InHeader
    <3>4. /\ file.parts[i].len \in Nat /\ DataEnd(i) = DataAt(i) + file.parts[i].len
          /\ StartOf[i + 1] = DataEnd(i)
      BY <2>6, <3>2, Layout
    <3>5. ~dec.lastTilePart => sot = file.parts[i].len
      BY <2>6, <2>12, <3>3, <3>4
    <3>6. pos + read <= DataEnd(i)
      <4>1. CASE dec.lastTilePart
        <5>1. i = NumParts
          BY <2>6, <3>2, <3>3, <4>1, OpenEndLast
        <5>2. file.limit <= StartOf[i + 1] + 2
          <6>1. StartOf[i + 1] \in Nat
            BY <3>3, <3>4, <2>6
          <6>2. file.limit <= StartOf[i + 1] + IF file.eoc THEN 2 ELSE 0
            BY <2>6, <5>1 DEF IsInput, NumParts, StartOf
          <6> QED
            BY <2>6, <6>1, <6>2
        <5>3. pos + read <= file.limit - 2
          BY <2>6, <2>12, <4>1
        <5> QED
          BY <2>6, <3>3, <3>4, <5>2, <5>3
      <4>2. CASE ~dec.lastTilePart
        BY <2>6, <2>12, <3>3, <3>4, <3>5, <4>2
      <4> QED
        BY <4>1, <4>2
    <3>7. tcp[t].data = DataUpTo(t, i)
      BY <2>8, <2>14, <3>3 DEF HasUpTo
    <3>8. DataSound'
      <4>1. IsBeginningOf(tcp'[t].data, DataOf(t))
        <5>1. CASE read = 0
          BY <2>5, <2>8, <3>3, <5>1 DEF DataInv, DataSound
        <5>2. CASE read # 0
          <6>1. file.parts[i].len # 0 /\ pos + read \in Nat
            BY <2>6, <3>3, <3>4, <3>6, <5>2
          <6>2. tcp'[t].data = Append(DataUpTo(t, i), <<DataAt(i), pos + read>>)
            BY <2>5, <3>3, <3>7, <5>2
          <6> QED
            BY <2>6, <3>2, <3>3, <3>6, <6>1, <6>2, PieceBegins
        <5> QED
          BY <5>1, <5>2
      <4>2. \A u \in Tiles : Wanted(u) /\ ~IsDecoded(u) => IsBeginningOf(tcp'[u].data, DataOf(u))
        BY <2>5, <4>1 DEF DataInv, DataSound
      <4> QED
        BY <2>2, <4>2, SameRequest, SameDecoded DEF DataSound
    <3>9. ~dec.lastTilePart /\ read = sot => Located'
      <4> SUFFICES ASSUME ~dec.lastTilePart, read = sot PROVE Located'
        OBVIOUS
      <4>1. pos' = StartOf[i + 1] /\ pos + read = DataEnd(i)
        BY <2>2, <2>6, <3>3, <3>4, <3>5
      <4>2. NumParts' = NumParts /\ StartOf' = StartOf
        BY <2>7, SameFile
      <4>3. Before(i + 1)'
        BY <2>2, <2>3, <4>1, <4>2 DEF Before
      <4>4. \A u \in Tiles : Wanted(u) /\ ~IsDecoded(u) => tcp'[u].data = DataUpTo(u, i + 1)
        <5> TAKE u \in Tiles
        <5> HAVE Wanted(u) /\ ~IsDecoded(u)
        <5>1. tcp[u].data = DataUpTo(u, i)
          BY <2>14 DEF HasUpTo
        <5>2. DataUpTo(u, i + 1) = IF t = u /\ file.parts[i].len # 0
                                     THEN Append(DataUpTo(u, i), <<DataAt(i), DataEnd(i)>>)
                                     ELSE DataUpTo(u, i)
          BY <2>6, <3>2, <3>3, DataUpToNext
        <5>3. read = file.parts[i].len
          BY <3>5
        <5>4. CASE u = t
          BY <2>5, <3>3, <4>1, <5>1, <5>2, <5>3, <5>4
        <5>5. CASE u # t
          BY <2>5, <5>1, <5>2, <5>5
        <5> QED
          BY <5>4, <5>5
      <4>5. HasUpTo(i + 1)'
        BY <2>2, <4>4, SameRequest, SameDecoded DEF HasUpTo
      <4> QED
        BY <3>2, <4>2, <4>3, <4>5 DEF Located, Place
    <3> QED
      BY <2>10, <2>11, <3>8, <3>9
  <2> QED
    BY <2>9, <2>13, <2>14 DEF DataInv, Located
<1> QED
  BY <1>1, <1>2

LEMMA CheckCorrectionData ==
    ASSUME TilesInv, DataInv, CheckCorrection
    PROVE  DataInv'
<1>1. CASE Fail
  BY <1>1, FailData
<1>2. CASE ~Fail
  <2>1. PICK c \in BOOLEAN : c = NeedsCorrection
    BY DEF NeedsCorrection
  <2>2. /\ pc = "correct" /\ pc' = "next"
        /\ dec' = [dec EXCEPT !.checked = TRUE, !.canDecode = ~c,
                              !.correction = IF c THEN 1 ELSE @]
        /\ tcp' = IF ~c THEN tcp
                  ELSE [t \in Tiles |-> [tcp[t] EXCEPT !.nb = IF @ = 0 THEN 0 ELSE @ + 1]]
        /\ UNCHANGED <<request, pos, marker, decoded>>
    BY <1>2, <2>1 DEF CheckCorrection
  <2>3. dec'.lastTilePart = dec.lastTilePart /\ dec'.state = dec.state
    BY <2>2 DEF TilesInv, TypeOK
  <2>4. \A u \in Tiles : tcp'[u].data = tcp[u].data
    BY <2>2 DEF TilesInv, TypeOK
  <2>5. Left' = Left
    BY <2>2 DEF Left, request
  <2>6. IsPast => IsPast'
    BY <2>2, <2>3, <2>5 DEF IsPast, Ended, BehindTail, InTail
  <2>7. ASSUME NEW i \in 1 .. NumParts + 1, Place(i) PROVE Place(i)'
    <3>1. Before(i)
      BY <2>2, <2>7 DEF Place, AtSOT, InPart
    <3>2. Before(i)'
      BY <2>2, <2>3, <3>1, SameRequest DEF Before
    <3> QED
      BY <3>2 DEF Place
  <2> QED
    BY <2>2, <2>4, <2>6, <2>7, OnlyMoves
<1> QED
  BY <1>1, <1>2

LEMMA NextTilePartData ==
    ASSUME TilesInv, DataInv, NextTilePart
    PROVE  DataInv'
<1>1. IsInput(file) /\ file.limit \in Nat /\ pos \in Nat /\ Left \in Nat /\ Left = file.limit - pos
  BY Types DEF TilesInv
<1>2. CASE Fail
  BY <1>2, FailData
<1>3. CASE dec.canDecode /\ pc = "next" /\ pc' = "found"
           /\ UNCHANGED <<request, pos, marker, dec, tcp, decoded>>
  <2>1. Left' = Left
    BY <1>3 DEF Left, request
  <2>2. IsPast => IsPast'
    BY <1>3, <2>1 DEF IsPast, Ended, BehindTail, InTail
  <2>3. ASSUME NEW i \in 1 .. NumParts + 1, Place(i) PROVE Place(i)'
    <3>1. Before(i)
      BY <1>3, <2>3 DEF Place, AtSOT, InPart
    <3>2. Before(i)'
      BY <1>3, <3>1, SameRequest DEF Before
    <3> QED
      BY <3>2 DEF Place
  <2> QED
    BY <1>3, <2>2, <2>3, OnlyMoves
<1>4. CASE /\ pc = "next" /\ ~dec.canDecode /\ Left >= 2
           /\ marker' = MarkerAt(pos) /\ pos' = pos + 2
           /\ pc' = IF marker' = "EOC" THEN "found" ELSE "scan"
           /\ UNCHANGED <<request, dec, tcp, decoded>>
  <2>1. Left' = Left - 2 /\ file' = file /\ NumParts' = NumParts /\ StartOf' = StartOf
    BY <1>1, <1>4, SameFile DEF Left, request
  <2>2. dec.state = "TPHSOT"
    BY <1>1, <1>4 DEF TilesInv, FlagInv
  <2>3. NumParts \in 1 .. NumParts /\ NumParts \in Nat
    BY <1>1, Layout
  <2>4. IsPast => IsPast'
    <3>1. IsPast => BehindTail \/ InTail
      BY <1>1, <1>4, <2>2 DEF IsPast, Ended
    <3>2. CASE BehindTail
      <4>1. Left' = 0
        BY <1>1, <2>1, <3>2 DEF BehindTail
      <4> QED
        BY <4>1 DEF IsPast
    <3>3. CASE InTail
      <4>1. pos = StartOf[NumParts] + 12 /\ dec.lastTilePart /\ ~Wanted(dec.cur) /\ ~dec.skipData
        BY <1>4, <3>3 DEF InTail
      <4>2. marker' \in {"COM", "SOD"}
        <5>1. file.parts[NumParts].hdr \in {0, 1}
          BY <1>1, <2>3, Layout
        <5> QED
          BY <1>1, <1>4, <2>3, <4>1, <5>1, MarkerFacts
      <4>3. ~Wanted(dec.cur)'
        BY <1>4, <4>1 DEF Wanted, request
      <4>4. InTail'
        BY <1>4, <2>2, <4>1, <4>2, <4>3 DEF InTail
      <4> QED
        BY <4>4 DEF IsPast
    <3> QED
      BY <3>1, <3>2, <3>3
  <2>5. ASSUME NEW i \in 1 .. NumParts + 1, Place(i) PROVE IsPast' \/ Place(i)'
    <3>1. pos = StartOf[i] /\ ~dec.lastTilePart
      BY <1>4, <2>5 DEF Place, AtSOT, InPart, Before
    <3>2. CASE i \in 1 .. NumParts
      <4>1. marker' = "SOT" /\ pc' = "scan" /\ i <= NumParts
        BY <1>1, <1>4, <2>3, <3>1, <3>2, MarkerFacts
      <4>2. AtSOT(i)'
        BY <1>4, <2>1, <2>2, <3>1, <4>1 DEF AtSOT
      <4> QED
        BY <4>2 DEF Place
    <3>3. CASE i = NumParts + 1
      <4>1. file.limit <= StartOf[NumParts + 1] + IF file.eoc THEN 2 ELSE 0
        BY <1>1 DEF IsInput, NumParts, StartOf
      <4>2. pos = StartOf[NumParts + 1]
        BY <3>1, <3>3
      <4>3. Left <= IF file.eoc THEN 2 ELSE 0
        BY <1>1, <4>1, <4>2
      <4>4. Left' = 0
        BY <1>1, <1>4, <2>1, <4>3
      <4> QED
        BY <4>4 DEF IsPast
    <3>4. i \in 1 .. NumParts \/ i = NumParts + 1
      BY <2>3
    <3> QED
      BY <3>2, <3>3, <3>4
  <2> QED
    BY <1>4, <2>4, <2>5, OnlyMoves
<1>5. CASE /\ pc = "next" /\ dec' = [dec EXCEPT !.cur = Least(Spot6), !.state = "EOC"]
           /\ UNCHANGED <<request, tcp, decoded>>
  <2>1. dec'.state = "EOC"
    BY <1>5 DEF TilesInv, TypeOK
  <2>2. IsPast'
    BY <2>1 DEF IsPast, Ended
  <2> QED
    BY <1>5, <2>2, OnlyMoves
<1> QED
  BY <1>1, <1>2, <1>3, <1>4, <1>5 DEF NextTilePart, LoopTop

LEMMA SelectTileData ==
    ASSUME TilesInv, DataInv, SelectTile
    PROVE  DataInv'
<1>1. PICK state, c :
         /\ state = IF marker = "EOC" /\ dec.state # "EOC" THEN "EOC" ELSE dec.state
         /\ dec' = [dec EXCEPT !.state = state, !.cur = c]
         /\ pc = "found" /\ pc' \in {"finish", "decode"}
         /\ UNCHANGED <<request, pos, marker, tcp, decoded>>
  BY DEF SelectTile, Selected
<1>2. dec'.state = state /\ dec'.lastTilePart = dec.lastTilePart
  BY <1>1 DEF TilesInv, TypeOK
<1>3. Left' = Left
  BY <1>1 DEF Left, request
<1>4. pc' = "finish" \/ state = "EOC" => IsPast'
  BY <1>2 DEF IsPast, Ended
<1>5. ASSUME pc' = "decode", state = dec.state
      PROVE  /\ IsPast => IsPast'
             /\ \A i \in 1 .. NumParts + 1 : Place(i) => Place(i)'
  <2>1. IsPast => IsPast'
    BY <1>1, <1>2, <1>3, <1>5 DEF IsPast, Ended, BehindTail, InTail
  <2>2. ASSUME NEW i \in 1 .. NumParts + 1, Place(i) PROVE Place(i)'
    <3>1. Before(i)
      BY <1>1, <2>2 DEF Place, AtSOT, InPart
    <3>2. Before(i)'
      BY <1>1, <1>2, <1>5, <3>1, SameRequest DEF Before
    <3> QED
      BY <3>2 DEF Place
  <2> QED
    BY <2>1, <2>2
<1>6. /\ IsPast => IsPast'
      /\ \A i \in 1 .. NumParts + 1 : Place(i) => IsPast' \/ Place(i)'
  BY <1>1, <1>4, <1>5
<1> QED
  BY <1>1, <1>6, OnlyMoves

LEMMA DecodeTileData ==
    ASSUME TilesInv, DataInv, DecodeTile
    PROVE  DataInv'
<1>1. CASE Fail
  BY <1>1, FailData
<1>2. CASE ~Fail
  <2>1. PICK t \in Tiles : t = dec.cur
    BY DEF DecodeTile, TilesInv, FlagInv
  <2> DEFINE new == [tile |-> t, data |-> tcp[t].data, at |-> pos]
             N == Len(decoded)
  <2>2. /\ pc = "decode" /\ pc' = "after" /\ tcp[t].hasData
        /\ decoded' = Append(decoded, new)
        /\ tcp' = [tcp EXCEPT ![t].hasData = FALSE, ![t].data = <<>>]
        /\ dec' = [dec EXCEPT !.canDecode = FALSE]
        /\ UNCHANGED <<request, pos, marker>>
    BY <1>2, <2>1 DEF DecodeTile, DropData
  <2>3. dec'.state = dec.state /\ dec'.lastTilePart = dec.lastTilePart
    BY <2>2 DEF TilesInv, TypeOK
  <2>4. \A u \in Tiles : u # t => tcp'[u] = tcp[u]
    BY <2>2 DEF TilesInv, TypeOK
  <2>5. new.tile = t /\ new.data = tcp[t].data
    OBVIOUS
  <2>6. /\ Len(decoded') = N + 1 /\ N \in Nat
        /\ decoded'[N + 1] = new
        /\ \A k \in 1 .. N : decoded'[k] = decoded[k]
    <3>1. decoded \in Seq([tile : Tiles, data : Seq(Nat \X Nat), at : Nat])
      BY DEF TilesInv, TypeOK
    <3> HIDE DEF new
    <3> QED
      BY <2>2, <3>1
  <2> HIDE DEF new, N
  <2>7. /\ \A u : IsDecoded(u) => IsDecoded(u)'
        /\ IsDecoded(t)'
    <3>1. \A k \in 1 .. N : k \in 1 .. Len(decoded') /\ decoded'[k] = decoded[k]
      BY <2>6
    <3>2. N + 1 \in 1 .. Len(decoded') /\ decoded'[N + 1].tile = t
      BY <2>5, <2>6
    <3> QED
      BY <3>1, <3>2 DEF IsDecoded, N
  <2>8. DataSound' /\ \A i : HasUpTo(i) => HasUpTo(i)'
    <3>1. \A u \in Tiles : Wanted(u) /\ ~IsDecoded(u)' => ~IsDecoded(u) /\ tcp'[u].data = tcp[u].data
      <4> TAKE u \in Tiles
      <4> HAVE Wanted(u) /\ ~IsDecoded(u)'
      <4>1. u # t
        BY <2>7
      <4> QED
        BY <2>4, <2>7, <4>1
    <3> QED
      BY <2>2, <3>1, KeepsData DEF DataInv
  <2>9. Located'
    <3>1. Left' = Left /\ NumParts' = NumParts
      BY <2>2, SameRequest DEF Left, request
    <3>2. IsPast => IsPast'
      BY <2>2, <2>3, <3>1 DEF IsPast, Ended, BehindTail, InTail
    <3>3. ASSUME NEW i \in 1 .. NumParts + 1, Place(i) PROVE Place(i)'
      <4>1. Before(i)
        BY <2>2, <3>3 DEF Place, AtSOT, InPart
      <4>2. Before(i)'
        BY <2>2, <2>3, <4>1, SameRequest DEF Before
      <4> QED
        BY <4>2 DEF Place
    <3> QED
      BY <2>8, <3>1, <3>2, <3>3 DEF DataInv, Located
  <2>10. OwnDataInOrder'
    <3>1. ~IsDecoded(t)
      BY <2>2 DEF TilesInv, OnceInv
    <3>2. Wanted(t) => IsBeginningOf(new.data, DataOf(t))
      BY <2>5, <3>1 DEF DataInv, DataSound
    <3>3. ASSUME NEW k \in 1 .. N + 1, Wanted(decoded'[k].tile)
          PROVE  IsBeginningOf(decoded'[k].data, DataOf(decoded'[k].tile))
      <4>1. CASE k = N + 1
        BY <2>5, <2>6, <3>2, <3>3, <4>1
      <4>2. CASE k # N + 1
        <5>1. k \in 1 .. N
          BY <2>6, <4>2
        <5>2. decoded'[k] = decoded[k] /\ Wanted(decoded[k].tile)
          BY <2>6, <3>3, <5>1
        <5> QED
          BY <5>1, <5>2 DEF DataInv, OwnDataInOrder, N
      <4> QED
        BY <4>1, <4>2
    <3>4. ASSUME NEW k \in 1 .. N + 1, Wanted(decoded[k].tile)'
          PROVE  IsBeginningOf(decoded[k].data, DataOf(decoded[k].tile))'
      <4>1. PICK u : u = decoded'[k].tile
        OBVIOUS
      <4>2. Wanted(u)' /\ DataOf(u)' = DataOf(u)
        <5>1. Wanted(u)'
          BY <3>4, <4>1 DEF Wanted
        <5> QED
          BY <2>2, <5>1, SameRequest
      <4>3. Wanted(u)
        BY <2>2, <4>2, SameRequest
      <4>4. IsBeginningOf(decoded'[k].data, DataOf(u)')
        BY <3>3, <4>1, <4>2, <4>3
      <4>5. DataOf(u)' = DataOf(decoded[k].tile)'
        BY <4>1 DEF DataOf, WithData, Count
      <4> QED
        BY <4>4, <4>5
    <3> QED
      BY <2>6, <3>4 DEF OwnDataInOrder
  <2> QED
    BY <2>8, <2>9, <2>10 DEF DataInv
<1> QED
  BY <1>1, <1>2

LEMMA AfterTileData ==
    ASSUME TilesInv, DataInv, AfterTile
    PROVE  DataInv'
<1>1. ASSUME NEW at, NEW state, LoopOn(at, state)
      PROVE  /\ pc' = "finish" \/ pos' = at
             /\ pc' \in {"finish", "enter"}
  BY <1>1 DEF LoopOn
<1>2. pc = "after" /\ UNCHANGED <<request, marker, tcp, decoded>>
  BY DEF AfterTile
<1>3. /\ IsInput(file) /\ file.limit \in Nat /\ pos \in Nat /\ Left \in Nat
      /\ Left = file.limit - pos /\ Left' = file.limit - pos'
  BY <1>2, Types DEF TilesInv, Left, request
<1>4. pc' \in {"finish", "error"} => IsPast'
  BY DEF IsPast
<1>5. CASE NothingBehind
  <2>1. dec' = dec /\ dec.state \in {"EOC", "NEOC"}
    BY <1>5 DEF NothingBehind
  <2>2. IsPast'
    BY <2>1 DEF IsPast, Ended
  <2> QED
    BY <1>2, <2>2, OnlyMoves
<1>6. CASE CutBehind
  <2>1. pc' = "error" \/ LoopOn(file.limit, dec.state)
    BY <1>6 DEF CutBehind
  <2>2. pos' = file.limit => IsPast'
    BY <1>3 DEF IsPast
  <2>3. IsPast'
    BY <1>1, <1>4, <2>1, <2>2
  <2> QED
    BY <1>2, <2>3, OnlyMoves
<1>7. CASE MarkerBehind
  <2>1. CASE dec' = [dec EXCEPT !.cur = 0, !.state = "EOC"] \/ dec' = [dec EXCEPT !.state = "NEOC"]
    <3>1. IsPast'
      BY <2>1 DEF IsPast, Ended, TilesInv, TypeOK
    <3> QED
      BY <1>2, <3>1, OnlyMoves
  <2>2. CASE pc' = "error"
    BY <1>2, <1>4, <2>2, OnlyMoves
  <2>3. CASE MarkerAt(pos) = "SOT" /\ dec' = dec /\ LoopOn(pos + 2, dec.state)
    <3>1. Left >= 2 /\ dec.state = "TPHSOT" /\ ~dec.canDecode
      BY <1>2, <1>7 DEF MarkerBehind, TilesInv, FlagInv
    <3>2. IsPast => IsPast'
      <4>1. IsPast => BehindTail
        BY <1>2, <1>3, <3>1 DEF IsPast, Ended, InTail
      <4>2. Left = 2 /\ pos' = pos + 2 => Left' = 0
        BY <1>3
      <4>3. Left = 2 => IsPast'
        BY <1>1, <1>4, <2>3, <4>2 DEF IsPast
      <4> QED
        BY <4>1, <4>3 DEF BehindTail
    <3>3. ASSUME NEW i \in 1 .. NumParts + 1, Place(i) PROVE IsPast' \/ Place(i)'
      <4>1. pos = StartOf[i] /\ ~dec.lastTilePart
        BY <1>2, <3>3 DEF Place, AtSOT, InPart, Before
      <4>2. i \in 1 .. NumParts
        <5>1. i = NumParts + 1 => MarkerAt(pos) # "SOT"
          BY <1>3, <4>1, MarkerFacts
        <5>2. NumParts \in Nat
          BY <1>3, Layout
        <5> QED
          BY <2>3, <5>1, <5>2
      <4>3. CASE pc' = "finish"
        BY <1>4, <4>3
      <4>4. CASE pc' = "enter" /\ pos' = pos + 2
        <5>1. i <= NumParts
          BY <1>3, <4>2, Layout
        <5>2. AtSOT(i)'
          BY <1>2, <2>3, <3>1, <4>1, <4>4, <5>1, SameRequest DEF AtSOT
        <5> QED
          BY <5>2 DEF Place
      <4> QED
        BY <1>1, <2>3, <4>3, <4>4
    <3> QED
      BY <1>2, <3>2, <3>3, OnlyMoves
  <2> QED
    BY <1>7, <2>1, <2>2, <2>3 DEF MarkerBehind
<1> QED
  BY <1>5, <1>6, <1>7 DEF AfterTile

LEMMA FinishData ==
    ASSUME TilesInv, DataInv, Finish
    PROVE  DataInv'
<1>1. IsPast'
  BY DEF Finish, IsPast
<1> QED
  BY <1>1, OnlyMoves DEF Finish

LEMMA DataStutter ==
    ASSUME TilesInv, DataInv, UNCHANGED vars
    PROVE  DataInv'
<1>1. request' = request
  BY DEF vars, request
<1>2. IsPast => IsPast'
  BY <1>1, SameRequest DEF vars, IsPast, Ended, BehindTail, InTail, Left, Wanted
<1>3. ASSUME NEW i \in 1 .. NumParts + 1, Place(i) PROVE Place(i)'
  <2>1. AtSOT(i) => AtSOT(i)'
    BY <1>1, SameRequest DEF AtSOT, vars
  <2>2. InHeader(i) => InHeader(i)'
    BY <1>1, SameRequest DEF InHeader, vars, Wanted
  <2>3. Skipped(i) => Skipped(i)'
    BY <1>1, SameRequest DEF Skipped, vars, Wanted
  <2>4. InPart(i) => InPart(i)'
    BY <1>1, <2>2, <2>3, SameRequest DEF InPart, vars
  <2>5. Before(i) => Before(i)'
    BY <1>1, SameRequest DEF Before, vars
  <2> QED
    BY <1>3, <2>1, <2>4, <2>5 DEF Place
<1> QED
  BY <1>1, <1>2, <1>3, OnlyMoves DEF vars

LEMMA DataInit ==
    ASSUME Init
    PROVE  DataInv
<1>1. TilesInv /\ IsInput(file)
  BY TilesInit, Types DEF TilesInv
<1>2. /\ pos = 2 /\ decoded = <<>> /\ pc = "enter" /\ dec.state = "TPHSOT" /\ ~dec.lastTilePart
      /\ \A t \in Tiles : tcp[t].data = <<>>
  BY DEF Init
<1>3. 1 \in 1 .. NumParts + 1 /\ 1 <= NumParts /\ StartOf[1] = 0
  BY <1>1, Layout
<1>4. HasUpTo(1)
  BY <1>1, <1>2, DataUpToFirst DEF HasUpTo
<1>5. AtSOT(1)
  BY <1>2, <1>3 DEF AtSOT
<1>6. DataSound
  BY <1>1, <1>3, <1>4, DataUpToBegins DEF DataSound, HasUpTo
<1>7. OwnDataInOrder
  BY <1>2 DEF OwnDataInOrder
<1> QED
  BY <1>3, <1>4, <1>5, <1>6, <1>7 DEF DataInv, Located, Place

\* A requested tile is decoded from a beginning of its own data: whatever the order of
\* the tile-parts and wherever the file ends, readSOD gives a tile no byte of another
\* one, and leaves none out but at the end.
THEOREM TileDataInOrder == Spec => []OwnDataInOrder
<1>1. ASSUME TilesInv, DataInv, [Next]_vars PROVE DataInv'
  BY <1>1, DataStutter, EnterTileHeaderData, EndOfStreamData, ReadSOTData,
     ReadHeaderSegmentData, SkipTilePartData, ReadSODData, CheckCorrectionData,
     NextTilePartData, SelectTileData, DecodeTileData, AfterTileData, FinishData
  DEF Next
<1>2. DataInv => OwnDataInOrder
  BY DEF DataInv
<1> QED
  BY DataInit, TilesInvariant, <1>1, <1>2, PTL DEF Spec

-------------------------------------------------------------------------------
(* The tile-parts of a tile, counted one by one. *)

LEMMA SeenStep ==
    ASSUME IsInput(file), NEW t
    PROVE  /\ Seen(t, 1) = 0
           /\ \A i \in 1 .. NumParts + 1 : Seen(t, i) \in Nat
           /\ \A i \in 1 .. NumParts :
                 Seen(t, i + 1) = IF file.parts[i].tile = t THEN Seen(t, i) + 1 ELSE Seen(t, i)
           /\ \A i, j \in 1 .. NumParts + 1 : i <= j => Seen(t, i) <= Seen(t, j)
<1> DEFINE N == NumParts
           Of(i) == {j \in 1 .. i - 1 : file.parts[j].tile = t}
<1>1. N \in Nat
  BY Layout
<1>2. \A i : Seen(t, i) = Cardinality(Of(i))
  BY DEF Seen
<1> HIDE DEF N
<1>3. ASSUME NEW i \in 1 .. N + 1
      PROVE  IsFiniteSet(Of(i)) /\ Seen(t, i) \in Nat
  <2>1. IsFiniteSet(1 .. i - 1)
    BY <1>1, FS_Interval
  <2>2. Of(i) \subseteq 1 .. i - 1
    OBVIOUS
  <2> HIDE DEF Of
  <2> QED
    BY <1>2, <2>1, <2>2, FS_Subset, FS_CardinalityType
<1>4. Seen(t, 1) = 0
  <2>1. Of(1) = {}
    OBVIOUS
  <2> HIDE DEF Of
  <2> QED
    BY <1>2, <2>1, FS_EmptySet
<1>5. ASSUME NEW i \in 1 .. N
      PROVE  Seen(t, i + 1) = IF file.parts[i].tile = t THEN Seen(t, i) + 1 ELSE Seen(t, i)
  <2>1. i \notin Of(i) /\ i \in 1 .. N + 1
    BY <1>1
  <2>2. CASE file.parts[i].tile = t
    <3>1. Of(i + 1) = Of(i) \union {i}
      BY <1>1, <2>2
    <3> HIDE DEF Of
    <3> QED
      BY <1>2, <1>3, <2>1, <2>2, <3>1, FS_AddElement
  <2>3. CASE file.parts[i].tile # t
    <3>1. Of(i + 1) = Of(i)
      BY <1>1, <2>3
    <3> HIDE DEF Of
    <3> QED
      BY <1>2, <2>3, <3>1
  <2> QED
    BY <2>2, <2>3
<1>6. ASSUME NEW i \in 1 .. N + 1, NEW j \in 1 .. N + 1, i <= j
      PROVE  Seen(t, i) <= Seen(t, j)
  <2>1. Of(i) \subseteq Of(j)
    BY <1>1, <1>6
  <2> HIDE DEF Of
  <2> QED
    BY <1>2, <1>3, <2>1, FS_Subset
<1> QED
  BY <1>3, <1>4, <1>5, <1>6 DEF N

\* Tile-parts of a tile are still to come exactly when not all have been seen.
LEMMA SeenAll ==
    ASSUME IsInput(file), NEW t, NEW i \in 1 .. NumParts + 1
    PROVE  /\ Seen(t, i) = Total(t) =>
                 \A k \in 1 .. NumParts : file.parts[k].tile = t => k < i
           /\ Seen(t, i) # Total(t) =>
                 \E k \in 1 .. NumParts : i <= k /\ file.parts[k].tile = t
<1> DEFINE N == NumParts
<1>1. N \in Nat /\ N + 1 \in 1 .. N + 1
  BY Layout
<1>2. Total(t) = Seen(t, N + 1)
  BY DEF Total
<1>3. ASSUME Seen(t, i) = Total(t), NEW k \in 1 .. N, file.parts[k].tile = t, ~(k < i)
      PROVE  FALSE
  <2>1. k + 1 \in 1 .. N + 1 /\ k \in 1 .. N + 1 /\ i <= k /\ k + 1 <= N + 1
    BY <1>1, <1>3
  <2>2. Seen(t, k + 1) = Seen(t, k) + 1 /\ Seen(t, k) \in Nat
    BY <1>3, <2>1, SeenStep
  <2>3. Seen(t, i) <= Seen(t, k) /\ Seen(t, k + 1) <= Seen(t, N + 1)
    BY <1>1, <2>1, SeenStep
  <2>4. Seen(t, i) \in Nat
    BY SeenStep
  <2> HIDE DEF N
  <2> QED
    BY <1>2, <1>3, <2>2, <2>3, <2>4
<1>4. ASSUME Seen(t, i) # Total(t)
      PROVE  \E k \in 1 .. N : i <= k /\ file.parts[k].tile = t
  <2>1. SUFFICES ASSUME \A k \in 1 .. N : file.parts[k].tile = t => ~(i <= k)
                 PROVE  FALSE
    OBVIOUS
  <2>2. {j \in 1 .. (N + 1) - 1 : file.parts[j].tile = t} = {j \in 1 .. i - 1 : file.parts[j].tile = t}
    <3> HIDE DEF N
    <3> QED
      BY <1>1, <2>1 DEF N
  <2> QED
    BY <1>2, <1>4, <2>2 DEF Seen
<1> QED
  BY <1>3, <1>4

\* A codestream is not well-formed and one short.
LEMMA OneShortOnly ==
    ASSUME TypeOK, OneShort
    PROVE  ~WellFormed
<1>1. IsInput(file) /\ 1 \in 1 .. NumParts /\ NumParts + 1 \in 1 .. NumParts + 1
  BY Types, Layout
<1>2. file.parts[1].tile \in Tiles
  BY <1>1, Layout DEF Parts
<1>3. PICK n : n = Total(file.parts[1].tile)
  OBVIOUS
<1>4. n \in Nat /\ n >= 3 /\ file.parts[1].tn = n - 1
  <2>1. n \in Nat
    BY <1>1, <1>3, SeenStep DEF Total
  <2> QED
    BY <1>1, <1>2, <1>3, <2>1 DEF OneShort
<1>5. WellFormed => file.parts[1].tn \in {0, n}
  BY <1>1, <1>3 DEF WellFormed
<1> QED
  BY <1>4, <1>5

\* Where the reader has gone past every SOT segment.
LEMMA GonePast ==
    ASSUME IsInput(file), NEW p \in Nat, NEW i \in 1 .. NumParts + 1, StartOf[i] <= p,
           \/ i = NumParts + 1 \/ file.limit < StartOf[i] + 12
           \/ i = NumParts /\ StartOf[i] + 2 < p
           \/ file.limit <= p
    PROVE  NoneAhead(file, p)
<1>1. NumParts \in Nat /\ file.limit \in Nat
  BY Layout DEF IsInput
<1> SUFFICES ASSUME NEW k \in 1 .. NumParts
             PROVE  StartOf[k] + 2 < p \/ file.limit < StartOf[k] + 12
  BY DEF NoneAhead, NumParts, StartOf
<1>2. StartOf[k] \in Nat /\ StartOf[i] \in Nat
  BY Layout
<1>3. k < i => StartOf[k] + 2 < StartOf[i]
  <2>1. k < i => DataEnd(k) <= StartOf[i]
    BY Layout
  <2>2. DataEnd(k) = StartOf[k] + 14 + 4 * file.parts[k].hdr + file.parts[k].len
        /\ file.parts[k].hdr \in {0, 1} /\ file.parts[k].len \in Nat
    BY Layout
  <2> QED
    BY <1>2, <2>1, <2>2
<1>4. i < k => StartOf[i] < StartOf[k]
  <2>1. i \in 1 .. NumParts \/ ~(i < k)
    BY <1>1
  <2>2. i \in 1 .. NumParts /\ i < k => DataEnd(i) <= StartOf[k]
    <3>1. k \in 1 .. NumParts + 1
      BY <1>1
    <3> QED
      BY <3>1, Layout
  <2>3. i \in 1 .. NumParts =>
           DataEnd(i) = StartOf[i] + 14 + 4 * file.parts[i].hdr + file.parts[i].len
           /\ file.parts[i].hdr \in {0, 1} /\ file.parts[i].len \in Nat
    BY Layout
  <2> QED
    BY <1>2, <2>1, <2>2, <2>3
<1>5. k < i \/ k = i \/ i < k
  BY <1>1
<1> QED
  BY <1>1, <1>2, <1>3, <1>4, <1>5

LEMMA GoneAtEnd ==
    ASSUME IsInput(file), NEW p \in Nat, file.limit <= p
    PROVE  NoneAhead(file, p)
<1>1. 1 \in 1 .. NumParts + 1 /\ StartOf[1] = 0
  BY Layout
<1>2. StartOf[1] <= p
  BY <1>1
<1> QED
  BY <1>1, <1>2, GonePast

-------------------------------------------------------------------------------
(* No tile-part is left behind: one lemma per action. *)

LEMMA SameCounts ==
    ASSUME request' = request
    PROVE  /\ WellFormed' <=> WellFormed
           /\ OneShort' <=> OneShort
           /\ CountedWell' <=> CountedWell
           /\ \A t : /\ Total(t)' = Total(t)
                     /\ \A i : Seen(t, i)' = Seen(t, i)
<1>1. file' = file /\ NumParts' = NumParts /\ StartOf' = StartOf /\ Tiles' = Tiles
      /\ \A t : Wanted(t)' <=> Wanted(t)
  BY SameRequest
<1>2. \A t, i : Seen(t, i)' = Seen(t, i)
  BY <1>1 DEF Seen
<1>3. \A t : Total(t)' = Total(t)
  BY <1>1 DEF Total, Seen
<1>4. Numbered' <=> Numbered
  BY <1>1 DEF Numbered, Seen
<1>5. WellFormed' <=> WellFormed
  BY <1>1, <1>4 DEF WellFormed, Total, Seen
<1>6. OneShort' <=> OneShort
  BY <1>1, <1>4 DEF OneShort, Total, Seen, Wanted
<1>7. CountedWell' <=> CountedWell
  BY <1>1, <1>5, <1>6 DEF CountedWell
<1> QED
  BY <1>2, <1>3, <1>5, <1>6, <1>7

\* A step that counts nothing.
LEMMA KeepsCounts ==
    ASSUME request' = request,
           dec'.checked = dec.checked, dec'.correction = dec.correction,
           \A t \in Tiles : tcp'[t].part = tcp[t].part /\ tcp'[t].nb = tcp[t].nb
    PROVE  \A i : CountsUpTo(i) => CountsUpTo(i)'
<1>1. Tiles' = Tiles
  BY SameRequest
<1>2. Short' = Short
  BY SameCounts DEF Short
<1> QED
  BY <1>1, <1>2, SameCounts DEF CountsUpTo

\* A step that decodes no tile.
LEMMA OnlyCounts ==
    ASSUME TilesInv, CountInv, request' = request, decoded' = decoded,
           pc \notin {"finish", "ok", "error"},
           pc' \in {"finish", "ok", "error"} \/ (pos' \in Nat /\ pos <= pos'),
           \A i \in 1 .. NumParts + 1 :
               CountedWell /\ CountedAt(i) =>
                   Gone' \/ \E j \in 1 .. NumParts + 1 : CountedAt(j)'
    PROVE  CountInv'
<1>1. file' = file /\ NumParts' = NumParts /\ StartOf' = StartOf
  BY SameRequest
<1>2. NoneAhead(file, pos) => Gone'
  <2>1. pos' \in Nat /\ pos <= pos' /\ NoneAhead(file, pos) => NoneAhead(file, pos')
    <3> SUFFICES ASSUME pos' \in Nat, pos <= pos', NoneAhead(file, pos),
                        NEW i \in 1 .. NumParts
                 PROVE  StartOf[i] + 2 < pos' \/ file.limit < StartOf[i] + 12
      BY DEF NoneAhead, NumParts, StartOf
    <3>1. pos \in Nat /\ StartOf[i] \in Nat
      BY Types, Layout DEF TilesInv
    <3>2. StartOf[i] + 2 < pos \/ file.limit < StartOf[i] + 12
      BY DEF NoneAhead, NumParts, StartOf
    <3> QED
      BY <3>1, <3>2
  <2> QED
    BY <1>1, <2>1 DEF Gone
<1>3. CountedWell' => Gone' \/ \E j \in 1 .. NumParts' + 1 : CountedAt(j)'
  BY <1>1, <1>2, SameCounts DEF CountInv, Gone
<1>4. NoTilePartLeftBehind'
  <2>1. NoTilePartLeftBehind
    BY DEF CountInv
  <2>2. CountedWell => \A k \in 1 .. Len(decoded) : \A i \in 1 .. NumParts :
                           file.parts[i].tile = decoded[k].tile =>
                               StartOf[i] < decoded[k].at \/ file.limit < StartOf[i] + 12
    BY <2>1 DEF NoTilePartLeftBehind, CountedWell
  <2>3. CountedWell' => \A k \in 1 .. Len(decoded') : \A i \in 1 .. NumParts' :
                           file'.parts[i].tile = decoded'[k].tile =>
                               StartOf'[i] < decoded'[k].at \/ file'.limit < StartOf'[i] + 12
    BY <1>1, <2>2, SameCounts
  <2> QED
    BY <2>3 DEF NoTilePartLeftBehind, CountedWell
<1> QED
  BY <1>3, <1>4 DEF CountInv

LEMMA FailCounts ==
    ASSUME TilesInv, CountInv, Fail, pc \notin {"finish", "ok", "error"}
    PROVE  CountInv'
<1>1. Gone'
  BY DEF Fail, Gone
<1> QED
  BY <1>1, OnlyCounts DEF Fail

LEMMA EnterTileHeaderCounts ==
    ASSUME TilesInv, CountInv, EnterTileHeader
    PROVE  CountInv'
<1>1. pc \notin {"finish", "ok", "error"}
  BY DEF EnterTileHeader
<1>2. CASE Fail
  BY <1>1, <1>2, FailCounts
<1>3. CASE ~Fail
  <2>1. /\ UNCHANGED <<request, pos, dec, tcp, decoded>>
        /\ pc = "enter" /\ ~dec.canDecode
        /\ \/ dec.state = "EOC"
           \/ dec.state = "TPHSOT" /\ marker' = "SOT" /\ pc' = "scan"
    BY <1>3 DEF EnterTileHeader, LoopTop, TilesInv, FlagInv
  <2>2. ASSUME NEW i \in 1 .. NumParts + 1, CountedAt(i) PROVE CountedAt(i)'
    <3>1. AtSOT(i) /\ CountsUpTo(i)
      BY <2>1, <2>2 DEF CountedAt, InPart, Before
    <3>2. AtSOT(i)'
      BY <2>1, <3>1, SameRequest DEF AtSOT
    <3>3. CountsUpTo(i)'
      BY <2>1, <3>1, KeepsCounts
    <3> QED
      BY <3>2, <3>3 DEF CountedAt
  <2>3. pos' \in Nat /\ pos <= pos'
    BY <2>1, Types DEF TilesInv
  <2> QED
    BY <1>1, <2>1, <2>2, <2>3, OnlyCounts
<1> QED
  BY <1>2, <1>3

LEMMA EndOfStreamCounts ==
    ASSUME TilesInv, CountInv, EndOfStream
    PROVE  CountInv'
<1>1. IsInput(file) /\ file.limit \in Nat /\ pos \in Nat /\ Left = file.limit - pos
  BY Types DEF TilesInv
<1>2. pos = file.limit /\ pos' = pos
  BY <1>1 DEF EndOfStream
<1>3. NoneAhead(file, pos)
  BY <1>1, <1>2, GoneAtEnd
<1>4. Gone'
  BY <1>2, <1>3 DEF EndOfStream, request, Gone
<1> QED
  BY <1>1, <1>2, <1>4, OnlyCounts DEF EndOfStream

\* Counting tile-part i, which is p of tile t.
LEMMA ReadSOTCount ==
    ASSUME TypeOK, NEW i \in 1 .. NumParts, NEW p \in Parts, NEW t \in Tiles, NEW nb \in Nat,
           CountedWell, CountsUpTo(i), request' = request,
           p = file.parts[i], t = p.tile,
           nb = IF p.tn = 0 THEN tcp[t].nb ELSE p.tn + dec.correction,
           tcp'[t].part = p.tp, tcp'[t].nb = nb,
           \A u \in Tiles : u # t => tcp'[u] = tcp[u],
           dec'.checked = dec.checked, dec'.correction = dec.correction
    PROVE  CountsUpTo(i + 1)'
<1>1. IsInput(file) /\ dec.correction \in {0, 1}
  BY Types
<1>2. p.tp = Seen(t, i) /\ p.tp \in Nat /\ p.tn \in Nat
  <2>1. Numbered
    BY DEF CountedWell, WellFormed, OneShort
  <2> QED
    BY <2>1 DEF Numbered, Parts
<1>3. /\ Seen(t, i + 1) = Seen(t, i) + 1
      /\ \A u \in Tiles : u # t => Seen(u, i + 1) = Seen(u, i)
  BY <1>1, SeenStep
<1>4. Total(t) \in Nat
  <2>1. NumParts + 1 \in 1 .. NumParts + 1
    BY <1>1, Layout
  <2> QED
    BY <1>1, <2>1, SeenStep DEF Total
<1>5. nb \in {0, Total(t) - Short}
  <2>1. tcp[t].nb \in {0, Total(t) - Short}
    BY DEF CountsUpTo
  <2>2. CASE OneShort
    <3>1. p.tn = Total(t) - 1 /\ Total(t) >= 3
      BY <2>2 DEF OneShort
    <3>2. p.tn # 0
      BY <1>4, <3>1
    <3>3. nb = Total(t) - 1 + dec.correction
      BY <3>1, <3>2
    <3>4. Short = IF dec.correction = 0 THEN 1 ELSE 0
      BY <2>2 DEF Short
    <3> QED
      BY <1>1, <1>4, <3>3, <3>4
  <2>3. CASE WellFormed /\ ~OneShort
    <3>1. p.tn \in {0, Total(t)} /\ dec.correction = 0 /\ Short = 0
      BY <2>3 DEF WellFormed, CountsUpTo, Short
    <3> QED
      BY <1>4, <2>1, <3>1
  <2>4. OneShort \/ WellFormed
    BY DEF CountedWell
  <2> QED
    BY <2>2, <2>3, <2>4
<1>6. /\ tcp'[t].part = p.tp /\ tcp'[t].nb = nb
      /\ \A u \in Tiles : u # t => tcp'[u] = tcp[u]
  OBVIOUS
<1>7. Short' = Short /\ Tiles' = Tiles
  BY SameCounts, SameRequest DEF Short
<1>8. ASSUME NEW u \in Tiles
      PROVE  tcp'[u].part = Seen(u, i + 1) - 1 /\ tcp'[u].nb \in {0, Total(u) - Short}
  <2>1. CASE u = t
    <3>1. Seen(t, i + 1) - 1 = p.tp
      BY <1>2, <1>3
    <3> QED
      BY <1>5, <1>6, <2>1, <3>1
  <2>2. CASE u # t
    BY <1>3, <1>6, <2>2 DEF CountsUpTo
  <2> QED
    BY <2>1, <2>2
<1>9. \A u \in Tiles : Seen(u, i + 1)' = Seen(u, i + 1) /\ Total(u)' = Total(u)
  BY SameCounts
<1>10. /\ WellFormed' => dec'.correction = 0
       /\ OneShort' => (dec'.checked <=> dec'.correction = 1)
  BY SameCounts DEF CountsUpTo
<1>11. \A u \in Tiles' : tcp'[u].part = Seen(u, i + 1)' - 1 /\ tcp'[u].nb \in {0, Total(u)' - Short'}
  BY <1>7, <1>8, <1>9
<1> QED
  BY <1>10, <1>11 DEF CountsUpTo

LEMMA ReadSOTCounts ==
    ASSUME TilesInv, CountInv, ReadSOT
    PROVE  CountInv'
<1>1. pc \notin {"finish", "ok", "error"}
  BY DEF ReadSOT
<1>2. CASE Fail
  BY <1>1, <1>2, FailCounts
<1>3. CASE ~Fail
  <2>1. PICK k \in 1 .. NumParts, p \in Parts, t \in Tiles, nb \in Nat, last \in BOOLEAN, sot \in Nat :
           SOTRead(k, p, t, nb, last, sot)
    BY <1>3, ReadSOTEffect
  <2>2. /\ p = file.parts[k] /\ t = p.tile /\ pos = StartOf[k] + 2
        /\ Left >= 10 /\ pc = "scan" /\ marker = "SOT"
        /\ nb = IF p.tn = 0 THEN tcp[t].nb ELSE p.tn + dec.correction
        /\ tcp' = [tcp EXCEPT ![t].part = p.tp, ![t].nb = nb]
        /\ dec' = [dec EXCEPT !.cur = t, !.lastTilePart = last, !.canDecode = (nb = p.tp + 1),
                              !.sotLength = sot, !.state = "TPH", !.skipData = ~Wanted(t)]
        /\ ReadMarker(pos + 10) \/ SkipData(pos + 10, sot)
        /\ UNCHANGED <<request, decoded>>
    BY <2>1 DEF SOTRead
  <2>3. /\ dec'.checked = dec.checked /\ dec'.correction = dec.correction
        /\ tcp'[t].part = p.tp /\ tcp'[t].nb = nb
        /\ \A u \in Tiles : u # t => tcp'[u] = tcp[u]
    <3>1. dec'.checked = dec.checked /\ dec'.correction = dec.correction
      BY <2>2 DEF TilesInv, TypeOK
    <3>2. tcp \in [Tiles -> [part : Nat \union {-1}, nb : Nat, hasData : BOOLEAN,
                             data : Seq(Nat \X Nat)]]
      BY DEF TilesInv, TypeOK
    <3>3. tcp' = [tcp EXCEPT ![t].part = p.tp, ![t].nb = nb]
      BY <2>2
    <3>4. tcp'[t].part = p.tp /\ tcp'[t].nb = nb
      BY <3>2, <3>3
    <3>5. \A u \in Tiles : u # t => tcp'[u] = tcp[u]
      BY <3>2, <3>3
    <3> QED
      BY <3>1, <3>4, <3>5
  <2>4. IsInput(file) /\ file.limit \in Nat /\ pos \in Nat /\ Left = file.limit - pos
    BY Types DEF TilesInv
  <2>5. pc' = "error" \/ (pos' \in Nat /\ pos <= pos')
    <3>1. ReadMarker(pos + 10) => pc' = "error" \/ pos' = pos + 10 + 2
      BY DEF ReadMarker
    <3>2. SkipData(pos + 10, sot) => pc' = "error" \/ pos' \in {pos + 10 + sot, file.limit}
      BY DEF SkipData
    <3>3. Left >= 10 /\ (ReadMarker(pos + 10) \/ SkipData(pos + 10, sot))
      BY <2>2
    <3>4. pos + 10 <= file.limit
      BY <2>4, <3>3
    <3>5. pc' = "error" \/ pos' \in {pos + 10 + 2, pos + 10 + sot, file.limit}
      BY <3>1, <3>2, <3>3
    <3> QED
      BY <2>4, <3>4, <3>5
  <2>6. ASSUME NEW i \in 1 .. NumParts + 1, CountedWell, CountedAt(i)
        PROVE  Gone' \/ CountedAt(i)'
    <3>1. AtSOT(i) /\ CountsUpTo(i)
      BY <2>2, <2>6 DEF CountedAt, InPart, Before, InHeader, Skipped
    <3>2. /\ i \in 1 .. NumParts /\ p = file.parts[i]
          /\ pc' = "error" \/ Left' = 0 \/ InPart(i)'
      BY <2>1, <3>1, ReadSOTPlace
    <3>3. Left' = 0 => Gone'
      <4>1. Left' = file.limit - pos'
        BY <2>2 DEF Left, request
      <4>2. ASSUME Left' = 0, pos' \in Nat PROVE NoneAhead(file, pos')
        <5>1. file.limit <= pos'
          BY <2>4, <4>1, <4>2
        <5> QED
          BY <2>4, <4>2, <5>1, GoneAtEnd
      <4> QED
        BY <2>2, <2>5, <4>2 DEF Gone, request
    <3>4. CountsUpTo(i + 1)'
      BY <2>2, <2>3, <2>6, <3>1, <3>2, ReadSOTCount DEF TilesInv
    <3> QED
      BY <3>2, <3>3, <3>4 DEF Gone, CountedAt
  <2> QED
    BY <1>1, <2>2, <2>5, <2>6, OnlyCounts
<1> QED
  BY <1>2, <1>3

LEMMA ReadHeaderSegmentCounts ==
    ASSUME TilesInv, CountInv, ReadHeaderSegment
    PROVE  CountInv'
<1>1. pc \notin {"finish", "ok", "error"}
  BY DEF ReadHeaderSegment
<1>2. CASE Fail
  BY <1>1, <1>2, FailCounts
<1>3. CASE ~Fail
  <2>1. /\ pc = "scan" /\ marker = "COM" /\ pos' = pos + 4
        /\ dec' = [dec EXCEPT !.sotLength = IF @ = 0 THEN 0 ELSE @ - 4]
        /\ UNCHANGED <<request, tcp, decoded, pc>>
    BY <1>3 DEF ReadHeaderSegment
  <2>2. dec'.checked = dec.checked /\ dec'.correction = dec.correction
    BY <2>1 DEF TilesInv, TypeOK
  <2>3. ASSUME NEW i \in 1 .. NumParts + 1, CountedAt(i) PROVE CountedAt(i)'
    <3>1. InPart(i) /\ CountsUpTo(i + 1)
      BY <2>1, <2>3 DEF CountedAt, AtSOT, Before
    <3>2. InPart(i)'
      BY <1>3, <3>1, ReadHeaderSegmentPlace
    <3>3. CountsUpTo(i + 1)'
      BY <2>1, <2>2, <3>1, KeepsCounts
    <3> QED
      BY <3>2, <3>3 DEF CountedAt
  <2>4. pos' \in Nat /\ pos <= pos'
    BY <2>1, Types DEF TilesInv
  <2> QED
    BY <1>1, <2>1, <2>3, <2>4, OnlyCounts
<1> QED
  BY <1>2, <1>3

LEMMA SkipTilePartCounts ==
    ASSUME TilesInv, CountInv, SkipTilePart
    PROVE  CountInv'
<1>1. /\ pc = "scan" /\ marker = "SOD" /\ dec.skipData /\ pc' = "next"
      /\ dec' = [dec EXCEPT !.skipData = FALSE, !.canDecode = FALSE, !.state = "TPHSOT"]
      /\ UNCHANGED <<request, pos, marker, tcp, decoded>>
  BY DEF SkipTilePart
<1>2. /\ dec'.state = "TPHSOT" /\ dec'.lastTilePart = dec.lastTilePart
      /\ dec'.checked = dec.checked /\ dec'.correction = dec.correction
  BY <1>1 DEF TilesInv, TypeOK
<1>3. IsInput(file) /\ pos \in Nat /\ pos <= pos' /\ file' = file
  BY <1>1, Types DEF TilesInv, request
<1>4. ASSUME NEW i \in 1 .. NumParts + 1, CountedAt(i)
      PROVE  Gone' \/ \E j \in 1 .. NumParts + 1 : CountedAt(j)'
  <2>1. InPart(i) /\ Skipped(i) /\ CountsUpTo(i + 1)
    BY <1>1, <1>4 DEF CountedAt, AtSOT, InPart, Before, InHeader
  <2>2. i \in 1 .. NumParts /\ i + 1 \in 1 .. NumParts + 1
    BY <1>3, <2>1, Layout DEF InPart
  <2>3. CASE dec.lastTilePart
    <3>1. i = NumParts
      BY <1>3, <2>1, <2>2, <2>3, OpenEndLast DEF InPart
    <3>2. pos = StartOf[i] + 12
      BY <2>1, <2>3 DEF Skipped
    <3>3. StartOf[i] \in Nat
      BY <1>3, <2>2, Layout
    <3>4. StartOf[i] + 2 < pos /\ StartOf[i] <= pos
      BY <3>2, <3>3
    <3>5. NoneAhead(file, pos)
      BY <1>3, <3>1, <3>3, <3>4, GonePast
    <3> QED
      BY <1>1, <1>3, <3>5 DEF Gone
  <2>4. CASE ~dec.lastTilePart
    <3>1. pos = StartOf[i + 1]
      BY <1>3, <2>1, <2>2, <2>4, Layout DEF Skipped
    <3>2. Before(i + 1)'
      BY <1>1, <1>2, <1>3, <2>4, <3>1, SameFile DEF Before
    <3>3. CountsUpTo(i + 1)'
      BY <1>1, <1>2, <2>1, KeepsCounts
    <3>4. CountedAt(i + 1)'
      BY <1>1, <3>2, <3>3 DEF CountedAt
    <3> QED
      BY <2>2, <3>4
  <2> QED
    BY <2>3, <2>4
<1> QED
  BY <1>1, <1>3, <1>4, OnlyCounts

LEMMA ReadSODCounts ==
    ASSUME TilesInv, CountInv, ReadSOD
    PROVE  CountInv'
<1>1. pc \notin {"finish", "ok", "error"}
  BY DEF ReadSOD
<1>2. CASE Fail
  BY <1>1, <1>2, FailCounts
<1>3. CASE ~Fail
  <2>1. PICK sot \in Nat, read \in Nat : SODRead(sot, read) /\ (read # sot => read = Left)
    BY <1>3, ReadSODEffect
  <2>2. /\ sot = IF dec.lastTilePart THEN Left - 2
                 ELSE IF dec.sotLength >= 2 THEN dec.sotLength - 2 ELSE dec.sotLength
        /\ pc = "scan" /\ marker = "SOD" /\ ~dec.skipData
        /\ tcp' = [tcp EXCEPT ![dec.cur].hasData = @ \/ sot # 0,
                              ![dec.cur].data = IF read = 0 THEN @ ELSE Append(@, <<pos, pos + read>>)]
        /\ dec' = [dec EXCEPT !.sotLength = sot, !.state = IF read = sot THEN "TPHSOT" ELSE "NEOC"]
        /\ pos' = pos + read
        /\ pc' \in {"correct", "next"}
        /\ UNCHANGED <<request, marker, decoded>>
    BY <2>1 DEF SODRead
  <2>3. /\ dec'.lastTilePart = dec.lastTilePart /\ dec'.checked = dec.checked
        /\ dec'.correction = dec.correction
        /\ dec'.state = IF read = sot THEN "TPHSOT" ELSE "NEOC"
    BY <2>2 DEF TilesInv, TypeOK
  <2>4. PICK t \in Tiles : t = dec.cur
    BY <2>2 DEF TilesInv, FlagInv
  <2>5. \A u \in Tiles : tcp'[u].part = tcp[u].part /\ tcp'[u].nb = tcp[u].nb
    <3>1. tcp[t] \in [part : Nat \union {-1}, nb : Nat, hasData : BOOLEAN, data : Seq(Nat \X Nat)]
      BY DEF TilesInv, TypeOK
    <3>2. PICK d : d = IF read = 0 THEN tcp[t].data ELSE Append(tcp[t].data, <<pos, pos + read>>)
      OBVIOUS
    <3>3. PICK has : has = (tcp[t].hasData \/ sot # 0)
      OBVIOUS
    <3>4. tcp' = [tcp EXCEPT ![t] = [@ EXCEPT !.hasData = has, !.data = d]]
      BY <2>2, <2>4, <3>1, <3>2, <3>3 DEF TilesInv, TypeOK
    <3>5. /\ tcp'[t] = [tcp[t] EXCEPT !.hasData = has, !.data = d]
          /\ \A u \in Tiles : u # t => tcp'[u] = tcp[u]
      BY <3>4 DEF TilesInv, TypeOK
    <3>6. tcp'[t].part = tcp[t].part /\ tcp'[t].nb = tcp[t].nb
      BY <3>1, <3>5
    <3> QED
      BY <3>5, <3>6
  <2>6. /\ IsInput(file) /\ file.limit \in Nat /\ pos \in Nat /\ Left = file.limit - pos
        /\ pos' \in Nat /\ pos <= pos' /\ file' = file
    <3>1. IsInput(file) /\ file.limit \in Nat /\ pos \in Nat /\ Left = file.limit - pos
      BY Types DEF TilesInv
    <3> QED
      BY <2>2, <3>1 DEF request
  <2>7. ASSUME NEW i \in 1 .. NumParts + 1, CountedAt(i)
        PROVE  Gone' \/ \E j \in 1 .. NumParts + 1 : CountedAt(j)'
    <3>1. InPart(i) /\ InHeader(i) /\ CountsUpTo(i + 1)
      BY <2>2, <2>7 DEF CountedAt, AtSOT, InPart, Before, Skipped
    <3>2. i \in 1 .. NumParts /\ i + 1 \in 1 .. NumParts + 1
      BY <2>6, <3>1, Layout DEF InPart
    <3>3. /\ dec.lastTilePart = file.parts[i].psot0 /\ pos = DataAt(i)
          /\ dec.sotLength = IF dec.lastTilePart THEN 0 ELSE DataEnd(i) + 2 - pos
      BY <2>2, <3>1 DEF InPart, InHeader
    <3>4. /\ file.parts[i].len \in Nat /\ DataEnd(i) = DataAt(i) + file.parts[i].len
          /\ StartOf[i + 1] = DataEnd(i) /\ StartOf[i] \in Nat
          /\ file.parts[i].hdr \in {0, 1}
          /\ DataAt(i) = StartOf[i] + 14 + 4 * file.parts[i].hdr
      BY <2>6, <3>2, Layout
    <3>5. StartOf[i] + 2 < pos' /\ StartOf[i] <= pos'
      BY <2>6, <3>3, <3>4
    <3>6. CASE dec.lastTilePart
      <4>1. i = NumParts
        BY <2>6, <3>2, <3>3, <3>6, OpenEndLast
      <4>2. NoneAhead(file, pos')
        BY <2>6, <3>5, <4>1, GonePast
      <4> QED
        BY <2>6, <4>2 DEF Gone
    <3>7. CASE read # sot
      <4>1. pos' = file.limit
        BY <2>1, <2>2, <2>6, <3>7
      <4>2. NoneAhead(file, pos')
        BY <2>6, <3>5, <4>1, GonePast
      <4> QED
        BY <2>6, <4>2 DEF Gone
    <3>8. CASE ~dec.lastTilePart /\ read = sot
      <4>1. dec.sotLength = file.parts[i].len + 2 /\ dec.sotLength >= 2
        BY <3>3, <3>4, <3>8, <2>6
      <4>2. sot = file.parts[i].len
        <5>1. sot = IF dec.sotLength >= 2 THEN dec.sotLength - 2 ELSE dec.sotLength
          BY <2>2, <3>8
        <5> QED
          BY <3>4, <4>1, <5>1
      <4>3. pos' = StartOf[i + 1]
        BY <2>2, <3>3, <3>4, <3>8, <4>2
      <4>4. Before(i + 1)'
        BY <2>2, <2>3, <2>6, <3>8, <4>3, SameFile DEF Before
      <4>5. CountsUpTo(i + 1)'
        BY <2>2, <2>3, <2>5, <3>1, KeepsCounts
      <4>6. CountedAt(i + 1)'
        BY <2>2, <4>4, <4>5 DEF CountedAt
      <4> QED
        BY <3>2, <4>6
    <3> QED
      BY <3>6, <3>7, <3>8
  <2> QED
    BY <1>1, <2>2, <2>6, <2>7, OnlyCounts
<1> QED
  BY <1>2, <1>3

LEMMA NextTilePartCounts ==
    ASSUME TilesInv, CountInv, NextTilePart
    PROVE  CountInv'
<1>1. pc = "next" /\ UNCHANGED <<request, tcp, decoded>>
  BY DEF NextTilePart, Fail
<1>2. CASE Fail
  BY <1>1, <1>2, FailCounts
<1>3. IsInput(file) /\ file.limit \in Nat /\ pos \in Nat /\ Left = file.limit - pos
      /\ file' = file /\ pos <= file.limit /\ dec.canDecode \in BOOLEAN
  BY <1>1, Types DEF TilesInv, request
<1>4. \A i \in 1 .. NumParts + 1 : CountedAt(i) => Before(i) /\ CountsUpTo(i) /\ marker = "SOD"
  BY <1>1 DEF CountedAt, AtSOT, InPart
<1>5. CASE dec.canDecode /\ pc' = "found" /\ UNCHANGED <<pos, marker, dec>>
  <2>1. ASSUME NEW i \in 1 .. NumParts + 1, CountedAt(i) PROVE CountedAt(i)'
    <3>1. Before(i)'
      BY <1>3, <1>4, <1>5, <2>1, SameFile DEF Before
    <3>2. CountsUpTo(i)'
      BY <1>1, <1>4, <1>5, <2>1, KeepsCounts
    <3> QED
      BY <1>4, <1>5, <2>1, <3>1, <3>2 DEF CountedAt
  <2>2. pos' \in Nat /\ pos <= pos'
    BY <1>3, <1>5
  <2> QED
    BY <1>1, <2>1, <2>2, OnlyCounts
<1>6. CASE /\ ~dec.canDecode /\ Left >= 2
           /\ marker' = MarkerAt(pos) /\ pos' = pos + 2
           /\ pc' = IF marker' = "EOC" THEN "found" ELSE "scan"
           /\ UNCHANGED dec
  <2>1. ASSUME NEW i \in 1 .. NumParts + 1, CountedAt(i) PROVE Gone' \/ CountedAt(i)'
    <3>1. Before(i) /\ CountsUpTo(i) /\ pos = StartOf[i]
      BY <1>4, <2>1 DEF Before
    <3>2. CASE i \in 1 .. NumParts
      <4>1. marker' = "SOT" /\ pc' = "scan" /\ i <= NumParts
        BY <1>3, <1>6, <3>1, <3>2, MarkerFacts, Layout
      <4>2. AtSOT(i)'
        BY <1>3, <1>6, <3>1, <4>1, SameFile DEF AtSOT, Before
      <4>3. CountsUpTo(i)'
        BY <1>1, <1>6, <3>1, KeepsCounts
      <4> QED
        BY <4>2, <4>3 DEF CountedAt
    <3>3. CASE i = NumParts + 1
      <4>1. StartOf[i] <= pos' /\ pos' \in Nat
        BY <1>3, <1>6, <3>1
      <4>2. NoneAhead(file, pos')
        BY <1>3, <3>3, <4>1, GonePast
      <4> QED
        BY <1>3, <4>2 DEF Gone
    <3>4. NumParts \in Nat
      BY <1>3, Layout
    <3> QED
      BY <3>2, <3>3, <3>4
  <2>2. pos' \in Nat /\ pos <= pos'
    BY <1>3, <1>6
  <2> QED
    BY <1>1, <2>1, <2>2, OnlyCounts
<1>7. CASE pos' = file.limit
  <2>1. pos' \in Nat /\ pos <= pos' /\ file.limit <= pos'
    BY <1>3, <1>7
  <2>2. NoneAhead(file, pos')
    BY <1>3, <2>1, GoneAtEnd
  <2>3. Gone'
    BY <1>3, <2>2 DEF Gone
  <2> QED
    BY <1>1, <2>1, <2>3, OnlyCounts
<1> QED
  BY <1>2, <1>5, <1>6, <1>7 DEF NextTilePart, LoopTop

LEMMA SelectTileCounts ==
    ASSUME TilesInv, CountInv, SelectTile
    PROVE  CountInv'
<1>1. PICK state, c :
         /\ state = IF marker = "EOC" /\ dec.state # "EOC" THEN "EOC" ELSE dec.state
         /\ dec' = [dec EXCEPT !.state = state, !.cur = c]
         /\ pc = "found" /\ pc' \in {"finish", "decode"}
         /\ dec.canDecode => pc' = "decode"
         /\ UNCHANGED <<request, pos, marker, tcp, decoded>>
  BY DEF SelectTile, Selected
<1>2. /\ dec'.state = state /\ dec'.lastTilePart = dec.lastTilePart
      /\ dec'.checked = dec.checked /\ dec'.correction = dec.correction
  BY <1>1 DEF TilesInv, TypeOK
<1>3. ASSUME NEW i \in 1 .. NumParts + 1, CountedAt(i) PROVE CountedAt(i)'
  <2>1. Before(i) /\ CountsUpTo(i) /\ marker = "SOD"
    BY <1>1, <1>3 DEF CountedAt, AtSOT, InPart
  <2>2. state = "TPHSOT" /\ pc' = "decode"
    <3>1. dec.state = "TPHSOT" /\ marker # "EOC"
      BY <2>1 DEF Before
    <3>2. dec.canDecode
      BY <1>1, <3>1 DEF TilesInv, FlagInv, Ended
    <3> QED
      BY <1>1, <3>1, <3>2
  <2>3. Before(i)'
    BY <1>1, <1>2, <2>1, <2>2, SameRequest DEF Before
  <2>4. CountsUpTo(i)'
    BY <1>1, <1>2, <2>1, KeepsCounts
  <2> QED
    BY <2>2, <2>3, <2>4 DEF CountedAt
<1>4. pos' \in Nat /\ pos <= pos'
  BY <1>1, Types DEF TilesInv
<1> QED
  BY <1>1, <1>3, <1>4, OnlyCounts

\* A complete tile that announces one tile-part too few: the look-ahead meets its last one.
LEMMA LastPartAhead ==
    ASSUME TypeOK, OneShort, StartOf[NumParts] + 2 <= file.limit,
           NEW i \in 1 .. NumParts + 1, pos = StartOf[i],
           dec.cur \in Tiles, Seen(dec.cur, i) = Total(dec.cur) - 1
    PROVE  \E k \in Reached : LET p == file.parts[k] IN p.tile = dec.cur /\ p.tp = p.tn
<1>1. IsInput(file) /\ file.limit \in Nat /\ pos \in Nat /\ NumParts \in Nat
      /\ NumParts + 1 \in 1 .. NumParts + 1
  BY Types, Layout
<1>2. PICK t \in Tiles : t = dec.cur
  OBVIOUS
<1>3. Total(t) \in Nat /\ Seen(t, i) # Total(t)
  <2>1. Total(t) \in Nat
    BY <1>1, SeenStep DEF Total
  <2> QED
    BY <1>2, <2>1
<1>4. PICK k \in 1 .. NumParts : i <= k /\ file.parts[k].tile = t
  BY <1>1, <1>3, SeenAll
<1>5. k + 1 \in 1 .. NumParts + 1 /\ k \in 1 .. NumParts + 1 /\ k + 1 <= NumParts + 1
  BY <1>1
<1>6. \A j \in 1 .. NumParts : i <= j /\ file.parts[j].tile = t =>
          Seen(t, j) = Total(t) - 1 /\ Seen(t, j + 1) = Total(t)
  <2> TAKE j \in 1 .. NumParts
  <2> HAVE i <= j /\ file.parts[j].tile = t
  <2>1. j + 1 \in 1 .. NumParts + 1 /\ j \in 1 .. NumParts + 1 /\ j + 1 <= NumParts + 1
    BY <1>1
  <2>2. Seen(t, j + 1) = Seen(t, j) + 1 /\ Seen(t, j) \in Nat /\ Seen(t, i) \in Nat
    BY <1>1, <2>1, SeenStep
  <2>3. Seen(t, i) <= Seen(t, j) /\ Seen(t, j + 1) <= Seen(t, NumParts + 1)
    BY <1>1, <2>1, SeenStep
  <2>4. Seen(t, i) = Total(t) - 1 /\ Seen(t, NumParts + 1) = Total(t)
    BY <1>2 DEF Total
  <2> QED
    BY <1>3, <2>2, <2>3, <2>4
\* No other tile-part of the tile is between.
<1>7. ASSUME NEW j \in 1 .. NumParts, i <= j, j < k PROVE file.parts[j].tile # t
  <2> SUFFICES ASSUME file.parts[j].tile = t PROVE FALSE
    OBVIOUS
  <2>1. Seen(t, j + 1) = Total(t) /\ Seen(t, k) = Total(t) - 1
    BY <1>4, <1>6, <1>7
  <2>2. Seen(t, j + 1) <= Seen(t, k)
    <3>1. j + 1 \in 1 .. NumParts + 1 /\ j + 1 <= k
      BY <1>1, <1>7
    <3> QED
      BY <1>1, <1>5, <3>1, SeenStep
  <2> QED
    BY <1>3, <2>1, <2>2
<1>8. \A j \in 1 .. NumParts : StartOf[j] >= pos => i <= j
  <2> TAKE j \in 1 .. NumParts
  <2> HAVE StartOf[j] >= pos
  <2>1. /\ j < i => DataEnd(j) <= StartOf[i]
        /\ DataEnd(j) = StartOf[j] + 14 + 4 * file.parts[j].hdr + file.parts[j].len
        /\ file.parts[j].hdr \in {0, 1} /\ file.parts[j].len \in Nat /\ StartOf[j] \in Nat
    BY <1>1, Layout
  <2>2. ~(j < i)
    BY <1>1, <2>1
  <2> QED
    BY <1>1, <2>2
<1>9. k \in Ahead
  <2>1. StartOf[k] >= pos
    <3>1. i = k \/ (i \in 1 .. NumParts /\ i < k)
      BY <1>1, <1>4
    <3>2. i \in 1 .. NumParts /\ i < k =>
            /\ DataEnd(i) <= StartOf[k]
            /\ DataEnd(i) = StartOf[i] + 14 + 4 * file.parts[i].hdr + file.parts[i].len
            /\ file.parts[i].hdr \in {0, 1} /\ file.parts[i].len \in Nat
      BY <1>1, <1>5, Layout
    <3>3. StartOf[k] \in Nat
      BY <1>1, Layout
    <3> QED
      BY <1>1, <3>1, <3>2, <3>3
  <2> QED
    BY <2>1 DEF Ahead
<1>10. StartOf[k] + 2 <= file.limit
  <2>1. k = NumParts \/ k < NumParts
    BY <1>1
  <2>2. NumParts \in 1 .. NumParts /\ NumParts \in 1 .. NumParts + 1
    BY <1>1, <1>4
  <2>3. k < NumParts =>
            /\ DataEnd(k) <= StartOf[NumParts]
            /\ DataEnd(k) = StartOf[k] + 14 + 4 * file.parts[k].hdr + file.parts[k].len
            /\ file.parts[k].hdr \in {0, 1} /\ file.parts[k].len \in Nat
    BY <1>1, <2>2, Layout
  <2>4. StartOf[k] \in Nat /\ StartOf[NumParts] \in Nat
    BY <1>1, <2>2, Layout
  <2> QED
    BY <1>1, <2>1, <2>3, <2>4
<1>11. k \in Reached
  <2>1. ASSUME NEW j \in Ahead, j < k
        PROVE  file.parts[j].tile # dec.cur /\ ~file.parts[j].psot0
    <3>1. j \in 1 .. NumParts /\ i <= j
      BY <1>8 DEF Ahead
    <3>2. file.parts[j].tile # t
      BY <1>7, <2>1, <3>1
    <3> QED
      BY <1>2, <3>1, <3>2 DEF OneShort
  <2> QED
    BY <1>9, <1>10, <2>1 DEF Reached
<1>12. file.parts[k].tp = file.parts[k].tn
  <2>1. file.parts[k].tp = Seen(t, k) /\ file.parts[k].tn = Total(t) - 1
    BY <1>4 DEF OneShort, Numbered
  <2> QED
    BY <1>4, <1>6, <2>1
<1> QED
  BY <1>2, <1>4, <1>11, <1>12

\* At a tile that announces as many tile-parts as have been read of it.
LEMMA CompleteSeen ==
    ASSUME TypeOK, NEW i \in 1 .. NumParts + 1, NEW t \in Tiles, CountsUpTo(i), Complete(t)
    PROVE  Seen(t, i) = Total(t) - Short /\ tcp[t].nb = Total(t) - Short
<1>1. IsInput(file)
  BY Types
<1>2. Seen(t, i) \in Nat
  BY <1>1, SeenStep
<1>3. /\ tcp[t].part = Seen(t, i) - 1 /\ tcp[t].nb \in {0, Total(t) - Short}
      /\ tcp[t].nb = tcp[t].part + 1 /\ tcp[t].nb # 0
  BY DEF CountsUpTo, Complete
<1> QED
  BY <1>2, <1>3

LEMMA CheckCorrectionCounts ==
    ASSUME TilesInv, CountInv, CheckCorrection
    PROVE  CountInv'
<1>1. pc \notin {"finish", "ok", "error"}
  BY DEF CheckCorrection
<1>2. CASE Fail
  BY <1>1, <1>2, FailCounts
<1>3. CASE ~Fail
  <2>1. PICK c \in BOOLEAN : c = NeedsCorrection
    BY DEF NeedsCorrection
  <2>2. /\ pc = "correct" /\ pc' = "next"
        /\ dec' = [dec EXCEPT !.checked = TRUE, !.canDecode = ~c,
                              !.correction = IF c THEN 1 ELSE @]
        /\ tcp' = IF ~c THEN tcp
                  ELSE [t \in Tiles |-> [tcp[t] EXCEPT !.nb = IF @ = 0 THEN 0 ELSE @ + 1]]
        /\ UNCHANGED <<request, pos, marker, decoded>>
    BY <1>3, <2>1 DEF CheckCorrection
  <2>3. /\ dec'.lastTilePart = dec.lastTilePart /\ dec'.state = dec.state
        /\ dec'.checked = TRUE /\ dec'.correction = IF c THEN 1 ELSE dec.correction
    BY <2>2 DEF TilesInv, TypeOK
  <2>4. \A u \in Tiles : /\ tcp'[u].part = tcp[u].part
                         /\ tcp'[u].nb = IF c /\ tcp[u].nb # 0 THEN tcp[u].nb + 1 ELSE tcp[u].nb
    <3> TAKE u \in Tiles
    <3>1. tcp[u] \in [part : Nat \union {-1}, nb : Nat, hasData : BOOLEAN, data : Seq(Nat \X Nat)]
      BY DEF TilesInv, TypeOK
    <3>2. CASE c
      <4>1. tcp'[u] = [tcp[u] EXCEPT !.nb = IF @ = 0 THEN 0 ELSE @ + 1]
        BY <2>2, <3>2
      <4> QED
        BY <3>1, <3>2, <4>1
    <3>3. CASE ~c
      BY <2>2, <3>3
    <3> QED
      BY <3>2, <3>3
  <2>5. IsInput(file) /\ pos \in Nat /\ dec.cur \in Tiles /\ TypeOK
        /\ dec.checked = FALSE /\ dec.correction \in {0, 1}
    BY <2>2, Types DEF TilesInv, FlagInv
  <2>6. ASSUME NEW i \in 1 .. NumParts + 1, CountedWell, CountedAt(i) PROVE CountedAt(i)'
    <3>1. Before(i) /\ CountsUpTo(i) /\ marker = "SOD"
      BY <2>2, <2>6 DEF CountedAt, AtSOT, InPart
    <3>2. Before(i)'
      BY <2>2, <2>3, <3>1, SameRequest DEF Before
    <3>3. PICK t \in Tiles : t = dec.cur
      BY <2>5
    <3>4. Complete(t)
      BY <2>2, <3>1, <3>3 DEF TilesInv, FlagInv, Before, Ended
    <3>5. Seen(t, i) = Total(t) - Short /\ tcp[t].nb = Total(t) - Short
      BY <2>5, <3>1, <3>4, CompleteSeen
    <3>6. \A u \in Tiles : Total(u) \in Nat
      <4>1. NumParts + 1 \in 1 .. NumParts + 1
        BY <2>5, Layout
      <4> QED
        BY <2>5, <4>1, SeenStep DEF Total
    <3>7. CASE OneShort
      <4>1. dec.correction = 0 /\ Short = 1 /\ Total(t) >= 3
        BY <2>5, <3>1, <3>7 DEF CountsUpTo, Short, OneShort
      <4>2. StartOf[NumParts] + 2 <= file.limit
        BY <2>5, <2>6, <3>7, OneShortOnly DEF CountedWell
      <4>3. c
        <5>1. Seen(dec.cur, i) = Total(dec.cur) - 1 /\ pos = StartOf[i]
          BY <3>1, <3>3, <3>5, <4>1 DEF Before
        <5>2. \E k \in Reached : LET p == file.parts[k] IN p.tile = dec.cur /\ p.tp = p.tn
          BY <2>5, <3>7, <4>2, <5>1, LastPartAhead
        <5>3. tcp[dec.cur].nb # 1
          BY <3>3, <3>5, <3>6, <4>1
        <5> QED
          BY <2>1, <5>2, <5>3 DEF NeedsCorrection
      <4>4. dec'.correction = 1 /\ Short' = 0 /\ Tiles' = Tiles
        <5>1. dec'.correction = 1
          BY <2>3, <4>3
        <5> QED
          BY <2>2, <5>1, SameRequest DEF Short
      <4>5. \A u \in Tiles : tcp'[u].part = Seen(u, i) - 1 /\ tcp'[u].nb \in {0, Total(u) - 0}
        <5> TAKE u \in Tiles
        <5>1. tcp[u].part = Seen(u, i) - 1 /\ tcp[u].nb \in {0, Total(u) - 1}
          BY <3>1, <4>1 DEF CountsUpTo
        <5>2. tcp'[u].nb = IF tcp[u].nb # 0 THEN tcp[u].nb + 1 ELSE tcp[u].nb
          BY <2>4, <4>3
        <5>3. Total(u) \in Nat /\ tcp'[u].part = tcp[u].part
          BY <2>4, <3>6
        <5> QED
          BY <5>1, <5>2, <5>3
      <4>6. ~WellFormed'
        BY <2>2, <2>5, <3>7, OneShortOnly, SameCounts
      <4>7. CountsUpTo(i)'
        BY <2>2, <2>3, <4>4, <4>5, <4>6, SameCounts DEF CountsUpTo
      <4> QED
        BY <2>2, <3>1, <3>2, <4>7 DEF CountedAt
    <3>8. CASE WellFormed /\ ~OneShort
      <4>1. dec.correction = 0 /\ Short = 0 /\ Seen(t, i) = Total(t)
        BY <3>1, <3>5, <3>6, <3>8 DEF CountsUpTo, Short
      <4>2. ~c
        <5> SUFFICES ASSUME c PROVE FALSE
          OBVIOUS
        <5>1. PICK k \in 1 .. NumParts : StartOf[k] >= pos /\ file.parts[k].tile = t
          BY <2>1, <3>3 DEF NeedsCorrection, Reached, Ahead
        <5>2. k < i
          BY <2>5, <4>1, <5>1, SeenAll
        <5>3. /\ DataEnd(k) <= StartOf[i] /\ StartOf[k] \in Nat
              /\ DataEnd(k) = StartOf[k] + 14 + 4 * file.parts[k].hdr + file.parts[k].len
              /\ file.parts[k].hdr \in {0, 1} /\ file.parts[k].len \in Nat
          BY <2>5, <5>2, Layout
        <5>4. pos = StartOf[i]
          BY <3>1 DEF Before
        <5> QED
          BY <2>5, <5>1, <5>3, <5>4
      <4>3. dec'.correction = 0 /\ tcp' = tcp /\ Short' = 0 /\ Tiles' = Tiles /\ ~OneShort'
        BY <2>2, <2>3, <3>8, <4>1, <4>2, SameCounts, SameRequest DEF Short
      <4>4. CountsUpTo(i)'
        BY <2>2, <3>1, <4>1, <4>3, SameCounts DEF CountsUpTo
      <4> QED
        BY <2>2, <3>1, <3>2, <4>4 DEF CountedAt
    <3> QED
      BY <2>6, <3>7, <3>8 DEF CountedWell
  <2>7. pos' \in Nat /\ pos <= pos'
    BY <2>2, <2>5
  <2> QED
    BY <1>1, <2>2, <2>6, <2>7, OnlyCounts
<1> QED
  BY <1>2, <1>3

\* The tile that decodeTile is at has no tile-part to come.
LEMMA NoneLeft ==
    ASSUME TilesInv, CountInv, CountedWell, pc = "decode",
           NEW k \in 1 .. NumParts, file.parts[k].tile = dec.cur
    PROVE  StartOf[k] < pos \/ file.limit < StartOf[k] + 12
<1>1. PICK t \in Tiles : t = dec.cur
  BY DEF TilesInv, FlagInv
<1>2. IsInput(file) /\ pos \in Nat /\ TypeOK
  BY Types DEF TilesInv
<1>3. CASE Gone
  <2>1. StartOf[k] + 2 < pos \/ file.limit < StartOf[k] + 12
    BY <1>3 DEF Gone, NoneAhead, NumParts, StartOf
  <2>2. StartOf[k] \in Nat
    BY <1>2, Layout
  <2> QED
    BY <1>2, <2>1, <2>2
<1>4. CASE ~Gone
  <2>1. PICK i \in 1 .. NumParts + 1 : Before(i) /\ CountsUpTo(i)
    BY <1>4 DEF CountInv, CountedAt, AtSOT, InPart
  <2>2. dec.state = "TPHSOT" /\ pos = StartOf[i]
    BY <2>1 DEF Before
  <2>3. dec.checked /\ Complete(t)
    BY <1>1, <2>2 DEF TilesInv, FlagInv, Ended
  <2>4. Short = 0
    BY <2>1, <2>3 DEF CountsUpTo, Short
  <2>5. Total(t) \in Nat
    <3>1. NumParts + 1 \in 1 .. NumParts + 1
      BY <1>2, Layout
    <3> QED
      BY <1>2, <3>1, SeenStep DEF Total
  <2>6. Seen(t, i) = Total(t)
    BY <1>2, <2>1, <2>3, <2>4, <2>5, CompleteSeen
  <2>7. k < i
    BY <1>1, <1>2, <2>6, SeenAll
  <2>8. /\ DataEnd(k) <= StartOf[i] /\ StartOf[k] \in Nat
        /\ DataEnd(k) = StartOf[k] + 14 + 4 * file.parts[k].hdr + file.parts[k].len
        /\ file.parts[k].hdr \in {0, 1} /\ file.parts[k].len \in Nat
    BY <1>2, <2>7, Layout
  <2> QED
    BY <1>2, <2>2, <2>8
<1> QED
  BY <1>3, <1>4

LEMMA DecodeTileCounts ==
    ASSUME TilesInv, CountInv, DecodeTile
    PROVE  CountInv'
<1>1. pc \notin {"finish", "ok", "error"}
  BY DEF DecodeTile
<1>2. CASE Fail
  BY <1>1, <1>2, FailCounts
<1>3. CASE ~Fail
  <2>1. PICK t \in Tiles : t = dec.cur
    BY DEF DecodeTile, TilesInv, FlagInv
  <2> DEFINE new == [tile |-> t, data |-> tcp[t].data, at |-> pos]
             N == Len(decoded)
  <2>2. /\ pc = "decode" /\ pc' = "after"
        /\ decoded' = Append(decoded, new)
        /\ tcp' = [tcp EXCEPT ![t].hasData = FALSE, ![t].data = <<>>]
        /\ dec' = [dec EXCEPT !.canDecode = FALSE]
        /\ UNCHANGED <<request, pos, marker>>
    BY <1>3, <2>1 DEF DecodeTile, DropData
  <2>3. /\ dec'.state = dec.state /\ dec'.lastTilePart = dec.lastTilePart
        /\ dec'.checked = dec.checked /\ dec'.correction = dec.correction
    BY <2>2 DEF TilesInv, TypeOK
  <2>4. \A u \in Tiles : tcp'[u].part = tcp[u].part /\ tcp'[u].nb = tcp[u].nb
    <3>1. tcp[t] \in [part : Nat \union {-1}, nb : Nat, hasData : BOOLEAN, data : Seq(Nat \X Nat)]
      BY DEF TilesInv, TypeOK
    <3>2. tcp'[t] = [tcp[t] EXCEPT !.hasData = FALSE, !.data = <<>>]
      BY <2>2 DEF TilesInv, TypeOK
    <3>3. \A u \in Tiles : u # t => tcp'[u] = tcp[u]
      BY <2>2 DEF TilesInv, TypeOK
    <3> QED
      BY <3>1, <3>2, <3>3
  <2>5. new.tile = t /\ new.at = pos
    OBVIOUS
  <2>6. /\ Len(decoded') = N + 1 /\ N \in Nat
        /\ decoded'[N + 1] = new
        /\ \A k \in 1 .. N : decoded'[k] = decoded[k]
    <3>1. decoded \in Seq([tile : Tiles, data : Seq(Nat \X Nat), at : Nat])
      BY DEF TilesInv, TypeOK
    <3> HIDE DEF new
    <3> QED
      BY <2>2, <3>1
  <2> HIDE DEF new, N
  <2>7. IsInput(file) /\ pos \in Nat /\ TypeOK
    BY Types DEF TilesInv
  <2>8. file' = file /\ NumParts' = NumParts /\ StartOf' = StartOf
    BY <2>2, SameRequest
  <2>9. ASSUME NEW i \in 1 .. NumParts + 1, CountedAt(i)
        PROVE  Before(i) /\ CountsUpTo(i) /\ CountedAt(i)'
    <3>1. Before(i) /\ CountsUpTo(i)
      BY <2>2, <2>9 DEF CountedAt, AtSOT, InPart
    <3>2. Before(i)'
      BY <2>2, <2>3, <2>8, <3>1 DEF Before
    <3>3. CountsUpTo(i)'
      BY <2>2, <2>3, <2>4, <3>1, KeepsCounts
    <3> QED
      BY <2>2, <3>1, <3>2, <3>3 DEF CountedAt
  <2>10. CountedWell' => Gone' \/ \E i \in 1 .. NumParts' + 1 : CountedAt(i)'
    <3>1. Gone => Gone'
      BY <2>2, <2>8 DEF Gone
    <3> QED
      BY <2>2, <2>8, <2>9, <3>1, SameCounts DEF CountInv
  \* All the tile-parts of the tile have been read, or there is none any more.
  <2>11. ASSUME CountedWell, NEW k \in 1 .. NumParts, file.parts[k].tile = t
         PROVE  StartOf[k] < pos \/ file.limit < StartOf[k] + 12
    BY <2>1, <2>2, <2>11, NoneLeft
  <2>12. NoTilePartLeftBehind'
    <3>1. CountedWell => \A k \in 1 .. N + 1 : \A i \in 1 .. NumParts :
              file.parts[i].tile = decoded'[k].tile =>
                  StartOf[i] < decoded'[k].at \/ file.limit < StartOf[i] + 12
      <4> SUFFICES ASSUME CountedWell, NEW k \in 1 .. N + 1, NEW i \in 1 .. NumParts,
                          file.parts[i].tile = decoded'[k].tile
                   PROVE  StartOf[i] < decoded'[k].at \/ file.limit < StartOf[i] + 12
        OBVIOUS
      <4>1. CASE k = N + 1
        BY <2>5, <2>6, <2>11, <4>1
      <4>2. CASE k # N + 1
        <5>1. k \in 1 .. N /\ decoded'[k] = decoded[k]
          BY <2>6, <4>2
        <5> QED
          BY <5>1 DEF CountInv, NoTilePartLeftBehind, CountedWell, N
      <4> QED
        BY <4>1, <4>2
    <3>2. CountedWell' => \A k \in 1 .. Len(decoded') : \A i \in 1 .. NumParts' :
              file'.parts[i].tile = decoded'[k].tile =>
                  StartOf'[i] < decoded'[k].at \/ file'.limit < StartOf'[i] + 12
      BY <2>2, <2>6, <2>8, <3>1, SameCounts
    <3> QED
      BY <3>2 DEF NoTilePartLeftBehind, CountedWell
  <2> QED
    BY <2>10, <2>12 DEF CountInv
<1> QED
  BY <1>2, <1>3

LEMMA AfterTileCounts ==
    ASSUME TilesInv, CountInv, AfterTile
    PROVE  CountInv'
<1>1. ASSUME NEW at, NEW state, LoopOn(at, state)
      PROVE  /\ pc' = "finish" \/ pos' = at
             /\ pc' \in {"finish", "enter"}
  BY <1>1 DEF LoopOn
<1>2. pc = "after" /\ UNCHANGED <<request, marker, tcp, decoded>>
  BY DEF AfterTile
<1>3. /\ IsInput(file) /\ file.limit \in Nat /\ pos \in Nat /\ Left = file.limit - pos
      /\ pos <= file.limit /\ file' = file
  BY <1>2, Types DEF TilesInv, request
<1>4. pc' \in {"finish", "error"} => Gone'
  BY DEF Gone
<1>5. \A i \in 1 .. NumParts + 1 : CountedAt(i) => Before(i) /\ CountsUpTo(i)
  BY <1>2 DEF CountedAt, AtSOT, InPart
<1>6. CASE pc' \in {"finish", "error"}
  BY <1>2, <1>4, <1>6, OnlyCounts
<1>7. CASE NothingBehind /\ pc' \notin {"finish", "error"}
  <2>1. dec.state \in {"EOC", "NEOC"} /\ pos' = pos
    BY <1>1, <1>7 DEF NothingBehind
  <2>2. \A i \in 1 .. NumParts + 1 : ~CountedAt(i)
    BY <1>5, <2>1 DEF Before
  <2>3. pos' \in Nat /\ pos <= pos'
    BY <1>3, <2>1
  <2> QED
    BY <1>2, <2>2, <2>3, OnlyCounts
<1>8. CASE CutBehind /\ pc' \notin {"finish", "error"}
  <2>1. pos' = file.limit
    BY <1>1, <1>8 DEF CutBehind
  <2>2. pos' \in Nat /\ pos <= pos' /\ file.limit <= pos'
    BY <1>3, <2>1
  <2>3. NoneAhead(file, pos')
    BY <1>3, <2>2, GoneAtEnd
  <2>4. Gone'
    BY <1>3, <2>3 DEF Gone
  <2> QED
    BY <1>2, <2>2, <2>4, OnlyCounts
<1>9. CASE MarkerBehind /\ pc' \notin {"finish", "error"}
  <2>1. /\ pos' = pos + 2 /\ pc' = "enter"
        /\ MarkerAt(pos) = "SOT" => dec' = dec
    BY <1>1, <1>9 DEF MarkerBehind
  <2>2. dec.state = "TPHSOT"
    BY <1>9 DEF MarkerBehind
  <2>3. ASSUME NEW i \in 1 .. NumParts + 1, CountedAt(i) PROVE Gone' \/ CountedAt(i)'
    <3>1. Before(i) /\ CountsUpTo(i) /\ pos = StartOf[i] /\ ~dec.lastTilePart
      BY <1>5, <2>3 DEF Before
    <3>2. CASE i \in 1 .. NumParts
      <4>1. dec' = dec /\ i <= NumParts
        BY <1>3, <2>1, <3>1, <3>2, MarkerFacts, Layout
      <4>2. AtSOT(i)'
        BY <1>3, <2>1, <2>2, <3>1, <4>1, SameFile DEF AtSOT
      <4>3. CountsUpTo(i)'
        BY <1>2, <3>1, <4>1, KeepsCounts
      <4> QED
        BY <4>2, <4>3 DEF CountedAt
    <3>3. CASE i = NumParts + 1
      <4>1. StartOf[i] <= pos' /\ pos' \in Nat
        BY <1>3, <2>1, <3>1
      <4>2. NoneAhead(file, pos')
        BY <1>3, <3>3, <4>1, GonePast
      <4> QED
        BY <1>3, <4>2 DEF Gone
    <3>4. NumParts \in Nat
      BY <1>3, Layout
    <3> QED
      BY <3>2, <3>3, <3>4
  <2>4. pos' \in Nat /\ pos <= pos'
    BY <1>3, <2>1
  <2> QED
    BY <1>2, <2>3, <2>4, OnlyCounts
<1> QED
  BY <1>6, <1>7, <1>8, <1>9 DEF AfterTile

LEMMA FinishCounts ==
    ASSUME TilesInv, CountInv, Finish \/ UNCHANGED vars
    PROVE  CountInv'
<1>1. /\ request' = request /\ decoded' = decoded
      /\ pc' \in {"ok", "error"} \/ UNCHANGED vars
  BY DEF Finish, vars, request
<1>2. file' = file /\ NumParts' = NumParts /\ StartOf' = StartOf
  BY <1>1, SameRequest
<1>3. CountedWell' => Gone' \/ \E i \in 1 .. NumParts' + 1 : CountedAt(i)'
  <2>1. CASE pc' \in {"ok", "error"}
    BY <2>1 DEF Gone
  <2>2. CASE UNCHANGED vars
    <3>1. Gone => Gone'
      BY <2>2 DEF Gone, vars
    <3>2. ASSUME NEW i, CountedAt(i) PROVE CountedAt(i)'
      <4>1. \A j : CountsUpTo(j) => CountsUpTo(j)'
        BY <1>1, <2>2, KeepsCounts DEF vars
      <4>2. AtSOT(i) => AtSOT(i)'
        BY <1>2, <2>2 DEF AtSOT, vars
      <4>3. InHeader(i) => InHeader(i)'
        BY <1>1, <2>2, SameRequest DEF InHeader, vars, Wanted
      <4>4. Skipped(i) => Skipped(i)'
        BY <1>1, <2>2, SameRequest DEF Skipped, vars, Wanted
      <4>5. InPart(i) => InPart(i)'
        BY <1>2, <2>2, <4>3, <4>4 DEF InPart, vars
      <4>6. Before(i) => Before(i)'
        BY <1>2, <2>2 DEF Before, vars
      <4>7. pc' = pc /\ marker' = marker
        BY <2>2 DEF vars
      <4> QED
        BY <3>2, <4>1, <4>2, <4>5, <4>6, <4>7 DEF CountedAt
    <3> QED
      BY <1>1, <1>2, <3>1, <3>2, SameCounts DEF CountInv
  <2> QED
    BY <1>1, <2>1, <2>2
<1>4. NoTilePartLeftBehind'
  <2>1. CountedWell => \A k \in 1 .. Len(decoded) : \A i \in 1 .. NumParts :
                           file.parts[i].tile = decoded[k].tile =>
                               StartOf[i] < decoded[k].at \/ file.limit < StartOf[i] + 12
    BY DEF CountInv, NoTilePartLeftBehind, CountedWell
  <2>2. CountedWell' => \A k \in 1 .. Len(decoded') : \A i \in 1 .. NumParts' :
                           file'.parts[i].tile = decoded'[k].tile =>
                               StartOf'[i] < decoded'[k].at \/ file'.limit < StartOf'[i] + 12
    BY <1>1, <1>2, <2>1, SameCounts
  <2> QED
    BY <2>2 DEF NoTilePartLeftBehind, CountedWell
<1> QED
  BY <1>3, <1>4 DEF CountInv

LEMMA CountInit ==
    ASSUME Init
    PROVE  CountInv
<1>1. TilesInv /\ IsInput(file)
  BY TilesInit, Types DEF TilesInv
<1>2. /\ pos = 2 /\ decoded = <<>> /\ pc = "enter" /\ dec.state = "TPHSOT" /\ ~dec.lastTilePart
      /\ dec.checked = FALSE /\ dec.correction = 0
      /\ \A t \in Tiles : tcp[t].part = -1 /\ tcp[t].nb = 0
  BY DEF Init
<1>3. 1 \in 1 .. NumParts + 1 /\ 1 <= NumParts /\ StartOf[1] = 0
  BY <1>1, Layout
<1>4. CountsUpTo(1)
  <2>1. \A t \in Tiles : Seen(t, 1) = 0
    BY <1>1, SeenStep
  <2> QED
    BY <1>2, <2>1 DEF CountsUpTo
<1>5. AtSOT(1)
  BY <1>2, <1>3 DEF AtSOT
<1>6. NoTilePartLeftBehind
  BY <1>2 DEF NoTilePartLeftBehind
<1> QED
  BY <1>3, <1>4, <1>5, <1>6 DEF CountInv, CountedAt

\* The actions keep the counts.
LEMMA CountsStep ==
    ASSUME TilesInv, CountInv, [Next]_vars
    PROVE  CountInv'
BY EnterTileHeaderCounts, EndOfStreamCounts, ReadSOTCounts, ReadHeaderSegmentCounts,
   SkipTilePartCounts, ReadSODCounts, CheckCorrectionCounts, NextTilePartCounts,
   SelectTileCounts, DecodeTileCounts, AfterTileCounts, FinishCounts
DEF Next

\* A tile is decoded when nothing of it is to come any more: the number of tile-parts that
\* TNsot announces, or that needNbTilePartsCorrection has put right, is reached behind the
\* last one and not before.
THEOREM TilePartsAllRead == Spec => []NoTilePartLeftBehind
<1>1. CountInv => NoTilePartLeftBehind
  BY DEF CountInv
<1> QED
  BY CountInit, TilesInvariant, CountsStep, <1>1, PTL DEF Spec

-------------------------------------------------------------------------------
(* A whole file is decoded without an error. *)

LEMMA SameWhole ==
    ASSUME request' = request
    PROVE  /\ WholeFile' <=> WholeFile
           /\ \A i : AtSOT(i)' <=> /\ pc' = "enter" \/ (pc' = "scan" /\ marker' = "SOT" /\ ~dec'.canDecode)
                                  /\ dec'.state = "TPHSOT" /\ i <= NumParts
                                  /\ pos' = StartOf[i] + 2 /\ ~dec'.lastTilePart
<1>1. file' = file /\ NumParts' = NumParts /\ StartOf' = StartOf /\ Tiles' = Tiles
      /\ \A t : (Wanted(t)' <=> Wanted(t)) /\ DataOf(t)' = DataOf(t)
  BY SameRequest
<1>2. Intact' <=> Intact
  BY <1>1 DEF Intact
<1>3. UnwantedOpenEnd' <=> UnwantedOpenEnd
  BY <1>1 DEF UnwantedOpenEnd, Wanted, request
<1>4. \A t : HasData(t)' <=> HasData(t)
  BY <1>1 DEF HasData
<1> QED
  BY <1>1, <1>2, <1>3, <1>4, SameCounts DEF WholeFile, AtSOT

\* The tile-parts of a whole file are all there, and EOC behind them.
LEMMA WholeLayout ==
    ASSUME TypeOK, WholeFile
    PROVE  /\ IsInput(file) /\ file.eoc /\ CountedWell /\ Numbered
           /\ file.limit = StartOf[NumParts + 1] + 2 /\ file.limit \in Nat
           /\ \A i \in 1 .. NumParts + 1 : StartOf[i] \in Nat /\ StartOf[i] + 2 <= file.limit
           /\ \A i \in 1 .. NumParts :
                 /\ i \in 1 .. NumParts + 1 /\ i + 1 \in 1 .. NumParts + 1
                 /\ DataEnd(i) = StartOf[i + 1] /\ DataEnd(i) + 2 <= file.limit
                 /\ StartOf[i] + 14 <= DataAt(i) /\ DataAt(i) <= DataEnd(i)
                 /\ file.parts[i].psot0 => i = NumParts /\ Wanted(file.parts[i].tile)
           /\ \A i, j \in 1 .. NumParts + 1 : StartOf[i] < StartOf[j] <=> i < j
<1>1. IsInput(file) /\ file.limit \in Nat
  BY Types
<1>2. /\ NumParts \in Nat /\ NumParts >= 1 /\ NumParts + 1 \in 1 .. NumParts + 1
      /\ \A i \in 1 .. NumParts + 1 : StartOf[i] \in Nat
      /\ \A i \in 1 .. NumParts :
            /\ i \in 1 .. NumParts + 1 /\ i + 1 \in 1 .. NumParts + 1
            /\ StartOf[i + 1] = DataEnd(i)
            /\ DataEnd(i) = DataAt(i) + file.parts[i].len
            /\ DataAt(i) = StartOf[i] + 14 + 4 * file.parts[i].hdr
            /\ file.parts[i].hdr \in {0, 1} /\ file.parts[i].len \in Nat
            /\ \A j \in 1 .. NumParts + 1 : i < j => DataEnd(i) <= StartOf[j]
  BY <1>1, Layout
<1>3. file.eoc /\ file.limit = StartOf[NumParts + 1] + 2 /\ Numbered
  BY DEF WholeFile, Intact, WellFormed, OneShort
<1>4. ASSUME NEW i \in 1 .. NumParts + 1, NEW j \in 1 .. NumParts + 1, i < j
      PROVE  StartOf[i] < StartOf[j]
  <2>1. i \in 1 .. NumParts
    BY <1>2, <1>4
  <2>2. DataEnd(i) <= StartOf[j] /\ DataEnd(i) = StartOf[i] + 14 + 4 * file.parts[i].hdr + file.parts[i].len
    BY <1>2, <1>4, <2>1
  <2> QED
    BY <1>2, <1>4, <2>1, <2>2
<1>5. \A i, j \in 1 .. NumParts + 1 : StartOf[i] < StartOf[j] <=> i < j
  <2> TAKE i, j \in 1 .. NumParts + 1
  <2>1. StartOf[i] \in Nat /\ StartOf[j] \in Nat /\ i \in Nat /\ j \in Nat
    BY <1>2
  <2>2. i < j \/ i = j \/ j < i
    BY <2>1
  <2> QED
    BY <1>4, <2>1, <2>2
<1>6. \A i \in 1 .. NumParts + 1 : StartOf[i] <= StartOf[NumParts + 1]
  <2> TAKE i \in 1 .. NumParts + 1
  <2>1. i = NumParts + 1 \/ i < NumParts + 1
    BY <1>2
  <2> QED
    BY <1>2, <1>4, <2>1
<1>7. \A i \in 1 .. NumParts + 1 : StartOf[i] \in Nat /\ StartOf[i] + 2 <= file.limit
  BY <1>2, <1>3, <1>6
<1>8. ASSUME NEW i \in 1 .. NumParts
      PROVE  /\ StartOf[i] + 14 <= DataAt(i) /\ DataAt(i) <= DataEnd(i)
             /\ DataEnd(i) + 2 <= file.limit
             /\ file.parts[i].psot0 => i = NumParts /\ Wanted(file.parts[i].tile)
  <2>1. StartOf[i] + 14 <= DataAt(i) /\ DataAt(i) <= DataEnd(i)
    BY <1>2
  <2>2. DataEnd(i) + 2 <= file.limit
    BY <1>2, <1>7
  <2>3. file.parts[i].psot0 => i = NumParts
    BY <1>1, OpenEndLast
  <2>4. file.parts[i].psot0 => Wanted(file.parts[i].tile)
    BY <2>3 DEF WholeFile, UnwantedOpenEnd
  <2> QED
    BY <2>1, <2>2, <2>3, <2>4
<1>9. CountedWell
  <2>1. StartOf[NumParts] + 2 <= file.limit
    BY <1>2, <1>7
  <2> QED
    BY <2>1 DEF CountedWell, WholeFile
<1> QED
  BY <1>1, <1>2, <1>3, <1>5, <1>7, <1>8, <1>9

\* Without a tile-part of a tile from part i on, its data up to there is all of it.
LEMMA DataUpToAll ==
    ASSUME IsInput(file), NEW t, NEW i \in 1 .. NumParts + 1,
           \A k \in 1 .. NumParts : file.parts[k].tile = t => k < i
    PROVE  DataUpTo(t, i) = DataOf(t)
<1> DEFINE N == NumParts
           S == {j \in i .. N + 1 : DataUpTo(t, j) = DataUpTo(t, i)}
<1>1. N \in Nat /\ i \in Int /\ N + 1 \in Int /\ i <= N + 1 /\ 1 <= i
  BY Layout
<1>2. i \in S
  BY <1>1
<1>3. \A j \in i .. (N + 1) - 1 : j \in S => j + 1 \in S
  <2> TAKE j \in i .. (N + 1) - 1
  <2> HAVE j \in S
  <2>1. j \in 1 .. N /\ j + 1 \in i .. N + 1 /\ ~(j < i)
    BY <1>1
  <2>2. file.parts[j].tile # t
    BY <2>1
  <2>3. DataUpTo(t, j + 1) = DataUpTo(t, j)
    BY <2>1, <2>2, DataUpToNext
  <2> QED
    BY <2>1, <2>3
<1> HIDE DEF S
<1>4. \A j \in i .. N + 1 : j \in S
  BY <1>1, <1>2, <1>3, IntervalInduction
<1>5. DataUpTo(t, N + 1) = DataUpTo(t, i)
  BY <1>1, <1>4 DEF S
<1>6. DataUpTo(t, N + 1) = DataOf(t)
  <2> DEFINE m == Count(t, N + 1)
             d(k) == LET j == CHOOSE j \in WithData(t, N + 1) : Count(t, j) = k - 1
                     IN  <<DataAt(j), DataEnd(j)>>
  <2>1. DataOf(t) = [k \in 1 .. m |-> d(k)]
    BY DEF DataOf
  <2>2. DataUpTo(t, N + 1) = [k \in 1 .. m |-> DataOf(t)[k]]
    BY DEF DataUpTo
  <2> HIDE DEF d, m
  <2> QED
    BY <2>1, <2>2
<1> QED
  BY <1>5, <1>6

\* What a step that decodes no tile and gives none data leaves as it was.
LEMMA KeepsRun ==
    ASSUME request' = request, decoded' = decoded, WholeRun, pc' # "after",
           \A t \in Tiles : tcp'[t].hasData = tcp[t].hasData /\ tcp'[t].data = tcp[t].data
    PROVE  /\ \E t \in Tiles' : Wanted(t)'
           /\ DecodedWhole' /\ DataShown'
           /\ \A i : HasUpTo(i) => HasUpTo(i)'
           /\ NumParts' = NumParts /\ StartOf' = StartOf /\ Tiles' = Tiles /\ file' = file
           /\ AllDecoded => AllDecoded'
<1>1. /\ NumParts' = NumParts /\ StartOf' = StartOf /\ Tiles' = Tiles /\ file' = file
      /\ \A t : (Wanted(t)' <=> Wanted(t)) /\ DataOf(t)' = DataOf(t)
  BY SameRequest
<1>2. \A t : IsDecoded(t)' <=> IsDecoded(t)
  BY SameDecoded
<1>3. \E t \in Tiles' : Wanted(t)'
  BY <1>1 DEF WholeRun
<1>4. DecodedWhole'
  BY <1>1 DEF WholeRun, DecodedWhole
<1>5. DataShown'
  BY <1>1 DEF WholeRun, DataShown
<1>6. \A i : HasUpTo(i) => HasUpTo(i)'
  BY <1>2, KeepsData
<1>7. AllDecoded => AllDecoded'
  BY <1>1, <1>2 DEF AllDecoded
<1> QED
  BY <1>1, <1>3, <1>4, <1>5, <1>6, <1>7

LEMMA KeepsNumbers ==
    ASSUME request' = request, NumberKnown,
           \A t \in Tiles : tcp'[t].part = tcp[t].part /\ tcp'[t].nb = tcp[t].nb
    PROVE  /\ NumberKnown'
           /\ \A t \in Tiles : Complete(t)' <=> Complete(t)
<1>1. Tiles' = Tiles /\ \A t : Wanted(t)' <=> Wanted(t)
  BY SameRequest
<1>2. NumberKnown'
  BY <1>1, SameCounts DEF NumberKnown
<1>3. \A t \in Tiles : Complete(t)' <=> Complete(t)
  BY <1>1 DEF Complete
<1> QED
  BY <1>2, <1>3

\* Where no tile-part is being read, no tile is complete before the look-ahead.
LEMMA NoneStays ==
    ASSUME request' = request, NumberKnown, NoneComplete, pc \notin {"scan", "correct"},
           dec'.checked = dec.checked,
           \A t \in Tiles : tcp'[t].part = tcp[t].part /\ tcp'[t].nb = tcp[t].nb
    PROVE  NoneComplete' /\ NumberKnown'
<1>1. Tiles' = Tiles
  BY SameRequest
<1> QED
  BY <1>1, KeepsNumbers DEF NoneComplete

LEMMA EnterTileHeaderWhole ==
    ASSUME TilesInv, WholeFile, WholeRun, EnterTileHeader
    PROVE  WholeRun'
<1>1. pc = "enter" /\ ~dec.canDecode /\ dec.canDecode = FALSE
  BY Types DEF EnterTileHeader, TilesInv, FlagInv
<1>2. (\E i \in 1 .. NumParts + 1 : Reading(i)) \/ Emptying
  BY <1>1 DEF WholeRun
<1>3. dec.state \in {"TPHSOT", "EOC"}
  BY <1>1, <1>2 DEF Reading, AtSOT, InPart, Behind, Emptying
<1>4. /\ marker' = IF dec.state = "EOC" THEN "EOC" ELSE "SOT"
      /\ pc' = IF marker' = "EOC" THEN "found" ELSE "scan"
      /\ UNCHANGED <<request, pos, dec, tcp, decoded>>
  BY <1>1, <1>3 DEF EnterTileHeader, LoopTop
<1>5. pc' \in {"found", "scan"}
  BY <1>4
<1>6. /\ \E t \in Tiles' : Wanted(t)'
      /\ DecodedWhole' /\ DataShown'
      /\ \A i : HasUpTo(i) => HasUpTo(i)'
      /\ NumParts' = NumParts /\ Tiles' = Tiles
  BY <1>4, <1>5, KeepsRun
<1>7. NoneComplete' /\ NumberKnown'
  BY <1>1, <1>4, NoneStays DEF WholeRun
<1>8. ChosenLeft'
  BY <1>1, <1>4, <1>5 DEF ChosenLeft
<1>9. (\E i \in 1 .. NumParts' + 1 : Reading(i)') \/ Emptying'
  <2>1. ASSUME NEW i \in 1 .. NumParts + 1, Reading(i) PROVE Reading(i)'
    <3>1. AtSOT(i) /\ HasUpTo(i)
      BY <1>1, <2>1 DEF Reading, InPart, Behind
    <3>2. AtSOT(i)'
      BY <1>1, <1>4, <3>1, SameWhole DEF AtSOT
    <3> QED
      BY <1>6, <3>1, <3>2 DEF Reading
  <2>2. ASSUME Emptying PROVE Emptying'
    <3>1. dec.state = "EOC" /\ HasUpTo(NumParts + 1)
          /\ \A t \in Tiles : tcp[t].hasData => dec.cur <= t
      BY <1>1, <2>2 DEF Emptying
    <3>2. pc' = "found"
      BY <1>4, <3>1
    <3> QED
      BY <1>1, <1>4, <1>6, <3>1, <3>2 DEF Emptying
  <2> QED
    BY <1>2, <1>6, <2>1, <2>2
<1> QED
  BY <1>5, <1>6, <1>7, <1>8, <1>9 DEF WholeRun

\* The stream does not end where a marker segment is expected.
LEMMA EndOfStreamWhole ==
    ASSUME TilesInv, WholeFile, WholeRun, EndOfStream
    PROVE  FALSE
<1>1. pc = "scan" /\ marker # "SOD" /\ Left = 0
  BY DEF EndOfStream
<1>2. PICK i \in 1 .. NumParts + 1 : Reading(i)
  BY <1>1 DEF WholeRun, Emptying
<1>3. /\ i \in 1 .. NumParts /\ pos \in {StartOf[i] + 2, StartOf[i] + 14}
  <2>1. NumParts \in Nat
    BY Types, Layout DEF TilesInv
  <2>2. CASE AtSOT(i)
    BY <2>1, <2>2 DEF AtSOT
  <2>3. CASE InPart(i)
    <3>1. i <= NumParts /\ InHeader(i)
      BY <1>1, <2>3 DEF InPart, Skipped
    <3>2. pos \in {StartOf[i] + 14, DataAt(i)} /\ pos # DataAt(i)
      BY <1>1, <3>1 DEF InHeader
    <3> QED
      BY <2>1, <3>1, <3>2
  <2> QED
    BY <1>1, <1>2, <2>2, <2>3 DEF Reading, Behind
<1>4. /\ file.limit \in Nat /\ Left = file.limit - pos /\ pos \in Nat
      /\ StartOf[i] \in Nat /\ StartOf[i] + 14 <= DataAt(i) /\ DataAt(i) <= DataEnd(i)
      /\ DataEnd(i) + 2 <= file.limit /\ DataEnd(i) \in Nat /\ DataAt(i) \in Nat
  <2>1. /\ file.limit \in Nat /\ Left = file.limit - pos /\ pos \in Nat /\ IsInput(file)
    BY Types DEF TilesInv
  <2>2. /\ StartOf[i] \in Nat /\ StartOf[i] + 14 <= DataAt(i) /\ DataAt(i) <= DataEnd(i)
        /\ DataEnd(i) + 2 <= file.limit
    BY <1>3, WholeLayout DEF TilesInv
  <2>3. DataEnd(i) \in Nat /\ DataAt(i) \in Nat
    BY <1>3, <2>1, Layout
  <2> QED
    BY <2>1, <2>2, <2>3
<1> QED
  BY <1>1, <1>3, <1>4

\* The tile-parts of a whole file come in an order that readSOT accepts.
LEMMA OrderAccepted ==
    ASSUME TypeOK, WholeFile, NEW i \in 1 .. NumParts, CountsUpTo(i), NumberKnown,
           dec.checked \/ \A t \in Tiles : ~Complete(t)
    PROVE  TilePartInOrder(file.parts[i])
<1>1. IsInput(file) /\ Numbered
  BY WholeLayout
<1>2. PICK p \in Parts : p = file.parts[i]
  BY <1>1, Layout
<1>3. PICK t \in Tiles : t = p.tile
  BY DEF Parts
<1>4. PICK s \in Nat, n \in Nat : s = Seen(t, i) /\ n = Total(t) /\ s + 1 <= n
  <2>1. /\ i \in 1 .. NumParts + 1 /\ i + 1 \in 1 .. NumParts + 1
        /\ NumParts + 1 \in 1 .. NumParts + 1 /\ i + 1 <= NumParts + 1
    BY <1>1, Layout
  <2>2. /\ Seen(t, i) \in Nat /\ Total(t) \in Nat
        /\ Seen(t, i + 1) = Seen(t, i) + 1 /\ Seen(t, i + 1) <= Total(t)
    BY <1>1, <1>2, <1>3, <2>1, SeenStep DEF Total
  <2> QED
    BY <2>2
<1>5. p.tp = s /\ p.tn \in Nat
  BY <1>1, <1>2, <1>3, <1>4 DEF Numbered, Parts
<1>6. PICK b \in Nat, c \in {0, 1} : b = tcp[t].nb /\ c = dec.correction
  BY Types
<1>7. tcp[t].part = s - 1
  BY <1>4 DEF CountsUpTo
<1>8. (b # 0 => s < b) /\ (p.tn # 0 => s < p.tn + c)
  <2>1. CASE WellFormed
    <3>1. c = 0 /\ ~OneShort
      BY <1>1, <1>6, <2>1, OneShortOnly DEF CountsUpTo
    <3>2. b \in {0, n - 0}
      BY <1>4, <1>6, <3>1 DEF CountsUpTo, Short
    <3>3. p.tn \in {0, n}
      BY <1>2, <1>3, <1>4, <2>1 DEF WellFormed
    <3> QED
      BY <1>4, <3>1, <3>2, <3>3
  <2>2. CASE OneShort
    <3>1. p.tn = n - 1 /\ n >= 3 /\ Wanted(t)
      BY <1>2, <1>3, <1>4, <2>2 DEF OneShort
    <3>2. CASE dec.checked
      <4>1. c = 1
        BY <1>6, <2>2, <3>2 DEF CountsUpTo
      <4>2. b \in {0, n - 0}
        BY <1>4, <1>6, <4>1 DEF CountsUpTo, Short
      <4> QED
        BY <1>4, <3>1, <4>1, <4>2
    <3>3. CASE ~dec.checked
      <4>1. c = 0
        BY <1>6, <2>2, <3>3 DEF CountsUpTo
      <4>2. b \in {0, n - 1}
        BY <1>4, <1>6, <2>2, <4>1 DEF CountsUpTo, Short
      <4>3. b = 0 => s = 0
        <5>1. b = 0 => tcp[t].part = -1
          BY <1>6, <2>2 DEF NumberKnown
        <5> QED
          BY <1>7, <5>1
      <4>4. b # 0 => b # s
        <5>1. b # 0 => b # (s - 1) + 1
          BY <1>6, <1>7, <3>1, <3>3 DEF Complete
        <5> QED
          BY <5>1
      <4> QED
        BY <1>4, <3>1, <4>1, <4>2, <4>3, <4>4
    <3> QED
      BY <3>2, <3>3
  <2> QED
    BY <2>1, <2>2 DEF WholeFile
<1> QED
  <2>1. p.tp = tcp[t].part + 1
    BY <1>5, <1>7
  <2> QED
    BY <1>2, <1>3, <1>5, <1>6, <1>8, <2>1 DEF TilePartInOrder

\* Counts at an SOT marker, in the header of a tile-part and behind it.
LEMMA CountedHere ==
    ASSUME TilesInv, CountInv, WholeFile, NEW i \in 1 .. NumParts + 1, AtSOT(i), pc = "scan"
    PROVE  i \in 1 .. NumParts /\ CountsUpTo(i)
<1>1. NumParts \in Nat /\ pos \in Nat /\ TypeOK
  BY Types, Layout DEF TilesInv
<1>2. i \in 1 .. NumParts /\ pos = StartOf[i] + 2 /\ marker = "SOT"
  BY <1>1 DEF AtSOT
<1>3. /\ StartOf[i] \in Nat /\ StartOf[i] + 14 <= DataAt(i) /\ DataAt(i) <= DataEnd(i)
      /\ DataEnd(i) + 2 <= file.limit /\ file.limit \in Nat /\ CountedWell /\ IsInput(file)
  BY <1>1, <1>2, WholeLayout
<1>4. DataEnd(i) \in Nat /\ DataAt(i) \in Nat
  BY <1>2, <1>3, Layout
<1>5. ~NoneAhead(file, pos)
  <2>1. ~(StartOf[i] + 2 < pos) /\ ~(file.limit < StartOf[i] + 12)
    BY <1>1, <1>2, <1>3, <1>4
  <2> QED
    BY <1>2, <2>1 DEF NoneAhead, NumParts, StartOf
<1>6. PICK j \in 1 .. NumParts + 1 : CountedAt(j)
  BY <1>3, <1>5 DEF CountInv, Gone
<1>7. AtSOT(j) /\ CountsUpTo(j)
  BY <1>2, <1>6 DEF CountedAt, InPart, Before, InHeader, Skipped
<1>8. j \in 1 .. NumParts /\ StartOf[j] \in Nat /\ StartOf[j] = StartOf[i]
  <2>1. j \in 1 .. NumParts
    BY <1>1, <1>7 DEF AtSOT
  <2>2. StartOf[j] \in Nat /\ pos = StartOf[j] + 2
    BY <1>3, <1>7, Layout DEF AtSOT
  <2> QED
    BY <1>2, <1>3, <2>1, <2>2
<1>9. j = i
  <2>1. ~(i < j) /\ ~(j < i)
    BY <1>1, <1>3, <1>8, WholeLayout
  <2> QED
    BY <1>2, <1>8, <2>1
<1> QED
  BY <1>2, <1>7, <1>9

LEMMA ReadSOTWhole ==
    ASSUME TilesInv, CountInv, WholeFile, WholeRun, ReadSOT
    PROVE  WholeRun'
<1>1. pc = "scan" /\ marker = "SOT"
  BY DEF ReadSOT
<1>2. PICK i \in 1 .. NumParts + 1 : Reading(i)
  BY <1>1 DEF WholeRun, Emptying
<1>3. AtSOT(i) /\ HasUpTo(i)
  BY <1>1, <1>2 DEF Reading, InPart, Behind, InHeader, Skipped
<1>4. i \in 1 .. NumParts /\ CountsUpTo(i)
  BY <1>1, <1>3, CountedHere
<1>5. pos = StartOf[i] + 2 /\ ~dec.canDecode /\ ~dec.lastTilePart
  BY <1>1, <1>3 DEF AtSOT
<1>6. /\ IsInput(file) /\ file.limit \in Nat /\ pos \in Nat /\ Left = file.limit - pos /\ TypeOK
  BY Types DEF TilesInv
<1>7. /\ StartOf[i] \in Nat /\ StartOf[i] + 14 <= DataAt(i) /\ DataAt(i) <= DataEnd(i)
      /\ DataEnd(i) + 2 <= file.limit /\ DataEnd(i) \in Nat /\ DataAt(i) \in Nat
      /\ file.parts[i].psot0 => Wanted(file.parts[i].tile)
      /\ PartLen(file.parts[i]) = 14 + 4 * file.parts[i].hdr + file.parts[i].len
      /\ DataEnd(i) = StartOf[i] + PartLen(file.parts[i])
      /\ file.parts[i] \in Parts
      /\ PartLen(file.parts[i]) \in Nat /\ PartLen(file.parts[i]) >= 14
  <2>1. /\ StartOf[i] + 14 <= DataAt(i) /\ DataAt(i) <= DataEnd(i)
        /\ DataEnd(i) + 2 <= file.limit
        /\ file.parts[i].psot0 => Wanted(file.parts[i].tile)
    BY <1>4, <1>6, WholeLayout
  <2>2. /\ StartOf[i] \in Nat /\ file.parts[i] \in Parts
        /\ file.parts[i].len \in Nat /\ file.parts[i].hdr \in {0, 1}
        /\ PartLen(file.parts[i]) = 14 + 4 * file.parts[i].hdr + file.parts[i].len
        /\ DataAt(i) = StartOf[i] + 14 + 4 * file.parts[i].hdr
        /\ DataEnd(i) = DataAt(i) + file.parts[i].len
    BY <1>4, <1>6, Layout
  <2> QED
    BY <2>1, <2>2
\* The part is taken, and the marker behind its segment read, or its data skipped.
<1>8. dec.checked \/ \A t \in Tiles : ~Complete(t)
  BY <1>5 DEF WholeRun, NoneComplete
<1>9. TilePartInOrder(file.parts[i]) /\ PartHere = file.parts[i] /\ Left >= 10
  <2>1. NumberKnown
    BY DEF WholeRun
  <2>2. TilePartInOrder(file.parts[i])
    BY <1>4, <1>6, <1>8, <2>1, OrderAccepted
  <2>3. PartHere = file.parts[i]
    BY <1>4, <1>5, <1>6, PartHereIs
  <2> QED
    BY <1>5, <1>6, <1>7, <2>2, <2>3
<1>10. AcceptSOT(file.parts[i])
  BY <1>9 DEF ReadSOT
<1>11. PICK p \in Parts, t \in Tiles : p = file.parts[i] /\ t = p.tile
  BY <1>7 DEF Parts
<1>12. PICK sot \in Nat : sot = IF p.psot0 THEN 0 ELSE PartLen(p) - 12
  BY <1>7, <1>11
<1>13. pc' = "scan" /\ pos' \in {StartOf[i] + 14, DataEnd(i)}
  <2>1. IF Wanted(t) THEN ReadMarker(pos + 10) ELSE SkipData(pos + 10, sot)
    BY <1>5, <1>10, <1>11, <1>12 DEF AcceptSOT, Parts
  <2>2. CASE Wanted(t)
    <3>1. ReadMarker(pos + 10) /\ ~(pos + 10 + 2 > file.limit)
      BY <1>5, <1>6, <1>7, <2>1, <2>2
    <3>2. pos' = pos + 10 + 2 /\ pc' = pc
      BY <3>1 DEF ReadMarker
    <3> QED
      BY <1>1, <1>5, <1>6, <1>7, <3>2
  <2>3. CASE ~Wanted(t)
    <3>1. sot = PartLen(p) - 12
      BY <1>7, <1>11, <1>12, <2>3
    <3>2. pos + 10 + sot = DataEnd(i)
      BY <1>5, <1>6, <1>7, <1>11, <3>1
    <3>3. ~(pos + 10 + sot > file.limit) /\ pos + 10 + sot <= file.limit
      BY <1>6, <1>7, <3>2
    <3>4. pos' = pos + 10 + sot /\ pc' = pc
      BY <2>1, <2>3, <3>3 DEF SkipData
    <3> QED
      BY <1>1, <3>2, <3>4
  <2> QED
    BY <2>2, <2>3
<1>14. ~Fail
  BY <1>13 DEF Fail
<1>15. PICK k \in 1 .. NumParts, q \in Parts, u \in Tiles, nb \in Nat, last \in BOOLEAN, n \in Nat :
          SOTRead(k, q, u, nb, last, n)
  BY <1>14, ReadSOTEffect
<1>16. q = p /\ InPart(i)'
  <2>1. q = p /\ (pc' = "error" \/ Left' = 0 \/ InPart(i)')
    BY <1>3, <1>11, <1>15, ReadSOTPlace
  <2>2. Left' = file.limit - pos'
    BY <1>15 DEF SOTRead, Left, request
  <2>3. Left' # 0
    BY <1>6, <1>7, <1>13, <2>2
  <2> QED
    BY <1>13, <2>1, <2>3
<1>17. /\ u = t
       /\ nb = IF p.tn = 0 THEN tcp[t].nb ELSE p.tn + dec.correction
       /\ tcp' = [tcp EXCEPT ![t].part = p.tp, ![t].nb = nb]
       /\ dec' = [dec EXCEPT !.cur = t, !.lastTilePart = last, !.canDecode = (nb = p.tp + 1),
                             !.sotLength = n, !.state = "TPH", !.skipData = ~Wanted(t)]
       /\ UNCHANGED <<request, decoded>>
  BY <1>11, <1>15, <1>16 DEF SOTRead
<1>18. dec'.cur = t /\ dec'.canDecode = (nb = p.tp + 1) /\ dec'.checked = dec.checked
  BY <1>17 DEF TilesInv, TypeOK
<1>19. /\ tcp'[t].part = p.tp /\ tcp'[t].nb = nb
       /\ \A v \in Tiles : v # t => tcp'[v] = tcp[v]
       /\ \A v \in Tiles : tcp'[v].hasData = tcp[v].hasData /\ tcp'[v].data = tcp[v].data
  <2>1. \A v \in Tiles : v # t => tcp'[v] = tcp[v]
    BY <1>17 DEF TilesInv, TypeOK
  <2>2. tcp[t] \in [part : Nat \union {-1}, nb : Nat, hasData : BOOLEAN, data : Seq(Nat \X Nat)]
    BY DEF TilesInv, TypeOK
  <2>3. tcp'[t] = [tcp[t] EXCEPT !.part = p.tp, !.nb = nb]
    BY <1>17 DEF TilesInv, TypeOK
  <2>4. /\ tcp'[t].part = p.tp /\ tcp'[t].nb = nb
        /\ tcp'[t].hasData = tcp[t].hasData /\ tcp'[t].data = tcp[t].data
    BY <2>2, <2>3
  <2> QED
    BY <2>1, <2>4
<1>20. /\ \E v \in Tiles' : Wanted(v)'
       /\ DecodedWhole' /\ DataShown'
       /\ \A j : HasUpTo(j) => HasUpTo(j)'
       /\ NumParts' = NumParts /\ Tiles' = Tiles
  BY <1>13, <1>17, <1>19, KeepsRun
<1>21. NumberKnown'
  <2>1. OneShort => nb # 0
    <3>1. OneShort => p.tn = Total(t) - 1 /\ Total(t) >= 3
      BY <1>4, <1>11 DEF OneShort
    <3>2. Total(t) \in Nat /\ dec.correction \in {0, 1}
      <4>1. NumParts + 1 \in 1 .. NumParts + 1
        BY <1>6, Layout
      <4> QED
        BY <1>6, <4>1, SeenStep, Types DEF Total
    <3> QED
      BY <1>17, <3>1, <3>2
  <2>2. OneShort => \A v \in Tiles : tcp'[v].nb = 0 => tcp'[v].part = -1
    BY <1>19, <2>1 DEF WholeRun, NumberKnown
  <2> QED
    BY <1>17, <1>20, <2>2, SameCounts DEF NumberKnown
<1>22. NoneComplete'
  <2>1. ASSUME ~dec.checked, NEW v \in Tiles, Complete(v)'
        PROVE  v = t /\ nb = p.tp + 1
    <3>1. tcp'[v].nb = tcp'[v].part + 1 /\ tcp'[v].nb # 0 /\ Wanted(v)
      BY <1>17, <2>1, SameRequest DEF Complete
    <3>2. v # t => Complete(v)
      BY <1>19, <3>1 DEF Complete
    <3>3. v = t
      BY <1>8, <2>1, <3>2
    <3> QED
      BY <1>19, <3>1, <3>3
  <2> QED
    BY <1>13, <1>18, <1>20, <2>1 DEF NoneComplete
<1>23. Reading(i)'
  BY <1>3, <1>16, <1>20 DEF Reading
<1>24. ChosenLeft'
  BY <1>13 DEF ChosenLeft
<1> QED
  BY <1>13, <1>20, <1>21, <1>22, <1>23, <1>24 DEF WholeRun

LEMMA ReadHeaderSegmentWhole ==
    ASSUME TilesInv, WholeFile, WholeRun, ReadHeaderSegment
    PROVE  WholeRun'
<1>1. pc = "scan" /\ marker = "COM" /\ Left # 0
  BY DEF ReadHeaderSegment
<1>2. PICK i \in 1 .. NumParts + 1 : Reading(i)
  BY <1>1 DEF WholeRun, Emptying
<1>3. InPart(i) /\ InHeader(i) /\ HasUpTo(i)
  BY <1>1, <1>2 DEF Reading, AtSOT, Behind, InPart, Skipped
<1>4. i \in 1 .. NumParts /\ IsInput(file) /\ TypeOK
  BY <1>3, Types, Layout DEF InPart, TilesInv
<1>5. /\ StartOf[i] \in Nat /\ file.parts[i].hdr \in {0, 1}
      /\ DataAt(i) = StartOf[i] + 14 + 4 * file.parts[i].hdr
      /\ DataAt(i) <= DataEnd(i) /\ DataEnd(i) + 2 <= file.limit /\ DataEnd(i) \in Nat
  <2>1. DataAt(i) <= DataEnd(i) /\ DataEnd(i) + 2 <= file.limit
    BY <1>4, WholeLayout
  <2> QED
    BY <1>4, <2>1, Layout
<1>6. pos = StartOf[i] + 14 /\ pos # DataAt(i)
  BY <1>1, <1>3 DEF InHeader
<1>7. Left >= 4 /\ dec.state = "TPH"
  <2>1. Left = file.limit - pos /\ file.limit \in Nat
    BY <1>4, Types
  <2>2. Left >= 4
    BY <1>5, <1>6, <2>1
  <2> QED
    BY <1>3, <2>2 DEF InPart
<1>8. /\ dec' = [dec EXCEPT !.sotLength = IF @ = 0 THEN 0 ELSE @ - 4]
      /\ UNCHANGED <<request, tcp, decoded, pc>>
  <2>1. Left \in Nat /\ ~(Left < 4)
    BY <1>4, <1>7, Types
  <2> QED
    BY <1>7, <2>1 DEF ReadHeaderSegment
<1>9. dec'.cur = dec.cur /\ dec'.canDecode = dec.canDecode /\ dec'.checked = dec.checked
  BY <1>8 DEF TilesInv, TypeOK
<1>10. ~Fail
  BY <1>1, <1>8 DEF Fail
<1>11. InPart(i)'
  BY <1>3, <1>10, ReadHeaderSegmentPlace
<1>12. /\ \E t \in Tiles' : Wanted(t)'
       /\ DecodedWhole' /\ DataShown'
       /\ \A j : HasUpTo(j) => HasUpTo(j)'
       /\ NumParts' = NumParts /\ Tiles' = Tiles
  BY <1>1, <1>8, KeepsRun
<1>13. NumberKnown' /\ \A t \in Tiles : Complete(t)' <=> Complete(t)
  BY <1>8, KeepsNumbers DEF WholeRun
<1>14. NoneComplete'
  BY <1>8, <1>9, <1>12, <1>13 DEF WholeRun, NoneComplete
<1>15. Reading(i)'
  BY <1>3, <1>11, <1>12 DEF Reading
<1>16. ChosenLeft'
  BY <1>1, <1>8 DEF ChosenLeft
<1> QED
  BY <1>1, <1>8, <1>12, <1>13, <1>14, <1>15, <1>16 DEF WholeRun

LEMMA SkipTilePartWhole ==
    ASSUME TilesInv, WholeFile, WholeRun, SkipTilePart
    PROVE  WholeRun'
<1>1. /\ pc = "scan" /\ marker = "SOD" /\ dec.skipData /\ pc' = "next"
      /\ dec' = [dec EXCEPT !.skipData = FALSE, !.canDecode = FALSE, !.state = "TPHSOT"]
      /\ UNCHANGED <<request, pos, marker, tcp, decoded>>
  BY DEF SkipTilePart
<1>2. /\ dec'.cur = dec.cur /\ ~dec'.canDecode /\ dec'.state = "TPHSOT"
      /\ dec'.lastTilePart = dec.lastTilePart /\ dec'.checked = dec.checked
  BY <1>1 DEF TilesInv, TypeOK
<1>3. PICK i \in 1 .. NumParts + 1 : Reading(i)
  BY <1>1 DEF WholeRun, Emptying
<1>4. InPart(i) /\ Skipped(i) /\ HasUpTo(i)
  BY <1>1, <1>3 DEF Reading, AtSOT, Behind, InPart, InHeader
<1>5. i \in 1 .. NumParts /\ IsInput(file) /\ TypeOK
  BY <1>4, Types, Layout DEF InPart, TilesInv
<1>6. dec.cur = file.parts[i].tile /\ ~Wanted(dec.cur) /\ ~dec.lastTilePart
  <2>1. dec.cur = file.parts[i].tile /\ dec.lastTilePart = file.parts[i].psot0 /\ ~Wanted(dec.cur)
    BY <1>4 DEF InPart, Skipped
  <2>2. file.parts[i].psot0 => Wanted(file.parts[i].tile)
    BY <1>5, WholeLayout
  <2> QED
    BY <2>1, <2>2
<1>7. i + 1 \in 1 .. NumParts + 1 /\ pos = StartOf[i + 1]
  <2>1. i + 1 \in 1 .. NumParts + 1 /\ StartOf[i + 1] = DataEnd(i)
    BY <1>5, WholeLayout
  <2>2. pos = DataEnd(i)
    BY <1>4, <1>6 DEF Skipped
  <2> QED
    BY <2>1, <2>2
<1>8. HasUpTo(i + 1)
  <2> SUFFICES ASSUME NEW u \in Tiles, Wanted(u), ~IsDecoded(u)
               PROVE  tcp[u].data = DataUpTo(u, i + 1)
    BY DEF HasUpTo
  <2>1. file.parts[i].tile # u
    BY <1>6
  <2>2. DataUpTo(u, i + 1) = DataUpTo(u, i)
    BY <1>5, <2>1, DataUpToNext
  <2> QED
    BY <1>4, <2>2 DEF HasUpTo
<1>9. /\ \E t \in Tiles' : Wanted(t)'
      /\ DecodedWhole' /\ DataShown'
      /\ \A j : HasUpTo(j) => HasUpTo(j)'
      /\ NumParts' = NumParts /\ StartOf' = StartOf /\ Tiles' = Tiles
  BY <1>1, KeepsRun
<1>10. NumberKnown' /\ \A t \in Tiles : Complete(t)' <=> Complete(t)
  BY <1>1, KeepsNumbers DEF WholeRun
<1>11. NoneComplete'
  <2>1. ASSUME ~dec.checked, NEW t \in Tiles, Complete(t) PROVE FALSE
    <3>1. t = dec.cur
      BY <2>1 DEF WholeRun, NoneComplete
    <3> QED
      BY <1>6, <2>1, <3>1 DEF Complete
  <2> QED
    BY <1>2, <1>9, <1>10, <2>1 DEF NoneComplete
<1>12. Behind(i + 1)'
  BY <1>1, <1>2, <1>6, <1>7, <1>9 DEF Behind
<1>13. Reading(i + 1)'
  BY <1>8, <1>9, <1>12 DEF Reading
<1>14. ChosenLeft'
  BY <1>1 DEF ChosenLeft
<1> QED
  BY <1>1, <1>7, <1>9, <1>10, <1>11, <1>13, <1>14 DEF WholeRun

LEMMA ReadSODWhole ==
    ASSUME TilesInv, WholeFile, WholeRun, ReadSOD
    PROVE  WholeRun'
<1>1. pc = "scan" /\ marker = "SOD" /\ ~dec.skipData
  BY DEF ReadSOD
<1>2. PICK i \in 1 .. NumParts + 1 : Reading(i)
  BY <1>1 DEF WholeRun, Emptying
<1>3. InPart(i) /\ InHeader(i) /\ HasUpTo(i)
  BY <1>1, <1>2 DEF Reading, AtSOT, Behind, InPart, Skipped
<1>4. i \in 1 .. NumParts /\ IsInput(file) /\ TypeOK
  BY <1>3, Types, Layout DEF InPart, TilesInv
<1>5. /\ i + 1 \in 1 .. NumParts + 1 /\ StartOf[i + 1] = DataEnd(i)
      /\ DataEnd(i) + 2 <= file.limit /\ DataEnd(i) \in Nat /\ DataAt(i) \in Nat
      /\ file.parts[i].len \in Nat /\ DataEnd(i) = DataAt(i) + file.parts[i].len
      /\ file.limit = StartOf[NumParts + 1] + 2 /\ file.limit \in Nat
  <2>1. /\ i + 1 \in 1 .. NumParts + 1 /\ DataEnd(i) + 2 <= file.limit
        /\ file.limit = StartOf[NumParts + 1] + 2 /\ file.limit \in Nat
    BY <1>4, WholeLayout
  <2> QED
    BY <1>4, <2>1, Layout
<1>6. PICK t \in Tiles : t = dec.cur
  BY <1>1 DEF TilesInv, FlagInv
<1>7. /\ pos = DataAt(i) /\ Wanted(t) /\ t = file.parts[i].tile
      /\ dec.lastTilePart = file.parts[i].psot0
      /\ dec.sotLength = IF dec.lastTilePart THEN 0 ELSE DataEnd(i) + 2 - pos
  BY <1>1, <1>3, <1>6 DEF InPart, InHeader
<1>8. PICK len \in Nat : len = file.parts[i].len
  BY <1>5
<1>9. dec.lastTilePart => i = NumParts
  BY <1>4, <1>7, OpenEndLast
\* All the data of the tile-part is there.
<1>10. /\ len = IF dec.lastTilePart THEN Left - 2
                ELSE IF dec.sotLength >= 2 THEN dec.sotLength - 2 ELSE dec.sotLength
       /\ len <= Left
  <2>1. Left = file.limit - pos /\ dec.lastTilePart \in BOOLEAN
    BY <1>4, Types
  <2>2. CASE dec.lastTilePart
    <3>1. Left = len + 2
      BY <1>5, <1>7, <1>8, <1>9, <2>1, <2>2
    <3> QED
      BY <2>2, <3>1
  <2>3. CASE ~dec.lastTilePart
    <3>1. dec.sotLength = len + 2
      BY <1>5, <1>7, <1>8, <2>3
    <3>2. len <= Left
      BY <1>5, <1>7, <1>8, <2>1
    <3> QED
      BY <2>3, <3>1, <3>2
  <2> QED
    BY <2>1, <2>2, <2>3
<1>12. /\ tcp' = [tcp EXCEPT ![t].hasData = @ \/ len # 0,
                             ![t].data = IF len = 0 THEN @ ELSE Append(@, <<pos, pos + len>>)]
       /\ dec' = [dec EXCEPT !.sotLength = len, !.state = "TPHSOT"]
       /\ pos' = pos + len
       /\ pc' = IF dec.canDecode /\ ~dec.checked THEN "correct" ELSE "next"
       /\ UNCHANGED <<request, marker, decoded>>
  <2> DEFINE s == IF dec.lastTilePart THEN Left - 2
                  ELSE IF dec.sotLength >= 2 THEN dec.sotLength - 2 ELSE dec.sotLength
  <2>1. IF s < 0 \/ (s > Left /\ strict) THEN Fail ELSE pc' \in {"correct", "next"}
    BY DEF ReadSOD
  <2>2. s = len /\ Left \in Nat
    BY <1>4, <1>10, Types
  <2> HIDE DEF s
  <2>3. ~Fail
    BY <1>10, <2>1, <2>2 DEF Fail
  <2>4. PICK sot \in Nat, read \in Nat : SODRead(sot, read)
    BY <2>3, ReadSODEffect
  <2>5. sot = s
    BY <2>4 DEF SODRead, s
  <2>6. sot = len /\ read = len
    BY <1>10, <2>2, <2>4, <2>5 DEF SODRead
  <2> QED
    BY <1>6, <2>4, <2>6 DEF SODRead
<1>13. /\ dec'.cur = dec.cur /\ dec'.lastTilePart = dec.lastTilePart /\ dec'.state = "TPHSOT"
       /\ dec'.canDecode = dec.canDecode /\ dec'.checked = dec.checked
  BY <1>12 DEF TilesInv, TypeOK
<1>14. PICK has \in BOOLEAN, d \in Seq(Nat \X Nat) :
          /\ has = (tcp[t].hasData \/ len # 0)
          /\ d = IF len = 0 THEN tcp[t].data ELSE Append(tcp[t].data, <<pos, pos + len>>)
  <2>1. tcp[t].data \in Seq(Nat \X Nat) /\ pos \in Nat
    BY <1>4, Types
  <2>2. Append(tcp[t].data, <<pos, pos + len>>) \in Seq(Nat \X Nat)
    BY <2>1
  <2> QED
    BY <2>1, <2>2
<1>15. /\ tcp'[t].hasData = has /\ tcp'[t].data = d
       /\ tcp'[t].part = tcp[t].part /\ tcp'[t].nb = tcp[t].nb
       /\ \A u \in Tiles : u # t => tcp'[u] = tcp[u]
  <2>1. tcp[t] \in [part : Nat \union {-1}, nb : Nat, hasData : BOOLEAN, data : Seq(Nat \X Nat)]
    BY DEF TilesInv, TypeOK
  <2>2. tcp' = [tcp EXCEPT ![t] = [@ EXCEPT !.hasData = has, !.data = d]]
    BY <1>12, <1>14, <2>1 DEF TilesInv, TypeOK
  <2>3. /\ tcp'[t] = [tcp[t] EXCEPT !.hasData = has, !.data = d]
        /\ \A u \in Tiles : u # t => tcp'[u] = tcp[u]
    BY <2>2 DEF TilesInv, TypeOK
  <2> QED
    BY <2>1, <2>3
<1>16. /\ NumParts' = NumParts /\ StartOf' = StartOf /\ Tiles' = Tiles
       /\ \A u : (Wanted(u)' <=> Wanted(u)) /\ DataOf(u)' = DataOf(u)
       /\ \A u, j : DataUpTo(u, j)' = DataUpTo(u, j)
       /\ \A u : IsDecoded(u)' <=> IsDecoded(u)
  BY <1>12, SameRequest, SameDecoded
<1>17. NumberKnown' /\ \A u \in Tiles : Complete(u)' <=> Complete(u)
  <2>1. \A u \in Tiles : tcp'[u].part = tcp[u].part /\ tcp'[u].nb = tcp[u].nb
    BY <1>15
  <2> QED
    BY <1>12, <2>1, KeepsNumbers DEF WholeRun
<1>18. NoneComplete'
  BY <1>12, <1>13, <1>16, <1>17 DEF WholeRun, NoneComplete
<1>19. DataShown'
  <2>1. has <=> d # <<>>
    <3>1. CASE len = 0
      BY <1>14, <3>1 DEF WholeRun, DataShown
    <3>2. CASE len # 0
      <4>1. tcp[t].data \in Seq(Nat \X Nat)
        BY <1>4, Types
      <4>2. d = Append(tcp[t].data, <<pos, pos + len>>)
        BY <1>14, <3>2
      <4>3. Len(d) = Len(tcp[t].data) + 1 /\ Len(tcp[t].data) \in Nat
        BY <4>1, <4>2
      <4>4. d # <<>>
        BY <4>3
      <4> QED
        BY <1>14, <3>2, <4>4
    <3> QED
      BY <3>1, <3>2
  <2>2. \A u \in Tiles : /\ tcp'[u].hasData <=> tcp'[u].data # <<>>
                         /\ tcp'[u].hasData => Wanted(u)
    <3> TAKE u \in Tiles
    <3>1. CASE u = t
      BY <1>7, <1>15, <2>1, <3>1
    <3>2. CASE u # t
      BY <1>15, <3>2 DEF WholeRun, DataShown
    <3> QED
      BY <3>1, <3>2
  <2> QED
    BY <1>16, <2>2 DEF DataShown
<1>20. HasUpTo(i + 1)'
  <2>1. \A u \in Tiles : Wanted(u) /\ ~IsDecoded(u) => tcp'[u].data = DataUpTo(u, i + 1)
    <3> TAKE u \in Tiles
    <3> HAVE Wanted(u) /\ ~IsDecoded(u)
    <3>1. tcp[u].data = DataUpTo(u, i)
      BY <1>3 DEF HasUpTo
    <3>2. DataUpTo(u, i + 1) = IF t = u /\ len # 0
                                 THEN Append(DataUpTo(u, i), <<DataAt(i), DataEnd(i)>>)
                                 ELSE DataUpTo(u, i)
      BY <1>4, <1>7, <1>8, DataUpToNext
    <3>3. pos + len = DataEnd(i) /\ pos = DataAt(i)
      BY <1>5, <1>7, <1>8
    <3>4. CASE u = t
      BY <1>14, <1>15, <3>1, <3>2, <3>3, <3>4
    <3>5. CASE u # t
      BY <1>15, <3>1, <3>2, <3>5
    <3> QED
      BY <3>4, <3>5
  <2> QED
    BY <1>16, <2>1 DEF HasUpTo
<1>21. Behind(i + 1)'
  <2>1. pos' = StartOf[i + 1]
    BY <1>5, <1>7, <1>8, <1>12
  <2>2. dec'.lastTilePart => i + 1 = NumParts + 1
    BY <1>9, <1>13
  <2> QED
    BY <1>1, <1>12, <1>13, <1>16, <2>1, <2>2 DEF Behind
<1>22. Reading(i + 1)'
  BY <1>20, <1>21 DEF Reading
<1>23. ChosenLeft' /\ DecodedWhole'
  BY <1>12, <1>16 DEF ChosenLeft, WholeRun, DecodedWhole
<1> QED
  BY <1>5, <1>12, <1>16, <1>17, <1>18, <1>19, <1>22, <1>23 DEF WholeRun

LEMMA CheckCorrectionWhole ==
    ASSUME TilesInv, WholeFile, WholeRun, CheckCorrection
    PROVE  WholeRun'
<1>1. pc = "correct"
  BY DEF CheckCorrection
<1>2. PICK i \in 1 .. NumParts + 1 : Reading(i)
  BY <1>1 DEF WholeRun, Emptying
<1>3. Behind(i) /\ HasUpTo(i)
  BY <1>1, <1>2 DEF Reading, AtSOT, InPart
<1>4. IsInput(file) /\ TypeOK
  BY Types DEF TilesInv
\* Every SOT segment of a whole file is there.
<1>5. ~LookAheadFails
  <2>1. ASSUME NEW j \in Reached, file.limit < StartOf[j] + 12 PROVE FALSE
    <3>1. j \in 1 .. NumParts
      BY DEF Reached, Ahead
    <3>2. /\ StartOf[j] + 14 <= DataAt(j) /\ DataAt(j) <= DataEnd(j)
          /\ DataEnd(j) + 2 <= file.limit
      BY <1>4, <3>1, WholeLayout
    <3>3. StartOf[j] \in Nat /\ DataAt(j) \in Nat /\ DataEnd(j) \in Nat /\ file.limit \in Nat
      <4>1. /\ StartOf[j] \in Nat /\ file.parts[j].len \in Nat /\ file.parts[j].hdr \in {0, 1}
            /\ DataAt(j) = StartOf[j] + 14 + 4 * file.parts[j].hdr
            /\ DataEnd(j) = DataAt(j) + file.parts[j].len
        BY <1>4, <3>1, Layout
      <4>2. file.limit \in Nat
        BY <1>4, Types
      <4>3. DataAt(j) \in Nat
        BY <4>1
      <4> QED
        BY <4>1, <4>2, <4>3
    <3> QED
      BY <2>1, <3>2, <3>3
  <2> QED
    BY <2>1 DEF LookAheadFails
<1>6. PICK nc \in BOOLEAN : nc = NeedsCorrection
  BY DEF NeedsCorrection
<1>7. /\ dec' = [dec EXCEPT !.checked = TRUE, !.canDecode = ~nc,
                            !.correction = IF nc THEN 1 ELSE @]
      /\ tcp' = IF ~nc THEN tcp
                ELSE [t \in Tiles |-> [tcp[t] EXCEPT !.nb = IF @ = 0 THEN 0 ELSE @ + 1]]
      /\ pc' = "next"
      /\ UNCHANGED <<request, pos, marker, decoded>>
  BY <1>5, <1>6 DEF CheckCorrection
<1>8. /\ dec'.checked = TRUE /\ dec'.state = dec.state
      /\ dec'.lastTilePart = dec.lastTilePart
  BY <1>7 DEF TilesInv, TypeOK
<1>9. \A t \in Tiles : /\ tcp'[t].hasData = tcp[t].hasData /\ tcp'[t].data = tcp[t].data
                       /\ tcp'[t].part = tcp[t].part /\ (tcp'[t].nb = 0 <=> tcp[t].nb = 0)
  <2> TAKE t \in Tiles
  <2>1. tcp[t] \in [part : Nat \union {-1}, nb : Nat, hasData : BOOLEAN, data : Seq(Nat \X Nat)]
    BY DEF TilesInv, TypeOK
  <2>2. CASE ~nc
    BY <1>7, <2>2
  <2>3. CASE nc
    <3>1. PICK n \in Nat : n = IF tcp[t].nb = 0 THEN 0 ELSE tcp[t].nb + 1
      BY <2>1
    <3>2. tcp'[t] = [tcp[t] EXCEPT !.nb = n]
      BY <1>7, <2>3, <3>1
    <3>3. /\ tcp'[t].hasData = tcp[t].hasData /\ tcp'[t].data = tcp[t].data
          /\ tcp'[t].part = tcp[t].part /\ tcp'[t].nb = n
      BY <2>1, <3>2
    <3>4. tcp[t].nb \in Nat
      BY <2>1
    <3> QED
      BY <3>1, <3>3, <3>4
  <2> QED
    BY <2>2, <2>3
<1>10. /\ \E t \in Tiles' : Wanted(t)'
       /\ DecodedWhole' /\ DataShown'
       /\ \A j : HasUpTo(j) => HasUpTo(j)'
       /\ NumParts' = NumParts /\ StartOf' = StartOf /\ Tiles' = Tiles
  BY <1>7, <1>9, KeepsRun
<1>11. NumberKnown'
  BY <1>7, <1>9, <1>10, SameCounts DEF WholeRun, NumberKnown
<1>12. NoneComplete'
  BY <1>8 DEF NoneComplete
<1>13. Reading(i)'
  <2>1. Behind(i)'
    BY <1>1, <1>3, <1>7, <1>8, <1>10 DEF Behind
  <2> QED
    BY <1>3, <1>10, <2>1 DEF Reading
<1>14. ChosenLeft'
  BY <1>7 DEF ChosenLeft
<1> QED
  BY <1>7, <1>10, <1>11, <1>12, <1>13, <1>14 DEF WholeRun

LEMMA NextTilePartWhole ==
    ASSUME TilesInv, WholeFile, WholeRun, NextTilePart
    PROVE  WholeRun'
<1>1. pc = "next" /\ IsInput(file) /\ TypeOK
  BY Types DEF NextTilePart, TilesInv
<1>2. PICK i \in 1 .. NumParts + 1 : Reading(i)
  BY <1>1 DEF WholeRun, Emptying
<1>3. Behind(i) /\ HasUpTo(i)
  BY <1>1, <1>2 DEF Reading, AtSOT, InPart
<1>4. /\ pos = StartOf[i] /\ dec.state = "TPHSOT" /\ marker = "SOD"
      /\ dec.lastTilePart => i = NumParts + 1
  BY <1>1, <1>3 DEF Behind
\* The tile is chosen, or the marker behind the tile-part is read.
<1>5. CASE dec.canDecode
  <2>1. pc' = "found" /\ UNCHANGED <<request, pos, marker, dec, tcp, decoded>>
    BY <1>5 DEF NextTilePart
  <2>2. /\ \E t \in Tiles' : Wanted(t)'
        /\ DecodedWhole' /\ DataShown'
        /\ \A j : HasUpTo(j) => HasUpTo(j)'
        /\ NumParts' = NumParts /\ StartOf' = StartOf /\ Tiles' = Tiles
    BY <2>1, KeepsRun
  <2>3. NoneComplete' /\ NumberKnown'
    BY <1>1, <2>1, NoneStays DEF WholeRun
  <2>4. Wanted(dec.cur) /\ ~IsDecoded(dec.cur)
    BY <1>1, <1>4, <1>5 DEF TilesInv, FlagInv, OnceInv, Ended, Complete
  <2>5. ChosenLeft'
    BY <2>1, <2>4, SameRequest, SameDecoded DEF ChosenLeft
  <2>6. Behind(i)'
    BY <1>4, <1>5, <2>1, <2>2 DEF Behind
  <2>7. Reading(i)'
    BY <1>3, <2>2, <2>6 DEF Reading
  <2> QED
    BY <2>1, <2>2, <2>3, <2>5, <2>7 DEF WholeRun
<1>6. CASE ~dec.canDecode
  <2>1. Left >= 2 /\ ~(Left < 2)
    <3>1. StartOf[i] \in Nat /\ StartOf[i] + 2 <= file.limit /\ file.limit \in Nat
      BY <1>1, WholeLayout
    <3>2. Left = file.limit - pos
      BY <1>1, Types
    <3> QED
      BY <1>4, <3>1, <3>2
  <2>2. /\ marker' = MarkerAt(pos) /\ pos' = pos + 2
        /\ pc' = IF marker' = "EOC" THEN "found" ELSE "scan"
        /\ UNCHANGED <<request, dec, tcp, decoded>>
    BY <1>6, <2>1 DEF NextTilePart, LoopTop
  <2>3. pc' \in {"found", "scan"}
    BY <2>2
  <2>4. /\ \E t \in Tiles' : Wanted(t)'
        /\ DecodedWhole' /\ DataShown'
        /\ \A j : HasUpTo(j) => HasUpTo(j)'
        /\ NumParts' = NumParts /\ StartOf' = StartOf /\ Tiles' = Tiles
    BY <2>2, <2>3, KeepsRun
  <2>5. NoneComplete' /\ NumberKnown'
    BY <1>1, <2>2, NoneStays DEF WholeRun
  <2>6. ChosenLeft'
    BY <1>6, <2>2, <2>3 DEF ChosenLeft
  <2>7. CASE i \in 1 .. NumParts
    <3>1. marker' = "SOT" /\ i <= NumParts
      BY <1>1, <1>4, <2>2, <2>7, MarkerFacts, Layout
    <3>2. ~dec.lastTilePart
      <4>1. NumParts \in Nat
        BY <1>1, Layout
      <4> QED
        BY <1>4, <2>7, <4>1
    <3>3. AtSOT(i)'
      BY <1>4, <1>6, <2>2, <2>4, <3>1, <3>2 DEF AtSOT
    <3>4. Reading(i)'
      BY <1>3, <2>4, <3>3 DEF Reading
    <3> QED
      BY <2>3, <2>4, <2>5, <2>6, <3>4 DEF WholeRun
  <2>8. CASE i = NumParts + 1
    <3>1. file.eoc
      BY <1>1, WholeLayout
    <3>2. marker' = "EOC"
      BY <1>1, <1>4, <2>2, <2>8, <3>1, MarkerFacts
    <3>3. Emptying'
      BY <1>3, <1>4, <1>6, <2>2, <2>4, <2>8, <3>2 DEF Emptying
    <3> QED
      BY <2>3, <2>4, <2>5, <2>6, <3>3 DEF WholeRun
  <2>9. NumParts \in Nat
    BY <1>1, Layout
  <2> QED
    BY <2>7, <2>8, <2>9
<1> QED
  BY <1>5, <1>6

\* A requested tile that is left has all its data behind the last tile-part.
LEMMA LeftHasData ==
    ASSUME TypeOK, WholeFile, DataShown, HasUpTo(NumParts + 1),
           NEW t \in Tiles, Wanted(t), ~IsDecoded(t)
    PROVE  tcp[t].hasData /\ tcp[t].data = DataOf(t)
<1>1. IsInput(file)
  BY Types
<1>2. NumParts + 1 \in 1 .. NumParts + 1 /\ \A k \in 1 .. NumParts : k < NumParts + 1
  BY <1>1, Layout
<1>3. tcp[t].data = DataUpTo(t, NumParts + 1)
  BY DEF HasUpTo
<1>4. DataUpTo(t, NumParts + 1) = DataOf(t)
  BY <1>1, <1>2, DataUpToAll
<1>5. DataOf(t) # <<>>
  BY DEF WholeFile, HasData
<1> QED
  BY <1>3, <1>4, <1>5 DEF DataShown

LEMMA SelectTileWhole ==
    ASSUME TilesInv, WholeFile, WholeRun, SelectTile
    PROVE  WholeRun'
<1>1. pc = "found" /\ TypeOK /\ UNCHANGED <<request, pos, marker, tcp, decoded>>
  BY DEF SelectTile, TilesInv
<1>2. pc' \in {"decode", "finish"}
  BY DEF SelectTile, Selected
<1>3. /\ \E t \in Tiles' : Wanted(t)'
      /\ DecodedWhole' /\ DataShown'
      /\ \A j : HasUpTo(j) => HasUpTo(j)'
      /\ NumParts' = NumParts /\ StartOf' = StartOf /\ Tiles' = Tiles
      /\ AllDecoded => AllDecoded'
  BY <1>1, <1>2, KeepsRun
<1>4. NoneComplete' /\ NumberKnown'
  <2>1. dec'.checked = dec.checked
    BY DEF SelectTile, TilesInv, TypeOK
  <2> QED
    BY <1>1, <2>1, NoneStays DEF WholeRun
\* A complete tile is decoded at once.
<1>5. ASSUME NEW i \in 1 .. NumParts + 1, Reading(i) PROVE WholeRun'
  <2>1. Behind(i) /\ HasUpTo(i)
    BY <1>1, <1>5 DEF Reading, AtSOT, InPart
  <2>2. dec.canDecode /\ marker = "SOD" /\ dec.state = "TPHSOT"
    BY <1>1, <2>1 DEF Behind
  <2>3. pc' = "decode" /\ dec' = [dec EXCEPT !.state = dec.state, !.cur = dec.cur]
    BY <2>2 DEF SelectTile
  <2>4. /\ dec'.state = dec.state /\ dec'.cur = dec.cur
        /\ dec'.lastTilePart = dec.lastTilePart
    BY <2>3 DEF TilesInv, TypeOK
  <2>5. ChosenLeft'
    <3>1. Wanted(dec.cur) /\ ~IsDecoded(dec.cur)
      BY <1>1, <2>2 DEF WholeRun, ChosenLeft
    <3> QED
      BY <1>1, <2>4, <3>1, SameRequest, SameDecoded DEF ChosenLeft
  <2>6. Behind(i)'
    BY <1>1, <1>3, <2>1, <2>3, <2>4 DEF Behind
  <2>7. Reading(i)'
    BY <1>3, <2>1, <2>6 DEF Reading
  <2> QED
    BY <1>2, <1>3, <1>4, <2>5, <2>7 DEF WholeRun
\* Behind EOC, the first tile that has data is.
<1>6. ASSUME Emptying PROVE WholeRun'
  <2>1. PICK from \in Tiles : from = IF marker = "EOC" /\ dec.state # "EOC" THEN 0 ELSE dec.cur
    <3>1. dec.cur \in Tiles /\ 0 \in Tiles
      BY <1>1, Types DEF TilesInv, FlagInv
    <3> QED
      BY <3>1
  <2> DEFINE withData == {t \in Tiles : t >= from /\ tcp[t].hasData}
  <2>2. HasUpTo(NumParts + 1) /\ ~dec.canDecode
    BY <1>6 DEF Emptying
  <2>3. /\ dec' = [dec EXCEPT !.state = "EOC",
                              !.cur = IF withData = {} THEN NumTiles ELSE Least(withData)]
        /\ pc' = IF withData = {} THEN "finish" ELSE "decode"
    <3>1. dec.state = "EOC" \/ marker = "EOC"
      BY <1>1, <1>6 DEF Emptying
    <3> QED
      BY <2>1, <2>2, <3>1 DEF SelectTile, Selected
  <2>4. \A t \in Tiles : tcp[t].hasData <=> t \in withData
    <3>1. ASSUME NEW t \in Tiles, tcp[t].hasData PROVE t >= from
      <4>1. CASE marker = "EOC" /\ dec.state # "EOC"
        BY <2>1, <4>1 DEF Tiles
      <4>2. CASE ~(marker = "EOC" /\ dec.state # "EOC")
        <5>1. dec.cur <= t /\ from = dec.cur
          BY <1>1, <1>6, <2>1, <3>1, <4>2 DEF Emptying
        <5>2. dec.cur \in Nat /\ t \in Nat
          BY <2>1, <5>1 DEF Tiles
        <5> QED
          BY <5>1, <5>2
      <4> QED
        BY <4>1, <4>2
    <3> QED
      BY <3>1
  <2>5. withData \subseteq Tiles
    OBVIOUS
  <2> HIDE DEF withData
  <2>6. CASE withData = {}
    <3>1. AllDecoded
      <4>1. DataShown
        BY DEF WholeRun
      <4> QED
        BY <1>1, <2>2, <2>4, <2>6, <4>1, LeftHasData DEF AllDecoded
    <3>2. pc' = "finish"
      BY <2>3, <2>6
    <3>3. ChosenLeft'
      BY <3>2 DEF ChosenLeft
    <3> QED
      BY <1>3, <1>4, <3>1, <3>2, <3>3 DEF WholeRun
  <2>7. CASE withData # {}
    <3>1. PICK c \in Tiles : c = Least(withData) /\ c \in withData /\ \A t \in withData : c <= t
      BY <2>5, <2>7, LeastIn
    <3>2. dec' = [dec EXCEPT !.state = "EOC", !.cur = c] /\ pc' = "decode"
      BY <2>3, <2>7, <3>1
    <3>3. dec'.state = "EOC" /\ dec'.cur = c /\ dec'.canDecode = dec.canDecode
      BY <3>2 DEF TilesInv, TypeOK
    <3>4. tcp[c].hasData /\ Wanted(c) /\ ~IsDecoded(c)
      BY <2>4, <3>1 DEF WholeRun, DataShown, TilesInv, OnceInv
    <3>5. ChosenLeft'
      BY <1>1, <3>3, <3>4, SameRequest, SameDecoded DEF ChosenLeft
    <3>6. Emptying'
      BY <1>1, <1>3, <2>2, <2>4, <3>1, <3>2, <3>3 DEF Emptying
    <3> QED
      BY <1>2, <1>3, <1>4, <3>5, <3>6, <3>2 DEF WholeRun
  <2> QED
    BY <2>6, <2>7
<1> QED
  BY <1>1, <1>5, <1>6 DEF WholeRun

\* decodeTile has all the data of its tile.
LEMMA TileIsWhole ==
    ASSUME TilesInv, CountInv, WholeFile, WholeRun, pc = "decode"
    PROVE  /\ dec.cur \in Tiles /\ tcp[dec.cur].hasData
           /\ tcp[dec.cur].data = DataOf(dec.cur)
<1>1. PICK t \in Tiles : t = dec.cur
  BY DEF TilesInv, FlagInv
<1>2. IsInput(file) /\ pos \in Nat /\ TypeOK /\ DataShown
  BY Types DEF TilesInv, WholeRun
<1>3. Wanted(t) /\ ~IsDecoded(t)
  BY <1>1 DEF WholeRun, ChosenLeft
<1>4. CASE Emptying
  <2>1. HasUpTo(NumParts + 1)
    BY <1>4 DEF Emptying
  <2> QED
    BY <1>1, <1>2, <1>3, <2>1, LeftHasData
<1>5. ASSUME NEW i \in 1 .. NumParts + 1, Reading(i)
      PROVE  tcp[t].hasData /\ tcp[t].data = DataOf(t)
  <2>1. pos = StartOf[i] /\ HasUpTo(i)
    BY <1>5 DEF Reading, AtSOT, InPart, Behind
  <2>2. ASSUME NEW k \in 1 .. NumParts, file.parts[k].tile = t
        PROVE  k < i
    <3>1. CountedWell
      BY <1>2, WholeLayout
    <3>2. StartOf[k] < pos \/ file.limit < StartOf[k] + 12
      BY <1>1, <2>2, <3>1, NoneLeft
    <3>3. /\ StartOf[k] + 14 <= DataAt(k) /\ DataAt(k) <= DataEnd(k)
          /\ DataEnd(k) + 2 <= file.limit /\ file.limit \in Nat
          /\ k \in 1 .. NumParts + 1 /\ StartOf[k] \in Nat
      BY <1>2, WholeLayout
    <3>4. DataAt(k) \in Nat /\ DataEnd(k) \in Nat
      <4>1. /\ file.parts[k].len \in Nat /\ file.parts[k].hdr \in {0, 1}
            /\ DataAt(k) = StartOf[k] + 14 + 4 * file.parts[k].hdr
            /\ DataEnd(k) = DataAt(k) + file.parts[k].len
        BY <1>2, Layout
      <4>2. DataAt(k) \in Nat
        BY <3>3, <4>1
      <4> QED
        BY <4>1, <4>2
    <3>5. StartOf[k] < StartOf[i]
      BY <2>1, <3>2, <3>3, <3>4
    <3> QED
      BY <1>2, <3>3, <3>5, WholeLayout
  <2>3. DataUpTo(t, i) = DataOf(t)
    BY <1>2, <2>2, DataUpToAll
  <2>4. tcp[t].data = DataOf(t)
    BY <1>3, <2>1, <2>3 DEF HasUpTo
  <2>5. DataOf(t) # <<>>
    BY DEF WholeFile, HasData
  <2> QED
    BY <1>2, <2>4, <2>5 DEF DataShown
<1> QED
  BY <1>1, <1>4, <1>5 DEF WholeRun

LEMMA DecodeTileWhole ==
    ASSUME TilesInv, CountInv, WholeFile, WholeRun, DecodeTile
    PROVE  WholeRun'
<1>1. pc = "decode" /\ TypeOK
  BY DEF DecodeTile, TilesInv
<1>2. PICK t \in Tiles : t = dec.cur /\ tcp[t].hasData /\ tcp[t].data = DataOf(t)
  BY <1>1, TileIsWhole
<1>3. Wanted(t) /\ ~IsDecoded(t)
  BY <1>1, <1>2 DEF WholeRun, ChosenLeft
<1> DEFINE new == [tile |-> t, data |-> tcp[t].data, at |-> pos]
           N == Len(decoded)
<1>4. /\ pc' = "after"
      /\ decoded' = Append(decoded, new)
      /\ tcp' = [tcp EXCEPT ![t].hasData = FALSE, ![t].data = <<>>]
      /\ dec' = [dec EXCEPT !.canDecode = FALSE]
      /\ UNCHANGED <<request, pos, marker>>
  BY <1>2 DEF DecodeTile, DropData
<1>5. /\ dec'.state = dec.state /\ dec'.cur = dec.cur /\ dec'.canDecode = FALSE
      /\ dec'.lastTilePart = dec.lastTilePart /\ dec'.checked = dec.checked
  BY <1>4 DEF TilesInv, TypeOK
<1>6. new.tile = t /\ new.data = DataOf(t)
  BY <1>2
<1>7. /\ Len(decoded') = N + 1 /\ N \in Nat
      /\ decoded'[N + 1] = new
      /\ \A k \in 1 .. N : decoded'[k] = decoded[k]
  <2>1. decoded \in Seq([tile : Tiles, data : Seq(Nat \X Nat), at : Nat])
    BY DEF TilesInv, TypeOK
  <2> HIDE DEF new
  <2> QED
    BY <1>4, <2>1
<1> HIDE DEF new, N
<1>8. /\ tcp'[t].hasData = FALSE /\ tcp'[t].data = <<>>
      /\ tcp'[t].part = tcp[t].part /\ tcp'[t].nb = tcp[t].nb
      /\ \A u \in Tiles : u # t => tcp'[u] = tcp[u]
  <2>1. tcp[t] \in [part : Nat \union {-1}, nb : Nat, hasData : BOOLEAN, data : Seq(Nat \X Nat)]
    BY DEF TilesInv, TypeOK
  <2>2. tcp'[t] = [tcp[t] EXCEPT !.hasData = FALSE, !.data = <<>>]
    BY <1>4 DEF TilesInv, TypeOK
  <2>3. \A u \in Tiles : u # t => tcp'[u] = tcp[u]
    BY <1>4 DEF TilesInv, TypeOK
  <2> QED
    BY <2>1, <2>2, <2>3
<1>9. /\ NumParts' = NumParts /\ StartOf' = StartOf /\ Tiles' = Tiles
      /\ \A u : (Wanted(u)' <=> Wanted(u)) /\ DataOf(u)' = DataOf(u)
  BY <1>4, SameRequest
<1>10. IsDecoded(t)' /\ \A u \in Tiles : IsDecoded(u) => IsDecoded(u)'
  <2>1. N + 1 \in 1 .. Len(decoded') /\ 1 .. N \subseteq 1 .. Len(decoded')
    BY <1>7
  <2>2. IsDecoded(t)'
    BY <1>6, <1>7, <2>1 DEF IsDecoded
  <2>3. \A u \in Tiles : IsDecoded(u) => IsDecoded(u)'
    BY <1>7, <2>1 DEF IsDecoded, N
  <2> QED
    BY <2>2, <2>3
<1>11. \A j : HasUpTo(j) => HasUpTo(j)'
  <2>1. \A u \in Tiles : Wanted(u) /\ ~IsDecoded(u)' => ~IsDecoded(u) /\ tcp'[u].data = tcp[u].data
    BY <1>8, <1>10
  <2> QED
    BY <1>4, <2>1, KeepsData
<1>12. DecodedWhole'
  <2>1. ASSUME NEW k \in 1 .. N + 1
        PROVE  Wanted(decoded'[k].tile) /\ decoded'[k].data = DataOf(decoded'[k].tile)
    <3>1. CASE k = N + 1
      BY <1>3, <1>6, <1>7, <3>1
    <3>2. CASE k # N + 1
      <4>1. k \in 1 .. N /\ decoded'[k] = decoded[k]
        BY <1>7, <3>2
      <4> QED
        BY <4>1 DEF WholeRun, DecodedWhole, N
    <3> QED
      BY <3>1, <3>2
  <2>2. Len(decoded') = N + 1 /\ N + 1 # 0
    BY <1>7
  <2> QED
    BY <1>9, <2>1, <2>2 DEF DecodedWhole
<1>13. DataShown'
  <2>1. \A u \in Tiles : /\ tcp'[u].hasData <=> tcp'[u].data # <<>>
                         /\ tcp'[u].hasData => Wanted(u)
    <3> TAKE u \in Tiles
    <3>1. CASE u = t
      BY <1>8, <3>1
    <3>2. CASE u # t
      BY <1>8, <3>2 DEF WholeRun, DataShown
    <3> QED
      BY <3>1, <3>2
  <2> QED
    BY <1>9, <2>1 DEF DataShown
<1>14. NoneComplete' /\ NumberKnown'
  <2>1. \A u \in Tiles : tcp'[u].part = tcp[u].part /\ tcp'[u].nb = tcp[u].nb
    BY <1>8
  <2> QED
    BY <1>1, <1>4, <1>5, <2>1, NoneStays DEF WholeRun
<1>15. (\E i \in 1 .. NumParts' + 1 : Reading(i)') \/ Emptying'
  <2>1. ASSUME NEW i \in 1 .. NumParts + 1, Reading(i) PROVE Reading(i)'
    <3>1. Behind(i) /\ HasUpTo(i)
      BY <1>1, <2>1 DEF Reading, AtSOT, InPart
    <3>2. Behind(i)'
      BY <1>4, <1>5, <1>9, <3>1 DEF Behind
    <3> QED
      BY <1>11, <3>1, <3>2 DEF Reading
  <2>2. ASSUME Emptying PROVE Emptying'
    <3>1. dec.state = "EOC" /\ HasUpTo(NumParts + 1)
          /\ \A u \in Tiles : tcp[u].hasData => dec.cur <= u
      BY <1>1, <2>2 DEF Emptying
    <3>2. \A u \in Tiles : tcp'[u].hasData => dec.cur <= u
      BY <1>8, <3>1
    <3> QED
      BY <1>4, <1>5, <1>9, <1>11, <3>1, <3>2 DEF Emptying
  <2> QED
    BY <1>1, <1>9, <2>1, <2>2 DEF WholeRun
<1>16. \E u \in Tiles' : Wanted(u)'
  BY <1>3, <1>9
<1>17. ChosenLeft'
  BY <1>4 DEF ChosenLeft
<1> QED
  BY <1>4, <1>12, <1>13, <1>14, <1>15, <1>16, <1>17 DEF WholeRun

\* As many tiles decoded as there are: all of them.
LEMMA EveryTile ==
    ASSUME TypeOK, NoTileTwice, Len(decoded) = NumTiles
    PROVE  \A t \in Tiles : IsDecoded(t)
<1>1. NumTiles \in Nat
  BY Types
<1> DEFINE S == 1 .. NumTiles
           f == [k \in S |-> decoded[k].tile]
<1>2. f \in [S -> Tiles]
  <2> DEFINE T == [tile : Tiles, data : Seq(Nat \X Nat), at : Nat]
  <2>1. decoded \in Seq(T)
    BY DEF TypeOK
  <2> HIDE DEF T
  <2>2. \A k \in 1 .. Len(decoded) : decoded[k] \in T
    BY <2>1
  <2>3. \A k \in S : decoded[k].tile \in Tiles
    BY <2>2 DEF T
  <2> QED
    BY <2>3
<1>3. \A j, k \in S : f[j] = f[k] => j = k
  BY DEF NoTileTwice
<1>4. f \in Injection(S, Tiles)
  <2> HIDE DEF f, S
  <2> QED
    BY <1>2, <1>3 DEF Injection, IsInjective
<1>5. IsFiniteSet(Tiles) /\ Cardinality(Tiles) = NumTiles
  <2>1. NumTiles - 1 \in Int /\ 0 \in Int
    BY <1>1
  <2>2. Cardinality(0 .. NumTiles - 1) = IF 0 > NumTiles - 1 THEN 0 ELSE (NumTiles - 1) - 0 + 1
    BY <2>1, FS_Interval
  <2>3. IsFiniteSet(0 .. NumTiles - 1)
    BY <2>1, FS_Interval
  <2>4. Cardinality(0 .. NumTiles - 1) = NumTiles
    BY <1>1, <2>2
  <2> QED
    BY <2>3, <2>4 DEF Tiles
<1>6. Cardinality(S) = NumTiles
  <2>1. 1 \in Int /\ NumTiles \in Int
    BY <1>1
  <2>2. Cardinality(S) = IF 1 > NumTiles THEN 0 ELSE NumTiles - 1 + 1
    BY <2>1, FS_Interval
  <2> QED
    BY <1>1, <2>2
<1>7. f \in Surjection(S, Tiles)
  <2> HIDE DEF f, S
  <2> QED
    BY <1>4, <1>5, <1>6, FS_Injection
<1>8. \A t \in Tiles : \E k \in S : f[k] = t
  <2> HIDE DEF f, S
  <2> QED
    BY <1>7 DEF Surjection
<1> QED
  BY <1>8 DEF IsDecoded

\* The loops end with every requested tile decoded, or go on.
LEMMA LoopsOnWhole ==
    ASSUME TilesInv, WholeFile, WholeRun, pc = "after", UNCHANGED <<request, decoded>>,
           NEW at, NEW state, LoopOn(at, state), state # "NEOC"
    PROVE  \/ pc' = "finish" /\ AllDecoded'
           \/ pc' = "enter" /\ pos' = at
<1>1. TypeOK /\ NoTileTwice /\ DecodedWhole /\ Len(decoded) \in Nat
  BY Types DEF TilesInv, WholeRun
<1>2. \A t : IsDecoded(t)' <=> IsDecoded(t)
  BY SameDecoded
<1>3. AllDecoded => AllDecoded'
  BY <1>2, SameRequest DEF AllDecoded
<1>4. CASE target = -1
  <2>1. CASE Len(decoded) = NumTiles
    <3>1. AllDecoded
      BY <1>1, <2>1, EveryTile DEF AllDecoded
    <3>2. pc' = "finish"
      BY <1>4, <2>1 DEF LoopOn
    <3> QED
      BY <1>3, <3>1, <3>2
  <2>2. CASE Len(decoded) # NumTiles
    BY <1>4, <2>2 DEF LoopOn
  <2> QED
    BY <2>1, <2>2
<1>5. CASE target # -1
  <2>1. Len(decoded) # 0 /\ Len(decoded) \in 1 .. Len(decoded)
    BY <1>1 DEF DecodedWhole
  <2>2. decoded[Len(decoded)].tile = target
    BY <1>1, <1>5, <2>1 DEF DecodedWhole, Wanted
  <2>3. AllDecoded
    BY <1>5, <2>1, <2>2 DEF AllDecoded, Wanted, IsDecoded
  <2>4. pc' = "finish"
    BY <1>5, <2>2 DEF LoopOn
  <2> QED
    BY <1>3, <2>3, <2>4
<1> QED
  BY <1>4, <1>5

LEMMA AfterTileWhole ==
    ASSUME TilesInv, WholeFile, WholeRun, AfterTile
    PROVE  WholeRun'
<1>1. pc = "after" /\ UNCHANGED <<request, marker, tcp, decoded>> /\ ~dec.canDecode
  BY DEF AfterTile, TilesInv, FlagInv
<1>2. IsInput(file) /\ TypeOK
  BY Types DEF TilesInv
<1>3. dec'.checked = dec.checked /\ dec'.canDecode = dec.canDecode
  BY DEF AfterTile, NothingBehind, CutBehind, MarkerBehind, TilesInv, TypeOK
\* What goes on behind the loops, either way.
<1>4. ASSUME pc' \in {"enter", "finish"},
             \/ \E i \in 1 .. NumParts + 1 : AtSOT(i)' /\ HasUpTo(i)
             \/ /\ HasUpTo(NumParts + 1) /\ pc' = "enter" /\ dec'.state = "EOC"
                /\ \A t \in Tiles : tcp'[t].hasData => dec'.cur <= t
             \/ pc' = "finish" /\ AllDecoded'
      PROVE  WholeRun'
  <2>1. /\ \E t \in Tiles' : Wanted(t)'
        /\ DecodedWhole' /\ DataShown'
        /\ \A j : HasUpTo(j) => HasUpTo(j)'
        /\ NumParts' = NumParts /\ StartOf' = StartOf /\ Tiles' = Tiles
    BY <1>1, <1>4, KeepsRun
  <2>2. NoneComplete' /\ NumberKnown'
    BY <1>1, <1>3, NoneStays DEF WholeRun
  <2>3. ChosenLeft'
    BY <1>4 DEF ChosenLeft
  <2>4. \/ \E i \in 1 .. NumParts' + 1 : Reading(i)'
        \/ Emptying'
        \/ pc' \in {"finish", "ok"} /\ AllDecoded'
    BY <1>1, <1>3, <1>4, <2>1 DEF Reading, Emptying
  <2> QED
    BY <1>4, <2>1, <2>2, <2>3, <2>4 DEF WholeRun
<1>5. CASE Emptying
  <2>1. dec.state = "EOC" /\ HasUpTo(NumParts + 1)
        /\ \A t \in Tiles : tcp[t].hasData => dec.cur <= t
    BY <1>1, <1>5 DEF Emptying
  <2>2. UNCHANGED dec /\ LoopOn(pos, dec.state)
    BY <2>1 DEF AfterTile, NothingBehind, CutBehind, MarkerBehind
  <2>3. \/ pc' = "finish" /\ AllDecoded'
        \/ pc' = "enter" /\ pos' = pos
    BY <1>1, <2>1, <2>2, LoopsOnWhole
  <2> QED
    BY <1>1, <1>4, <2>1, <2>2, <2>3
<1>6. ASSUME NEW i \in 1 .. NumParts + 1, Reading(i) PROVE WholeRun'
  <2>1. /\ dec.state = "TPHSOT" /\ pos = StartOf[i] /\ HasUpTo(i)
        /\ dec.lastTilePart => i = NumParts + 1
    BY <1>1, <1>6 DEF Reading, AtSOT, InPart, Behind
  <2>2. Left >= 2 /\ ~(Left < 2)
    <3>1. StartOf[i] \in Nat /\ StartOf[i] + 2 <= file.limit /\ file.limit \in Nat
      BY <1>2, WholeLayout
    <3>2. Left = file.limit - pos
      BY <1>2, Types
    <3> QED
      BY <2>1, <3>1, <3>2
  <2>3. MarkerBehind
    BY <2>1, <2>2 DEF AfterTile, NothingBehind, CutBehind
  <2>4. CASE i \in 1 .. NumParts
    <3>1. MarkerAt(pos) = "SOT"
      BY <1>2, <2>1, <2>4, MarkerFacts
    <3>2. UNCHANGED dec /\ LoopOn(pos + 2, dec.state)
      BY <2>3, <3>1 DEF MarkerBehind
    <3>3. \/ pc' = "finish" /\ AllDecoded'
          \/ pc' = "enter" /\ pos' = pos + 2
      BY <1>1, <2>1, <3>2, LoopsOnWhole
    <3>4. i <= NumParts /\ ~dec.lastTilePart
      <4>1. NumParts \in Nat
        BY <1>2, Layout
      <4> QED
        BY <2>1, <2>4, <4>1
    <3>5. pc' = "enter" => AtSOT(i)'
      BY <1>1, <2>1, <3>2, <3>3, <3>4, SameRequest DEF AtSOT
    <3> QED
      BY <1>4, <2>1, <3>3, <3>5
  <2>5. CASE i = NumParts + 1
    <3>1. file.eoc
      BY <1>2, WholeLayout
    <3>2. MarkerAt(pos) = "EOC"
      BY <1>2, <2>1, <2>5, <3>1, MarkerFacts
    <3>3. dec' = [dec EXCEPT !.cur = 0, !.state = "EOC"] /\ LoopOn(pos + 2, "EOC")
      BY <2>3, <3>2 DEF MarkerBehind
    <3>4. dec'.state = "EOC" /\ dec'.cur = 0
      BY <3>3 DEF TilesInv, TypeOK
    <3>5. \/ pc' = "finish" /\ AllDecoded'
          \/ pc' = "enter" /\ pos' = pos + 2
      BY <1>1, <3>3, LoopsOnWhole
    <3>6. \A t \in Tiles : dec'.cur <= t
      BY <3>4 DEF Tiles
    <3> QED
      BY <1>4, <2>1, <2>5, <3>4, <3>5, <3>6
  <2>6. NumParts \in Nat
    BY <1>2, Layout
  <2> QED
    BY <2>4, <2>5, <2>6
<1> QED
  BY <1>1, <1>5, <1>6 DEF WholeRun

LEMMA FinishWhole ==
    ASSUME WholeRun, Finish
    PROVE  WholeRun'
<1>1. pc = "finish" /\ UNCHANGED <<request, pos, marker, dec, tcp, decoded>>
      /\ pc' = IF decoded = <<>> THEN "error" ELSE "ok"
  BY DEF Finish
<1>2. AllDecoded
  BY <1>1 DEF WholeRun, Reading, AtSOT, InPart, Behind, Emptying
<1>3. decoded # <<>>
  <2>1. \E t \in Tiles : IsDecoded(t)
    BY <1>2 DEF WholeRun, AllDecoded
  <2> QED
    BY <2>1 DEF IsDecoded
<1>4. pc' = "ok"
  BY <1>1, <1>3
<1>5. /\ \E t \in Tiles' : Wanted(t)'
      /\ DecodedWhole' /\ DataShown' /\ AllDecoded'
  BY <1>1, <1>2, <1>4, KeepsRun
<1>6. NoneComplete' /\ NumberKnown'
  BY <1>1, NoneStays DEF WholeRun
<1>7. ChosenLeft'
  BY <1>4 DEF ChosenLeft
<1> QED
  BY <1>4, <1>5, <1>6, <1>7 DEF WholeRun

LEMMA WholeStutter ==
    ASSUME WholeRun, UNCHANGED vars
    PROVE  WholeRun'
<1>1. /\ request' = request /\ decoded' = decoded /\ tcp' = tcp /\ dec' = dec
      /\ pc' = pc /\ pos' = pos /\ marker' = marker
  BY DEF vars, request
<1>2. /\ file' = file /\ NumParts' = NumParts /\ StartOf' = StartOf /\ Tiles' = Tiles
      /\ \A i : DataAt(i)' = DataAt(i) /\ DataEnd(i)' = DataEnd(i)
      /\ \A t : (Wanted(t)' <=> Wanted(t)) /\ DataOf(t)' = DataOf(t)
      /\ \A t : IsDecoded(t)' <=> IsDecoded(t)
  BY <1>1, SameRequest, SameDecoded
<1>3. \A i : HasUpTo(i) => HasUpTo(i)'
  BY <1>1, <1>2, KeepsData
<1>4. \A i : Reading(i) => Reading(i)'
  <2> TAKE i
  <2>1. AtSOT(i) => AtSOT(i)'
    BY <1>1, <1>2 DEF AtSOT
  <2>2. InHeader(i) => InHeader(i)'
    BY <1>1, <1>2 DEF InHeader
  <2>3. Skipped(i) => Skipped(i)'
    BY <1>1, <1>2 DEF Skipped
  <2>4. InPart(i) => InPart(i)'
    BY <1>1, <1>2, <2>2, <2>3 DEF InPart
  <2>5. Behind(i) => Behind(i)'
    BY <1>1, <1>2 DEF Behind
  <2> QED
    BY <1>3, <2>1, <2>4, <2>5 DEF Reading
<1>5. Emptying => Emptying'
  BY <1>1, <1>2, <1>3 DEF Emptying
<1>6. AllDecoded => AllDecoded'
  BY <1>2 DEF AllDecoded
<1>7. NumberKnown' /\ \A t \in Tiles : Complete(t)' <=> Complete(t)
  BY <1>1, KeepsNumbers DEF WholeRun
<1>8. NoneComplete'
  BY <1>1, <1>2, <1>7 DEF WholeRun, NoneComplete
<1>9. DecodedWhole' /\ DataShown' /\ ChosenLeft'
  BY <1>1, <1>2 DEF WholeRun, DecodedWhole, DataShown, ChosenLeft
<1> QED
  BY <1>1, <1>2, <1>4, <1>5, <1>6, <1>7, <1>8, <1>9 DEF WholeRun

LEMMA WholeInit ==
    ASSUME Init
    PROVE  WholeInv
<1>1. TilesInv /\ IsInput(file)
  BY TilesInit, Types DEF TilesInv
<1>2. /\ pos = 2 /\ decoded = <<>> /\ pc = "enter" /\ dec.state = "TPHSOT" /\ ~dec.lastTilePart
      /\ \A t \in Tiles : /\ tcp[t].part = -1 /\ tcp[t].nb = 0
                          /\ tcp[t].hasData = FALSE /\ tcp[t].data = <<>>
  BY DEF Init
<1>3. 1 \in 1 .. NumParts + 1 /\ 1 <= NumParts /\ StartOf[1] = 0
  BY <1>1, Layout
<1>4. AtSOT(1)
  BY <1>2, <1>3 DEF AtSOT
<1>5. HasUpTo(1)
  BY <1>1, <1>2, DataUpToFirst DEF HasUpTo
<1>6. \E t \in Tiles : Wanted(t)
  <2>1. -1 \notin Tiles
    BY TilePartsAssumption DEF Tiles
  <2>2. \/ target \in Tiles
        \/ target = -1 /\ window \in (SUBSET Tiles) \ {{}}
    BY DEF Init
  <2>3. CASE target \in Tiles
    BY <2>1, <2>3 DEF Wanted
  <2>4. CASE target = -1 /\ window \in (SUBSET Tiles) \ {{}}
    <3>1. window \subseteq Tiles /\ window # {}
      BY <2>4
    <3>2. PICK t : t \in window
      BY <3>1
    <3> QED
      BY <2>4, <3>1, <3>2 DEF Wanted
  <2> QED
    BY <2>2, <2>3, <2>4
<1>7. DecodedWhole /\ DataShown /\ ChosenLeft /\ NoneComplete /\ NumberKnown
  <2>1. DecodedWhole
    BY <1>2 DEF DecodedWhole
  <2>2. DataShown /\ ChosenLeft /\ NumberKnown
    BY <1>2 DEF DataShown, ChosenLeft, NumberKnown
  <2>3. NoneComplete
    BY <1>2 DEF NoneComplete, Complete
  <2> QED
    BY <2>1, <2>2, <2>3
<1> QED
  BY <1>2, <1>3, <1>4, <1>5, <1>6, <1>7 DEF WholeInv, WholeRun, Reading

\* The actions keep the invariant.
LEMMA WholeStep ==
    ASSUME TilesInv, CountInv, WholeInv, [Next]_vars
    PROVE  WholeInv'
<1>1. request' = request
  BY DEF Next, EnterTileHeader, EndOfStream, ReadSOT, AcceptSOT, ReadHeaderSegment, SkipTilePart,
         ReadSOD, CheckCorrection, NextTilePart, SelectTile, DecodeTile, AfterTile, Finish, Fail,
         vars, request
<1>2. WholeFile' <=> WholeFile
  BY <1>1, SameWhole
<1>3. SUFFICES ASSUME WholeFile, WholeRun PROVE WholeRun'
  BY <1>2 DEF WholeInv
<1> QED
  BY <1>3, EnterTileHeaderWhole, EndOfStreamWhole, ReadSOTWhole, ReadHeaderSegmentWhole,
     SkipTilePartWhole, ReadSODWhole, CheckCorrectionWhole, NextTilePartWhole, SelectTileWhole,
     DecodeTileWhole, AfterTileWhole, FinishWhole, WholeStutter
  DEF Next

\* An intact file, well formed or with the TPsot = TNsot defect, is read to its end
\* without an error, and every requested tile is decoded from all of its data.
THEOREM IntactFilesDecode == Spec => []IntactFileDecodes
<1>1. WholeInv => IntactFileDecodes
  <2> SUFFICES ASSUME WholeInv, Returned, WholeFile
               PROVE  /\ pc = "ok"
                      /\ \A t \in Tiles : Wanted(t) =>
                             \E k \in 1 .. Len(decoded) :
                                 decoded[k].tile = t /\ decoded[k].data = DataOf(t)
    BY DEF IntactFileDecodes, WholeFile
  <2>1. WholeRun /\ pc = "ok"
    BY DEF WholeInv, WholeRun, Returned
  <2>2. AllDecoded /\ DecodedWhole
    BY <2>1 DEF WholeRun, Reading, AtSOT, InPart, Behind, Emptying
  <2> QED
    BY <2>1, <2>2 DEF AllDecoded, DecodedWhole, IsDecoded
<1> QED
  BY CountInit, WholeInit, TilesInvariant, CountsStep, WholeStep, <1>1, PTL DEF Spec

===============================================================================
