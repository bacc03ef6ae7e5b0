------------------------------- MODULE TileParts -------------------------------
(***************************************************************************)
(* The tile-part reader of internal/j2k: readTileHeader, readSOT, readSOD,  *)
(* needNbTilePartsCorrection, decodeTile, and the two loops that drive them *)
(* (decodeTiles for Decode, decodeOneTile for GetTile).  A decoder serves   *)
(* one request, as gopenjpeg.go and internal/jp2 use it: the whole image or *)
(* an area (a set of tiles), or one tile.                                   *)
(*                                                                          *)
(* The codestream is a sequence of tile-parts behind the main header and    *)
(* perhaps an EOC marker; the file is that codestream cut anywhere.  What   *)
(* is kept of it is where each marker, segment and data range lies, in      *)
(* bytes, counted from the first SOT marker: 2 bytes of SOT, a segment of   *)
(* 10, an optional header marker of 2 with an empty segment of 2, 2 bytes   *)
(* of SOD, and the data.  A tile's data is the sequence of ranges read.     *)
(***************************************************************************)
EXTENDS Integers, Sequences, FiniteSets

CONSTANTS
    NumTiles,       \* cp.Tw * cp.Th, at least 2: a codestream of one tile takes the
                    \* short cut of decodeTiles, which is not modelled
    Inputs          \* the files: see IsInput

Tiles == 0 .. NumTiles - 1

\* tile, tp, tn: Isot, TPsot and TNsot; len: bytes of data; psot0: Psot is 0;
\* hdr: another marker segment (a comment) stands in the tile-part header.
Parts == [tile : Tiles, tp : Nat, tn : Nat, len : Nat, psot0 : BOOLEAN, hdr : 0 .. 1]

\* Behind the two bytes of the SOT marker, its segment of 10 and the SOD marker: the
\* other marker segment and the data.
PartLen(p) == 14 + 4 * p.hdr + p.len

\* Starts(parts)[i]: the offset of the SOT marker of the i-th tile-part; one more
\* entry for the end of the last one.
Starts(parts) ==
    LET s[i \in 1 .. Len(parts) + 1] ==
          IF i = 1 THEN 0 ELSE s[i - 1] + PartLen(parts[i - 1])
    IN  s

\* limit is the length of the file: at least the SOT marker that ends the main
\* header, at most the whole codestream.  Psot may be 0 in the last tile-part only;
\* the code takes what is left of any file for the data of such a tile-part.
IsInput(f) ==
    /\ f.parts \in Seq(Parts) /\ f.parts # <<>>
    /\ f.eoc \in BOOLEAN
    /\ f.limit \in Nat /\ f.limit >= 2
    /\ f.limit <= Starts(f.parts)[Len(f.parts) + 1] + IF f.eoc THEN 2 ELSE 0
    /\ \A i \in DOMAIN f.parts : f.parts[i].psot0 => i = Len(f.parts)

ASSUME TilePartsAssumption ==
    /\ NumTiles \in Nat \ {0, 1}
    /\ \A f \in Inputs : IsInput(f)

VARIABLES
    file,       \* the input
    strict,     \* cp.Strict
    target,     \* tileIndToDec: the tile of GetTile, or -1
    window,     \* the tiles of the decoded area (start/endTileX/Y): a rectangle
                \* of them, any non-empty set when there are two
    pos,        \* byte offset of the stream
    marker,     \* curMarker
    dec,        \* the decoder's flags (dec.* and currentTileNumber)
    tcp,        \* per tile: MCurrentTilePartNumber, MNbTileParts, MData
    decoded,    \* the tiles decoded so far, each with the data it was decoded from
    pc          \* where the code is; "ok" or "error" once it has returned

request == <<file, strict, target, window>>
vars == <<file, strict, target, window, pos, marker, dec, tcp, decoded, pc>>

-------------------------------------------------------------------------------
(* The layout of the file. *)

NumParts == Len(file.parts)
StartOf == Starts(file.parts)

DataAt(i) == StartOf[i] + 14 + 4 * file.parts[i].hdr
DataEnd(i) == DataAt(i) + file.parts[i].len

MarkerAt(p) ==
    CASE \E i \in 1 .. NumParts : p = StartOf[i] -> "SOT"
      [] \E i \in 1 .. NumParts : file.parts[i].hdr = 1 /\ p = StartOf[i] + 12 -> "COM"
      [] \E i \in 1 .. NumParts : p = DataAt(i) - 2 -> "SOD"
      [] file.eoc /\ p = StartOf[NumParts + 1] -> "EOC"
      [] OTHER -> "data"

\* s.NumberByteLeft()
Left == file.limit - pos

Least(S) == CHOOSE x \in S : \A y \in S : x <= y

-------------------------------------------------------------------------------
(* The request. *)

Init ==
    /\ file \in Inputs
    /\ strict \in BOOLEAN
    /\ \/ target \in Tiles /\ window = Tiles
       \/ target = -1 /\ window \in (SUBSET Tiles) \ {{}}
    /\ pos = 2
    /\ marker = "SOT"
    /\ dec = [state |-> "TPHSOT", cur |-> 0, canDecode |-> FALSE,
              lastTilePart |-> FALSE, sotLength |-> 0, skipData |-> FALSE,
              checked |-> FALSE, correction |-> 0]
    /\ tcp = [t \in Tiles |-> [part |-> -1, nb |-> 0, hasData |-> FALSE, data |-> <<>>]]
    /\ decoded = <<>>
    /\ pc = "enter"

Fail == /\ pc' = "error"
        /\ UNCHANGED <<request, pos, marker, dec, tcp, decoded>>

Wanted(t) == IF target = -1 THEN t \in window ELSE t = target

-------------------------------------------------------------------------------
(* readTileHeader *)

\* The loop for !canDecode && curMarker != EOC is entered, or left for good.
LoopTop(canDecode, m) == IF canDecode \/ m = "EOC" THEN "found" ELSE "scan"

\* The state check on entry, and the marker to go on with.
EnterTileHeader ==
    /\ pc = "enter"
    /\ IF dec.state \in {"TPHSOT", "EOC"}
         THEN /\ marker' = IF dec.state = "EOC" THEN "EOC" ELSE "SOT"
              /\ pc' = LoopTop(dec.canDecode, marker')
              /\ UNCHANGED <<request, pos, dec, tcp, decoded>>
         ELSE Fail

\* NumberByteLeft() == 0 where a marker segment should be.
EndOfStream ==
    /\ pc = "scan"
    /\ marker # "SOD"
    /\ Left = 0
    /\ dec' = [dec EXCEPT !.state = "NEOC"]
    /\ pc' = "found"
    /\ UNCHANGED <<request, pos, marker, tcp, decoded>>

\* readExact of the two bytes of a marker at offset at; fails at the end.
ReadMarker(at) ==
    \/ /\ at + 2 <= file.limit
       /\ marker' = MarkerAt(at)
       /\ pos' = at + 2
       /\ UNCHANGED pc
    \/ /\ at + 2 > file.limit
       /\ pc' = "error"
       /\ UNCHANGED <<marker, pos>>

\* s.Skip(n) at offset at.  A skip beyond the end of the stream stops there or
\* fails, depending on how much of it was buffered (see InputStream).
SkipData(at, n) ==
    \/ /\ at + n <= file.limit \/ at < file.limit
       /\ pos' = IF at + n <= file.limit THEN at + n ELSE file.limit
       /\ marker' = "SOD"
       /\ UNCHANGED pc
    \/ /\ at + n > file.limit
       /\ pc' = "error"
       /\ UNCHANGED <<marker, pos>>

\* readSOT's checks of TPsot against the tile-parts seen and announced.
TilePartInOrder(p) ==
    /\ target \in {-1, p.tile} => p.tp = tcp[p.tile].part + 1
    /\ tcp[p.tile].nb # 0 => p.tp < tcp[p.tile].nb
    /\ p.tn # 0 => p.tp < p.tn + dec.correction

\* Mutant: currentTileNumber is left at the tile before.
StartTilePartElsewhere(p, nb, last, sot) ==
    [dec EXCEPT !.lastTilePart = last, !.canDecode = @ \/ nb = p.tp + 1,
                !.sotLength = sot, !.state = "TPH", !.skipData = ~Wanted(p.tile)]

\* What readSOT makes of the decoder's flags.
StartTilePart(p, nb, last, sot) ==
    [dec EXCEPT !.cur = p.tile, !.lastTilePart = last, !.canDecode = @ \/ nb = p.tp + 1,
                !.sotLength = sot, !.state = "TPH", !.skipData = ~Wanted(p.tile)]

\* readSOT on the segment of tile-part p, then the data of an unwanted tile is
\* skipped, or the next marker is read.
AcceptSOT(p) ==
    LET nb == IF p.tn = 0 THEN tcp[p.tile].nb ELSE p.tn + dec.correction
        last == dec.lastTilePart \/ p.psot0
        sot == IF last THEN 0 ELSE PartLen(p) - 12
    IN  /\ tcp' = [tcp EXCEPT ![p.tile].part = p.tp, ![p.tile].nb = nb]
        /\ dec' = StartTilePart(p, nb, last, sot)
        /\ IF Wanted(p.tile) THEN ReadMarker(pos + 10) ELSE SkipData(pos + 10, sot)
        /\ UNCHANGED <<request, decoded>>

\* The part whose SOT marker has just been read.
PartHere == file.parts[CHOOSE i \in 1 .. NumParts : StartOf[i] + 2 = pos]

ReadSOT ==
    /\ pc = "scan"
    /\ marker = "SOT"
    /\ Left # 0
    /\ IF Left >= 10 /\ TilePartInOrder(PartHere) THEN AcceptSOT(PartHere) ELSE Fail

\* Another marker segment of the tile-part header, accepted in state TPH only.
ReadHeaderSegment ==
    /\ pc = "scan"
    /\ marker = "COM"
    /\ Left # 0
    /\ IF dec.state # "TPH" \/ Left < 4
         THEN Fail
         ELSE /\ dec' = [dec EXCEPT !.sotLength = IF @ = 0 THEN 0 ELSE @ - 4]
              /\ marker' = MarkerAt(pos + 2)
              /\ pos' = pos + 4
              /\ UNCHANGED <<request, tcp, decoded, pc>>

\* Mutant: canDecode stays as the unwanted tile-part has set it.
SkipKeepsCanDecode ==
    /\ pc = "scan"
    /\ marker = "SOD"
    /\ dec.skipData
    /\ dec' = [dec EXCEPT !.skipData = FALSE, !.state = "TPHSOT"]
    /\ pc' = "next"
    /\ UNCHANGED <<request, pos, marker, tcp, decoded>>

\* The tile-part of a tile that is not wanted is over.
SkipTilePart ==
    /\ pc = "scan"
    /\ marker = "SOD"
    /\ dec.skipData
    /\ dec' = [dec EXCEPT !.skipData = FALSE, !.canDecode = FALSE, !.state = "TPHSOT"]
    /\ pc' = "next"
    /\ UNCHANGED <<request, pos, marker, tcp, decoded>>

\* What readUpTo returns for sot bytes.
BytesRead(sot) == IF sot > Left THEN Left ELSE sot

\* readSOD: appends the data of the tile-part to the tile's, as much of it as
\* there is when the decoder is relaxed.  After a tile-part with Psot = 0 the
\* length is the rest of the stream less an EOC marker (negative at the very end,
\* which as a uint32 is rejected as too large).
ReadSOD ==
    LET sot == IF dec.lastTilePart THEN Left - 2
               ELSE IF dec.sotLength >= 2 THEN dec.sotLength - 2 ELSE dec.sotLength
        read == BytesRead(sot)
    IN  /\ pc = "scan"
        /\ marker = "SOD"
        /\ ~dec.skipData
        /\ IF sot < 0 \/ (sot > Left /\ strict) THEN Fail
           ELSE /\ tcp' = [tcp EXCEPT
                       ![dec.cur].hasData = @ \/ sot # 0,
                       ![dec.cur].data = IF read = 0 THEN @
                                         ELSE Append(@, <<pos, pos + read>>)]
                /\ dec' = [dec EXCEPT !.sotLength = sot,
                                      !.state = IF read = sot THEN "TPHSOT" ELSE "NEOC"]
                /\ pos' = pos + read
                /\ pc' = IF dec.canDecode /\ ~dec.checked THEN "correct" ELSE "next"
                /\ UNCHANGED <<request, marker, decoded>>

-------------------------------------------------------------------------------
(* needNbTilePartsCorrection: look ahead for the next tile-part of the tile.   *)
(* TPsot = TNsot there means that the encoder announced one part too few.      *)

\* The tile-parts the scan gets to: it jumps from SOT to SOT until it meets the
\* tile, a Psot of 0 or the end of the stream.
Ahead == {i \in 1 .. NumParts : StartOf[i] >= pos}

Reached == {i \in Ahead :
               /\ StartOf[i] + 2 <= file.limit
               /\ \A j \in Ahead : j < i =>
                      file.parts[j].tile # dec.cur /\ ~file.parts[j].psot0}

\* The look-ahead runs into a SOT segment that is cut off.
LookAheadFails == \E i \in Reached : file.limit < StartOf[i] + 12

\* Mutant: no look-ahead.
NeverCorrect == FALSE

NeedsCorrection ==
    /\ tcp[dec.cur].nb # 1
    /\ \E i \in Reached : LET p == file.parts[i] IN p.tile = dec.cur /\ p.tp = p.tn

\* Done once, when the first tile is complete; the stream is put back.
CheckCorrection ==
    /\ pc = "correct"
    /\ IF tcp[dec.cur].nb # 1 /\ LookAheadFails THEN Fail
       ELSE /\ dec' = [dec EXCEPT !.checked = TRUE,
                                  !.canDecode = ~NeedsCorrection,
                                  !.correction = IF NeedsCorrection THEN 1 ELSE @]
            /\ tcp' = IF ~NeedsCorrection THEN tcp
                      ELSE [t \in Tiles |->
                               [tcp[t] EXCEPT !.nb = IF @ = 0 THEN 0 ELSE @ + 1]]
            /\ pc' = "next"
            /\ UNCHANGED <<request, pos, marker, decoded>>

-------------------------------------------------------------------------------
(* readTileHeader, behind a tile-part: on to the next one, or out. *)

\* The tiles of the SPOT6 fallback: one tile-part read, none announced.
Spot6 == {t \in Tiles : tcp[t].part = 0 /\ tcp[t].nb = 0}

NextTilePart ==
    /\ pc = "next"
    /\ CASE dec.canDecode ->
              /\ pc' = "found"
              /\ UNCHANGED <<request, pos, marker, dec, tcp, decoded>>
         [] ~dec.canDecode /\ Left >= 2 ->
              /\ marker' = MarkerAt(pos)
              /\ pos' = pos + 2
              /\ pc' = LoopTop(FALSE, marker')
              /\ UNCHANGED <<request, dec, tcp, decoded>>
         [] ~dec.canDecode /\ Left < 2 /\ dec.cur = NumTiles - 1 /\ Spot6 # {} ->
              /\ pos' = file.limit
              /\ marker' = "EOC"
              /\ dec' = [dec EXCEPT !.cur = Least(Spot6), !.state = "EOC"]
              /\ pc' = "found"
              /\ UNCHANGED <<request, tcp, decoded>>
         [] OTHER -> Fail

\* Mutant: with no tile left the loops go round again.
SelectedGoesOn(withData) == IF withData = {} THEN "enter" ELSE "decode"

\* goOn: with no tile left the loops end.
Selected(withData) == IF withData = {} THEN "finish" ELSE "decode"

\* The tail of readTileHeader.  At EOC, or when the stream has ended, the first
\* tile that has data is the next one to decode; with none, goOn is false and
\* the loops end.
SelectTile ==
    LET atEOC == marker = "EOC" /\ dec.state # "EOC"
        from == IF atEOC THEN 0 ELSE dec.cur
        withData == {t \in Tiles : t >= from /\ tcp[t].hasData}
        state == IF atEOC THEN "EOC" ELSE dec.state
    IN  /\ pc = "found"
        /\ IF dec.canDecode
             THEN /\ dec' = [dec EXCEPT !.state = state, !.cur = from]
                  /\ pc' = "decode"
             ELSE /\ dec' = [dec EXCEPT !.state = state,
                                 !.cur = IF withData = {} THEN NumTiles ELSE Least(withData)]
                  /\ pc' = Selected(withData)
        /\ UNCHANGED <<request, pos, marker, tcp, decoded>>

-------------------------------------------------------------------------------
(* decodeTile and the loops *)

\* The tile-parts of tile t with data that are before part i.
WithData(t, i) == {j \in 1 .. i - 1 : file.parts[j].tile = t /\ file.parts[j].len # 0}
Count(t, i) == Cardinality(WithData(t, i))

\* All the data of tile t, in the order of the codestream.
DataOf(t) ==
    [k \in 1 .. Count(t, NumParts + 1) |->
        LET i == CHOOSE i \in WithData(t, NumParts + 1) : Count(t, i) = k - 1
        IN  <<DataAt(i), DataEnd(i)>>]

\* Mutant: the data of a decoded tile stays.
KeepData(t) == tcp

\* The data of a decoded tile is dropped (MData = nil).
DropData(t) == [tcp EXCEPT ![t].hasData = FALSE, ![t].data = <<>>]

\* tcd.DecodeTile: complete data decodes, of incomplete data the packet and
\* block decoders may or may not make a tile.  updateImageData then copies the
\* tile into the output, and its data is dropped.
DecodeTile ==
    /\ pc = "decode"
    /\ LET t == dec.cur IN
       \/ /\ ~tcp[t].hasData \/ tcp[t].data # DataOf(t)
          /\ Fail
       \/ /\ tcp[t].hasData
          /\ decoded' = Append(decoded, [tile |-> t, data |-> tcp[t].data, at |-> pos])
          /\ tcp' = DropData(t)
          /\ dec' = [dec EXCEPT !.canDecode = FALSE]
          /\ pc' = "after"
          /\ UNCHANGED <<request, pos, marker>>

\* decodeTiles stops behind the last tile or at the end of the stream,
\* decodeOneTile behind its tile, with the stream put back to the first
\* tile-part.
LoopOn(at, state) ==
    IF target = -1
      THEN /\ pos' = at
           /\ pc' = IF (at = file.limit /\ state = "NEOC") \/ Len(decoded) = NumTiles
                      THEN "finish" ELSE "enter"
      ELSE LET mine == decoded[Len(decoded)].tile = target
           IN  /\ pos' = IF mine THEN 2 ELSE at
               /\ pc' = IF mine THEN "finish" ELSE "enter"

\* Nothing is behind the tile.
NothingBehind ==
    /\ dec.state = "EOC" \/ (Left = 0 /\ dec.state = "NEOC")
    /\ UNCHANGED dec
    /\ LoopOn(pos, dec.state)

\* Less than a marker is left.
CutBehind ==
    /\ dec.state = "TPHSOT" /\ Left < 2
    /\ UNCHANGED dec
    /\ IF strict THEN pc' = "error" /\ UNCHANGED pos
       ELSE LoopOn(file.limit, dec.state)

\* The marker behind the tile: EOC or SOT, or something else at the very end.
MarkerBehind ==
    /\ dec.state = "TPHSOT" /\ Left >= 2
    /\ \/ /\ MarkerAt(pos) = "EOC"
          /\ dec' = [dec EXCEPT !.cur = 0, !.state = "EOC"]
          /\ LoopOn(pos + 2, "EOC")
       \/ /\ MarkerAt(pos) = "SOT"
          /\ UNCHANGED dec
          /\ LoopOn(pos + 2, dec.state)
       \/ /\ MarkerAt(pos) \notin {"EOC", "SOT"}
          /\ IF Left = 2
               THEN /\ dec' = [dec EXCEPT !.state = "NEOC"]
                    /\ LoopOn(pos + 2, "NEOC")
               ELSE pc' = "error" /\ UNCHANGED <<pos, dec>>

\* The end of decodeTile, and of the loop's body.
AfterTile ==
    /\ pc = "after"
    /\ NothingBehind \/ CutBehind \/ MarkerBehind
    /\ UNCHANGED <<request, marker, tcp, decoded>>

\* areAllUsedComponentsDecoded: the output has been allocated by a tile.
Finish ==
    /\ pc = "finish"
    /\ pc' = IF decoded = <<>> THEN "error" ELSE "ok"
    /\ UNCHANGED <<request, pos, marker, dec, tcp, decoded>>

Next == \/ EnterTileHeader
        \/ EndOfStream
        \/ ReadSOT
        \/ ReadHeaderSegment
        \/ SkipTilePart
        \/ ReadSOD
        \/ CheckCorrection
        \/ NextTilePart
        \/ SelectTile
        \/ DecodeTile
        \/ AfterTile
        \/ Finish

Spec == Init /\ [][Next]_vars

\* The caller waits for Decode or GetTile to return: the code runs on.
FairSpec == Spec /\ WF_vars(Next)

Returned == pc \in {"ok", "error"}

-------------------------------------------------------------------------------
(* Properties *)

\* Every variable has its type.
TypeOK ==
    /\ IsInput(file)
    /\ strict \in BOOLEAN
    /\ target \in Tiles \union {-1}
    /\ window \subseteq Tiles
    /\ pos \in 0 .. file.limit
    /\ marker \in {"SOT", "COM", "SOD", "EOC", "data"}
    /\ dec \in [state : {"TPHSOT", "TPH", "NEOC", "EOC"}, cur : 0 .. NumTiles,
                canDecode : BOOLEAN, lastTilePart : BOOLEAN, sotLength : Nat,
                skipData : BOOLEAN, checked : BOOLEAN, correction : 0 .. 1]
    /\ tcp \in [Tiles -> [part : Nat \union {-1}, nb : Nat, hasData : BOOLEAN,
                          data : Seq(Nat \X Nat)]]
    /\ decoded \in Seq([tile : Tiles, data : Seq(Nat \X Nat), at : Nat])
    /\ pc \in {"enter", "scan", "correct", "next", "found", "decode", "after",
               "finish", "ok", "error"}

\* data is a beginning of all, where the last range may be cut short.
IsBeginningOf(data, all) ==
    /\ Len(data) <= Len(all)
    /\ \A k \in 1 .. Len(data) :
           /\ data[k][1] = all[k][1]
           /\ data[k][2] <= all[k][2]
           /\ k < Len(data) => data[k] = all[k]

\* A requested tile is decoded from a beginning of its own data: the tile-parts of
\* different tiles may be interleaved, and the stream cut, without a byte of
\* another tile, a gap or a repetition getting in.
OwnDataInOrder ==
    \A k \in 1 .. Len(decoded) :
        Wanted(decoded[k].tile) => IsBeginningOf(decoded[k].data, DataOf(decoded[k].tile))

\* One request decodes no tile twice, so no sample of the output is written by
\* two tiles.
NoTileTwice ==
    \A j, k \in 1 .. Len(decoded) : decoded[j].tile = decoded[k].tile => j = k

\* The number of tile-parts of tile t before part i, and of all.
Seen(t, i) == Cardinality({j \in 1 .. i - 1 : file.parts[j].tile = t})
Total(t) == Seen(t, NumParts + 1)

\* The tile-parts of each tile are numbered in order.
Numbered == \A i \in 1 .. NumParts : file.parts[i].tp = Seen(file.parts[i].tile, i)

\* A well-formed codestream: TNsot is right or left open (0).
WellFormed ==
    /\ Numbered
    /\ \A t \in Tiles : Total(t) # 0
    /\ \A i \in 1 .. NumParts : file.parts[i].tn \in {0, Total(file.parts[i].tile)}

Intact == file.eoc /\ file.limit = StartOf[NumParts + 1] + 2

\* The defect TPsot = TNsot that the decoder repairs: well-formed, but each tile
\* announces one tile-part too few, and at least two.  The repair is made when
\* the first requested tile is complete, so it comes too late when tile-parts are
\* skipped before that: the request is for every tile.
OneShort ==
    /\ Numbered
    /\ \A t \in Tiles : Wanted(t) /\ Total(t) >= 3
    /\ \A i \in 1 .. NumParts :
           /\ file.parts[i].tn = Total(file.parts[i].tile) - 1
           /\ ~file.parts[i].psot0

\* The last tile-part has Psot = 0 and belongs to a tile nobody asked for: it is
\* not skipped, and its tile is decoded.
UnwantedOpenEnd == file.parts[NumParts].psot0 /\ ~Wanted(file.parts[NumParts].tile)

HasData(t) == DataOf(t) # <<>>

\* An intact file decodes, strict or not, and every requested tile is decoded
\* from all its data; so does one with the TPsot = TNsot defect.
IntactFileDecodes ==
    /\ Returned
    /\ Intact /\ ~UnwantedOpenEnd /\ (WellFormed \/ OneShort)
    /\ \A t \in Tiles : HasData(t)
    => /\ pc = "ok"
       /\ \A t \in Tiles : Wanted(t) =>
              \E k \in 1 .. Len(decoded) :
                  decoded[k].tile = t /\ decoded[k].data = DataOf(t)

\* A tile is never decoded while a tile-part of it is still to come in the file. The
\* TPsot = TNsot defect is repaired by looking ahead to a tile's last tile-part, once:
\* a file must not end before the last SOT marker.
NoTilePartLeftBehind ==
    WellFormed \/ (OneShort /\ StartOf[NumParts] + 2 <= file.limit) =>
        \A k \in 1 .. Len(decoded) : \A i \in 1 .. NumParts :
            file.parts[i].tile = decoded[k].tile =>
                StartOf[i] < decoded[k].at \/ file.limit < StartOf[i] + 12

\* Decode and GetTile return, whatever the file.
Terminates == <>Returned

===============================================================================
