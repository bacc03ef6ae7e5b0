------------------------------- MODULE FileReader -------------------------------
(***************************************************************************)
(* The decoder reading a file of cells (see JP2Boxes and FileWriter): the   *)
(* box loop of internal/jp2/read.go around the headers of the codestream    *)
(* (internal/j2k/header.go, markers.go and the header loop of tiles.go),    *)
(* each marker segment handled in the state it is allowed in, into the      *)
(* coding parameters of all tiles or of one.                                *)
(*                                                                          *)
(* Which tile-parts a request wants, streams that end early, Psot of 0 or   *)
(* 12 and the correction of TNsot are left to TileParts, packets to         *)
(* PacketHeader.                                                            *)
(***************************************************************************)
EXTENDS MainHeader, JP2Boxes

VARIABLES
    input,      \* the file
    opt,        \* [jp2, strict, subset]: the kind of file, cp.Strict, and whether components
                \* were picked (SetDecodedComponents)
    at,         \* the cell to read next
    phase,      \* the loop the decoder is in
    jp2,        \* the state of the box reader
    limit,      \* the end of the jp2h box, or of the tile-part
    cs,         \* what the codestream has told
    comps       \* of the image

readerVars == <<input, opt, at, phase, jp2, limit, cs, comps>>

NewCS ==
    [siz |-> <<>>, tcp |-> <<>>, cod |-> {}, qcd |-> FALSE, ppm |-> <<>>, packed |-> <<>>,
     tcps |-> <<>>, parts |-> <<>>, ntp |-> <<>>, tile |-> 0, ppt |-> <<>>, packets |-> <<>>]

ReaderInit(in, o, idle) ==
    /\ input = in
    /\ opt = o
    /\ at = 1
    /\ phase = IF idle THEN "idle" ELSE IF o.jp2 THEN "boxes" ELSE "soc"
    /\ jp2 = NewJP2
    /\ limit = 0
    /\ cs = NewCS
    /\ comps = <<>>

Go(to, next) == at' = to /\ phase' = next
Refuse == phase' = "refused" /\ UNCHANGED <<at, jp2, limit, cs, comps>>

Kind == IF at > Len(input) THEN "end" ELSE input[at][1]
Value == input[at][2]

-------------------------------------------------------------------------------
(* Boxes *)

\* readBoxHdr, and readBoxHdrChar for the boxes inside jp2h, with "left" cells to the end.
XL(i) == input[i][2] = 1
Header(i, left) ==
    IF left < 2 \/ (XL(i) /\ (left < 4 \/ input[i + 2][2] # 0))
      THEN [ok |-> FALSE]
      ELSE [ok |-> TRUE, type |-> input[i + 1][2], hdr |-> IF XL(i) THEN 4 ELSE 2,
            length |-> IF XL(i) THEN input[i + 3][2] ELSE input[i][2]]

\* A box of length 0 reaches to the end of the file.
Top == LET h == Header(at, Len(input) + 1 - at)
       IN  IF h.ok /\ h.length = 0 /\ h.hdr = 2 THEN [h EXCEPT !.length = Len(input) + 1 - at] ELSE h
Sub == Header(at, limit - at)

Trailing == "jp2c" \in jp2.flags
Flag(f) == [jp2 EXCEPT !.flags = @ \union {f}]

\* No further box: behind the codestream this is the end.
BoxesEnd ==
    /\ phase = "boxes" /\ ~Top.ok
    /\ IF Trailing THEN phase' = "done" /\ UNCHANGED <<at, jp2, limit, cs, comps>>
       ELSE IF "jp2h" \in jp2.flags
         THEN Go(Len(input) + 1, "soc") /\ UNCHANGED <<jp2, limit, cs, comps>>
         ELSE Refuse

InBoxes(types) == phase = "boxes" /\ Top.ok /\ Top.type \in types
Usable == Top.length >= Top.hdr
Whole == at + Top.length <= Len(input) + 1

ReadJp2c ==
    /\ InBoxes({"jp2c"})
    /\ IF "jp2h" \in jp2.flags
         THEN /\ jp2' = Flag("jp2c")
              /\ Go(at + Top.hdr, IF Trailing THEN "done" ELSE "soc")
              /\ UNCHANGED <<limit, cs, comps>>
         ELSE Refuse

\* jP must be the first box and ftyp the second one.
ReadSignature ==
    /\ InBoxes({"jP", "ftyp"})
    /\ IF Usable /\ Whole /\ jp2.flags = (IF Top.type = "jP" THEN {} ELSE {"jP"})
            /\ ~input[at + Top.hdr][2].short
         THEN jp2' = Flag(Top.type) /\ Go(at + Top.length, "boxes") /\ UNCHANGED <<limit, cs, comps>>
         ELSE Refuse

EnterJp2h ==
    /\ InBoxes({"jp2h"})
    /\ IF Usable /\ Whole /\ "ftyp" \in jp2.flags
         THEN /\ limit' = at + Top.length
              /\ Go(at + Top.hdr, "jp2h")
              /\ jp2' = [jp2 EXCEPT !.flags = @ \ {"ihdr here"}]
              /\ UNCHANGED <<cs, comps>>
         ELSE Refuse

ReadSubBox ==
    /\ phase = "jp2h" /\ at < limit
    /\ LET body == input[at + Sub.hdr][2]
           known == Sub.type \in ImgTypes
       IN  IF \/ ~Sub.ok \/ Sub.length = 0 \/ Sub.length < Sub.hdr
              \/ Sub.length > limit - at
              \/ known /\ BadImgBox(jp2, Sub.type, body)
             THEN Refuse
             ELSE /\ jp2' = LET j == IF known THEN AfterImgBox(jp2, Sub.type, body) ELSE jp2
                            IN  IF Sub.type = "ihdr" THEN [j EXCEPT !.flags = @ \union {"ihdr here"}] ELSE j
                  /\ Go(at + Sub.length, "jp2h")
                  /\ UNCHANGED <<limit, cs, comps>>

LeaveJp2h ==
    /\ phase = "jp2h" /\ at = limit
    /\ IF "ihdr here" \in jp2.flags
         THEN jp2' = Flag("jp2h") /\ Go(at, "boxes") /\ UNCHANGED <<limit, cs, comps>>
         ELSE Refuse

\* A box of jp2h outside it: skipped before, read after.
ReadMisplaced ==
    /\ InBoxes(ImgTypes)
    /\ LET read == "jp2h" \in jp2.flags
           body == input[at + Top.hdr][2]
       IN  IF ~Usable \/ ~Whole \/ (read /\ BadImgBox(jp2, Top.type, body)) THEN Refuse
           ELSE /\ jp2' = IF read THEN AfterImgBox(jp2, Top.type, body) ELSE Flag("unknown")
                /\ Go(at + Top.length, "boxes")
                /\ UNCHANGED <<limit, cs, comps>>

\* One that is cut off behind the codestream ends the file.
SkipUnknownBox ==
    /\ phase = "boxes" /\ Top.ok
    /\ Top.type \notin ImgTypes \union {"jp2c", "jP", "ftyp", "jp2h"}
    /\ IF ~Usable \/ ~{"jP", "ftyp"} \subseteq jp2.flags \/ (~Whole /\ ~Trailing) THEN Refuse
       ELSE /\ jp2' = Flag("unknown")
            /\ Go(IF Whole THEN at + Top.length ELSE Len(input) + 1, IF Whole THEN "boxes" ELSE "done")
            /\ UNCHANGED <<limit, cs, comps>>

-------------------------------------------------------------------------------
(* The main header, and those of the tile-parts *)

Marker == IF Kind = "seg" THEN Value.m ELSE Kind
\* A segment of a tile-part header may not reach over the end of the tile-part.
In(phases, m) == phase \in phases /\ Marker = m /\ (phase = "part" => at < limit)
Seg == Value
Step == Go(at + 1, phase)

Unknown == {"UNK", "SOC", "SOD", "EOC"}
Common == {"COD", "COC", "QCD", "QCC", "RGN", "POC", "COM"}

ReadSOC ==
    /\ phase = "soc"
    /\ IF Marker = "SOC" THEN Go(at + 1, "siz") /\ UNCHANGED <<jp2, limit, cs, comps>> ELSE Refuse

\* Not compliant with its position, or nothing at all.
Misplaced ==
    /\ \/ phase = "siz" /\ Marker \notin Unknown \union {"SIZ"}
       \/ phase = "main" /\ Marker \notin Unknown \union Common \union {"TLM", "PPM", "SOT"}
       \/ phase = "part" /\ (at >= limit \/ Marker \notin Common \union {"PLT", "PPT", "SOD"})
       \/ phase = "parts" /\ Marker \notin {"SOT", "EOC"}
    /\ Refuse

\* readUnk: before SIZ, not two in a row.
SkipUnknownMarker ==
    /\ phase \in {"siz", "main"} /\ Marker \in Unknown
    /\ IF phase = "siz" /\ at < Len(input) /\ input[at + 1][1] = "seg" /\ input[at + 1][2].m \in Unknown
         THEN Refuse
         ELSE Step /\ UNCHANGED <<jp2, limit, cs, comps>>

ReadSIZ ==
    /\ In({"siz"}, "SIZ")
    /\ IF BadSIZ(Seg, jp2.w, Len(input) + 1 - at) THEN Refuse
       ELSE /\ cs' = [cs EXCEPT !.siz = Seg, !.tcp = Fresh(Seg)]
            /\ comps' = [i \in DOMAIN Seg.comps |->
                           [prec |-> (Seg.comps[i][1] % 128) + 1, sgnd |-> Seg.comps[i][1] \div 128,
                            from |-> i, col |-> 0, alpha |-> 0]]
            /\ Go(at + 1, "main")
            /\ UNCHANGED <<jp2, limit>>

\* The parameters of the tile, or those all tiles start from.
InPart == phase = "part"
Tcp0 == IF InPart THEN cs.tcps[cs.tile] ELSE cs.tcp
Here == IF InPart THEN cs.tile ELSE -1
WithTcp(c, tcp) == IF InPart THEN [c EXCEPT !.tcps[cs.tile] = tcp] ELSE [c EXCEPT !.tcp = tcp]

Take(bad, after) ==
    /\ IF bad THEN Refuse
       ELSE cs' = after /\ Step /\ UNCHANGED <<jp2, limit, comps>>

Headers == {"main", "part"}
ReadCOD ==
    /\ In(Headers, "COD")
    /\ Take(BadCOD(Seg) \/ (opt.strict /\ Here \in cs.cod),
            WithTcp([cs EXCEPT !.cod = @ \union {Here}], AfterCOD(Tcp0, Seg)))
ReadCOC ==
    /\ In(Headers, "COC")
    /\ Take(BadCOC(Tcp0, Seg), WithTcp(cs, AfterCOC(Tcp0, Seg)))
ReadQCD ==
    /\ In(Headers, "QCD")
    /\ Take(FALSE, WithTcp([cs EXCEPT !.qcd = @ \/ ~InPart], AfterQCD(Tcp0, Seg)))
ReadQCC ==
    /\ In(Headers, "QCC")
    /\ Take(BadComp(Tcp0, Seg), WithTcp(cs, AfterQCC(Tcp0, Seg)))
ReadRGN ==
    /\ In(Headers, "RGN")
    /\ Take(BadComp(Tcp0, Seg), WithTcp(cs, AfterRGN(Tcp0, Seg)))
ReadPOC ==
    /\ In(Headers, "POC")
    /\ Take(BadPOC(Tcp0, Seg), WithTcp(cs, AfterPOC(Tcp0, Seg)))
ReadCOM ==
    /\ In(Headers, "COM")
    /\ Take(FALSE, cs)

\* Lengths that the decoder does not use.
ReadTLM ==
    /\ In({"main"}, "TLM")
    /\ Go(at + 1 + Value, phase)
    /\ UNCHANGED <<jp2, limit, cs, comps>>
ReadPLT ==
    /\ In({"part"}, "PLT")
    /\ Take(FALSE, cs)

\* The pieces of packed packet headers by their numbers.
WithPiece(pieces, seg) == (seg.z :> seg.bytes) @@ pieces
ReadPPM ==
    /\ In({"main"}, "PPM")
    /\ Take(Seg.bytes = <<>> \/ Seg.z \in DOMAIN cs.ppm, [cs EXCEPT !.ppm = WithPiece(@, Seg)])
ReadPPT ==
    /\ In({"part"}, "PPT")
    /\ Take(Seg.bytes = <<>> \/ cs.ppm # <<>> \/ Seg.z \in DOMAIN cs.ppt[cs.tile],
            [cs EXCEPT !.ppt[cs.tile] = WithPiece(@, Seg)])

Tiles == 0 .. CeilDiv(cs.siz.w, cs.siz.tdx) - 1

\* The first SOT: mergePPM, and every tile starts from the parameters read so far.
EndMainHeader ==
    /\ In({"main"}, "SOT")
    /\ LET joined == JoinAll(cs.ppm)
       IN  IF -1 \notin cs.cod \/ ~cs.qcd \/ ~joined.ok THEN Refuse
           ELSE /\ cs' = [cs EXCEPT !.packed = joined.out,
                            !.tcps = [t \in Tiles |-> cs.tcp], !.parts = [t \in Tiles |-> 0],
                            !.ntp = [t \in Tiles |-> 0],
                            !.ppt = [t \in Tiles |-> <<>>], !.packets = [t \in Tiles |-> <<>>]]
                /\ Go(at, "parts")
                /\ UNCHANGED <<jp2, limit, comps>>

\* readSOT: SOT, Psot and the numbers TPsot and TNsot.
ReadSOT ==
    /\ In({"parts"}, "SOT")
    /\ LET t == Value
           psot == input[at + 1][2]
           tp == input[at + 2][2][1]
           tn == input[at + 2][2][2]
       IN  IF t \notin Tiles \/ tp # cs.parts[t] \/ psot < 4
              \/ \E n \in {tn, cs.ntp[t]} : n # 0 /\ tp >= n
             THEN Refuse
           ELSE /\ cs' = [cs EXCEPT !.tile = t, !.parts[t] = tp + 1, !.ntp[t] = IF tn = 0 THEN @ ELSE tn]
                /\ limit' = at + psot
                /\ Go(at + 3, "part")
                /\ UNCHANGED <<jp2, comps>>

ReadSOD ==
    /\ In({"part"}, "SOD")
    /\ cs' = [cs EXCEPT !.packets[cs.tile] = @ \o SubSeq(input, at + 1, limit - 1)]
    /\ Go(limit, "parts")
    /\ UNCHANGED <<jp2, limit, comps>>

\* With no data there is nothing to decode.
ReadEOC ==
    /\ In({"parts"}, "EOC")
    /\ IF \A t \in Tiles : cs.packets[t] = <<>> THEN Refuse
       ELSE Go(at + 1, IF opt.jp2 THEN "color" ELSE "done") /\ UNCHANGED <<jp2, limit, cs, comps>>

\* mergePPT, when the tile is decoded.
PackedOf(t) == JoinPlain(cs.ppt[t])

-------------------------------------------------------------------------------

\* applyColorPostprocessing.  The channel definitions are used up.
ApplyColor ==
    /\ phase = "color"
    /\ IF opt.subset THEN Go(at, "boxes") /\ UNCHANGED <<jp2, limit, cs, comps>>
       ELSE IF BadCdef(jp2, comps) \/ BadCmap(jp2, comps) THEN Refuse
       ELSE /\ comps' = AfterCdef(jp2, AfterPclr(jp2, comps))
            /\ jp2' = [jp2 EXCEPT !.cdef = <<>>]
            /\ Go(at, "boxes")
            /\ UNCHANGED <<limit, cs>>

ReaderNext ==
    /\ \/ BoxesEnd \/ ReadJp2c \/ ReadSignature \/ EnterJp2h \/ ReadSubBox \/ LeaveJp2h
       \/ ReadMisplaced \/ SkipUnknownBox
       \/ ReadSOC \/ Misplaced \/ SkipUnknownMarker \/ ReadSIZ
       \/ ReadCOD \/ ReadCOC \/ ReadQCD \/ ReadQCC \/ ReadRGN \/ ReadPOC \/ ReadCOM
       \/ ReadTLM \/ ReadPLT \/ ReadPPM \/ ReadPPT
       \/ EndMainHeader \/ ReadSOT \/ ReadSOD \/ ReadEOC \/ ApplyColor
    /\ UNCHANGED <<input, opt>>

===============================================================================
