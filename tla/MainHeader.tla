------------------------------- MODULE MainHeader -------------------------------
(***************************************************************************)
(* The marker segments of the main header: what the encoder puts into each  *)
(* (internal/j2k/j2k_encode_write.go) and what the decoder makes of it      *)
(* (internal/j2k/markers.go).  A segment is a record with its marker "m" and*)
(* its fields as they stand in the file, so a field keeps its width; sizes  *)
(* of segments and of component numbers are left out.                       *)
(***************************************************************************)
EXTENDS CodingParams, SequencesExt

-------------------------------------------------------------------------------
(* Writing *)

SIZ(cp, img) ==
    [m |-> "SIZ", rsiz |-> cp.rsiz, w |-> img.w, tdx |-> cp.tdx,
     comps |-> [i \in DOMAIN img.comps |->
                  <<img.comps[i].prec - 1 + 128 * img.comps[i].sgnd, img.comps[i].dx>>]]

\* writeSPCodSPCoc.
SPcod(c) ==
    [levels |-> c.numres - 1, w |-> c.cblkw - 2, h |-> c.cblkh - 2, sty |-> c.cblksty,
     qmfbid |-> c.qmfbid, prc |-> IF HasPRT(c.csty) THEN c.prc ELSE <<>>]

\* writeSQcdSQcc: 5 bits of exponent, and 11 of mantissa where the step is not 1.
SQcd(c) ==
    [s |-> c.qntsty + 32 * c.numgbits,
     steps |-> [b \in DOMAIN c.steps |->
                  IF c.qntsty = 0 THEN (8 * c.steps[b][1]) % 2 ^ 8
                  ELSE (2048 * c.steps[b][1] + c.steps[b][2]) % 2 ^ 16]]

COD(tcp) ==
    [m |-> "COD", csty |-> tcp.csty, prg |-> tcp.prg, layers |-> tcp.numlayers,
     mct |-> tcp.mct, sp |-> SPcod(tcp.comps[1])]

QCD(tcp) == [m |-> "QCD", sq |-> SQcd(tcp.comps[1])]

\* The flags of the component, with the parameters of the first one.
COC(tcp, c) == [m |-> "COC", comp |-> c - 1, csty |-> tcp.comps[c].csty, sp |-> SPcod(tcp.comps[1])]
QCC(tcp, c) == [m |-> "QCC", comp |-> c - 1, sq |-> SQcd(tcp.comps[c])]
RGN(tcp, c) == [m |-> "RGN", comp |-> c - 1, shift |-> tcp.comps[c].roishift]
COM == [m |-> "COM"]

\* The bounds go into the file as they are.
POC(tcp) == [m |-> "POC", recs |-> tcp.pocs]

\* writePOCInMemory leaves them clamped behind.
Clamped(tcp) ==
    [tcp EXCEPT !.pocs =
        [k \in DOMAIN @ |->
            [@[k] EXCEPT !.lay1 = Lowest(@, tcp.numlayers),
                         !.res1 = Lowest(@, tcp.comps[1].numres),
                         !.comp1 = Lowest(@, Len(tcp.comps))]]]

\* compareCOC and compareQCC.
SameCOC(a, b) == a.csty = b.csty /\ SPcod(a) = SPcod(b)
\* Mutant: the steps are not compared.
SameGuardBits(a, b) == SQcd(a).s = SQcd(b).s
SameQCC(a, b) == SQcd(a).s = SQcd(b).s /\ a.steps = b.steps

\* Component numbers in order.
InOrder(S) == SetToSortSeq(S, <)

AllCOC(tcp) ==
    LET cs == InOrder({c \in 2 .. Len(tcp.comps) : ~SameCOC(tcp.comps[1], tcp.comps[c])})
    IN  [i \in DOMAIN cs |-> COC(tcp, cs[i])]
AllQCC(tcp) ==
    LET cs == InOrder({c \in 2 .. Len(tcp.comps) : ~SameQCC(tcp.comps[1], tcp.comps[c])})
    IN  [i \in DOMAIN cs |-> QCC(tcp, cs[i])]
Regions(tcp) ==
    LET cs == InOrder({c \in 1 .. Len(tcp.comps) : tcp.comps[c].roishift # 0})
    IN  [i \in DOMAIN cs |-> RGN(tcp, cs[i])]

\* The segments around the TLM marker: the parameters of tile 0 stand for all.
BeforeTLM(cp, img) ==
    LET tcp == cp.tcps[0]
    IN  <<[m |-> "SOC"], SIZ(cp, img), COD(tcp), QCD(tcp)>> \o AllCOC(tcp) \o AllQCC(tcp)
AfterTLM(cp) ==
    (IF cp.tlm /\ cp.rsiz = "cinema4K" THEN <<POC(cp.tcps[0])>> ELSE <<>>)
      \o Regions(cp.tcps[0]) \o <<COM>>

-------------------------------------------------------------------------------
(* Reading: the handlers, on the coding parameters of a tile or of all tiles *)

\* As readSIZ leaves them.
Fresh(siz) ==
    [csty |-> 0, prg |-> 0, numlayers |-> 0, mct |-> 0, pocs |-> <<>>,
     comps |-> [c \in DOMAIN siz.comps |->
        [csty |-> 0, numres |-> 0, cblkw |-> 0, cblkh |-> 0, cblksty |-> 0, qmfbid |-> 0,
         prc |-> <<>>, qntsty |-> 0, numgbits |-> 0, steps |-> <<>>, roishift |-> 0,
         dc |-> IF siz.comps[c][1] < 128 THEN 2 ^ siz.comps[c][1] ELSE 0]]]

BadSIZ(seg, ihdrW, inputLength) ==
    \/ Len(seg.comps) = 0
    \/ seg.w = 0 \/ seg.tdx = 0
    \/ ihdrW > 0 /\ ihdrW # seg.w
    \/ \E c \in DOMAIN seg.comps : (seg.comps[c][1] % 128) + 1 > 31 \/ seg.comps[c][2] = 0
    \/ CeilDiv(seg.w, seg.tdx) * Len(seg.comps) > 8 * inputLength

\* readSPCodSPCoc.
BadSP(sp, csty) ==
    \/ sp.levels + 1 > MaxRLvls
    \/ sp.w + 2 > 10 \/ sp.h + 2 > 10 \/ sp.w + sp.h + 4 > 12
    \/ sp.sty >= 128
    \/ sp.qmfbid > 1
    \/ Len(sp.prc) # IF HasPRT(csty) THEN sp.levels + 1 ELSE 0
    \/ \E r \in 2 .. Len(sp.prc) : sp.prc[r] = 0
WithSP(c, sp) ==
    [c EXCEPT !.numres = sp.levels + 1, !.cblkw = sp.w + 2, !.cblkh = sp.h + 2,
              !.cblksty = sp.sty, !.qmfbid = sp.qmfbid,
              !.prc = IF HasPRT(c.csty) THEN sp.prc ELSE [r \in 1 .. sp.levels + 1 |-> 15]]

\* readSQcdSQcc: steps that are not read stay as they were.
MaxBands == 3 * MaxRLvls - 2
StepRead(sq, b) ==
    IF sq.s % 32 = 0 THEN <<sq.steps[b] \div 8, 0>>
    ELSE <<sq.steps[b] \div 2048, sq.steps[b] % 2048>>
Derived(step, b) ==
    <<IF step[1] > (b - 2) \div 3 THEN step[1] - (b - 2) \div 3 ELSE 0, step[2]>>
WithSQ(c, sq) ==
    LET first == StepRead(sq, 1)
        n == Len(sq.steps)
    IN  [c EXCEPT !.qntsty = sq.s % 32, !.numgbits = sq.s \div 32,
                  !.steps = IF sq.s % 32 = 1
                              THEN [b \in 1 .. MaxBands |-> IF b = 1 THEN first ELSE Derived(first, b)]
                              ELSE [b \in 1 .. Lowest(n, MaxBands) |-> StepRead(sq, b)]
                                     \o SubSeq(@, n + 1, Len(@))]

BadCOD(seg) == seg.csty > 7 \/ seg.layers = 0 \/ seg.mct > 1 \/ BadSP(seg.sp, seg.csty)

\* Every component gets what the first one gets, also after a COC of its own.
AfterCOD(tcp, seg) ==
    [tcp EXCEPT !.csty = seg.csty, !.prg = IF seg.prg > 4 THEN -1 ELSE seg.prg,
                !.numlayers = seg.layers, !.mct = seg.mct,
                !.comps = [c \in DOMAIN @ |-> WithSP([@[c] EXCEPT !.csty = seg.csty % 2], seg.sp)]]

AfterQCD(tcp, seg) ==
    LET first == WithSQ(tcp.comps[1], seg.sq)
    IN  [tcp EXCEPT !.comps =
            [c \in DOMAIN @ |-> [@[c] EXCEPT !.qntsty = first.qntsty, !.numgbits = first.numgbits,
                                             !.steps = first.steps]]]

BadComp(tcp, seg) == seg.comp >= Len(tcp.comps)
BadCOC(tcp, seg) == BadComp(tcp, seg) \/ BadSP(seg.sp, seg.csty)
AfterCOC(tcp, seg) ==
    [tcp EXCEPT !.comps[seg.comp + 1] = WithSP([@ EXCEPT !.csty = seg.csty], seg.sp)]
AfterQCC(tcp, seg) == [tcp EXCEPT !.comps[seg.comp + 1] = WithSQ(@, seg.sq)]
AfterRGN(tcp, seg) == [tcp EXCEPT !.comps[seg.comp + 1].roishift = seg.shift]

\* Appended to those read before; the layers are clamped to the number known by now.
BadPOC(tcp, seg) == seg.recs = <<>> \/ Len(tcp.pocs) + Len(seg.recs) >= MaxPocs
AfterPOC(tcp, seg) ==
    [tcp EXCEPT !.pocs = @ \o
        [k \in DOMAIN seg.recs |->
            [seg.recs[k] EXCEPT !.lay1 = Lowest(@, tcp.numlayers),
                                !.comp1 = Lowest(@, Len(tcp.comps))]]]

-------------------------------------------------------------------------------
(* Packed packet headers: readPPM and mergePPM.  The pieces are joined in the *)
(* order of their numbers; the joined data is a list of tile-parts' headers,  *)
(* each after its length in 4 bytes.                                          *)

\* Joining byte by byte: "need" bytes of headers to come, "len" the bytes of a length.
Joined(st, byte) ==
    IF st.need > 0
      THEN [st EXCEPT !.need = @ - 1, !.out = Append(@, byte)]
      ELSE LET len == Append(st.len, byte)
           IN  IF Len(len) < 4
                 THEN [st EXCEPT !.len = len]
                 ELSE [st EXCEPT !.len = <<>>,
                                 !.need = ((len[1] * 256 + len[2]) * 256 + len[3]) * 256 + len[4]]

\* Mutant: a list does not go on in the next piece.
JoinPieceAfresh(st, piece) ==
    LET after == FoldLeft(Joined, [st EXCEPT !.need = 0], piece)
    IN  [after EXCEPT !.ok = st.ok /\ after.len = <<>>, !.len = <<>>]
\* A length may not be cut.
JoinPiece(st, piece) ==
    LET after == FoldLeft(Joined, st, piece)
    IN  [after EXCEPT !.ok = st.ok /\ after.len = <<>>, !.len = <<>>]

JoinAll(pieces) ==
    LET zs == InOrder(DOMAIN pieces)
        st == FoldLeft(JoinPiece, [need |-> 0, len |-> <<>>, out |-> <<>>, ok |-> TRUE],
                       [i \in DOMAIN zs |-> pieces[zs[i]]])
    IN  [st EXCEPT !.ok = @ /\ st.need = 0]

\* mergePPT: the headers of one tile, without lengths.
JoinPlain(pieces) ==
    LET zs == InOrder(DOMAIN pieces)
    IN  FlattenSeq([i \in DOMAIN zs |-> pieces[zs[i]]])

===============================================================================
