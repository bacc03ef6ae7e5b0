-------------------------------- MODULE JP2Boxes --------------------------------
(***************************************************************************)
(* The boxes of a JP2 file: what the encoder writes before the codestream   *)
(* (internal/jp2/encode.go), what the decoder makes of the boxes it knows   *)
(* (read.go, read_boxes.go), and what becomes of the decoded components     *)
(* with the palette and the channel definitions (color.go).                 *)
(*                                                                          *)
(* A file is a sequence of cells <<kind, value>>.  A box is a "len" cell,    *)
(* a "type" cell and its contents: one "box" cell with a record, or the     *)
(* boxes in it.  Lengths count cells; 0 is a box to the end of the file, 1   *)
(* one whose length follows in two "xl" cells.  An ICC profile is there or  *)
(* not.  Of a component is kept its precision and sign, the component of    *)
(* the codestream ("from") and the column of the palette (0: none) its      *)
(* samples come from, and its alpha tag.                                    *)
(***************************************************************************)
EXTENDS Integers, Sequences, FiniteSets

-------------------------------------------------------------------------------
(* Writing *)

Depth(c) == c.prec - 1 + 128 * c.sgnd
BPC(comps) == IF \A i \in DOMAIN comps : comps[i].prec = comps[1].prec THEN Depth(comps[1]) ELSE 255

EnumCS(img) ==
    IF img.icc THEN 0
    ELSE CASE img.space = "sRGB" -> 16 [] img.space = "gray" -> 17 [] img.space = "sYCC" -> 18
           [] img.space = "eYCC" -> 24 [] img.space = "CMYK" -> 12 [] OTHER -> 0

Alphas(comps) == {i \in DOMAIN comps : comps[i].alpha # 0}

ColorChannels(enumcs) == CASE enumcs \in {16, 18} -> 3 [] enumcs = 17 -> 1 [] OTHER -> 0

\* Made up for exactly one alpha channel, behind the colour channels of a known space.
HasCdef(img) ==
    LET n == ColorChannels(EnumCS(img))
    IN  /\ Cardinality(Alphas(img.comps)) = 1
        /\ n > 0
        /\ \A i \in Alphas(img.comps) : i > n

\* Mutant: the channels after the colour ones are all opacity.
CdefOpacity(img) ==
    [i \in DOMAIN img.comps |->
        IF i <= ColorChannels(EnumCS(img)) THEN [cn |-> i - 1, typ |-> 0, asoc |-> i]
        ELSE [cn |-> i - 1, typ |-> 1, asoc |-> 0]]

Cdef(img) ==
    [i \in DOMAIN img.comps |->
        IF i <= ColorChannels(EnumCS(img)) THEN [cn |-> i - 1, typ |-> 0, asoc |-> i]
        ELSE IF img.comps[i].alpha # 0 THEN [cn |-> i - 1, typ |-> 1, asoc |-> 0]
        ELSE [cn |-> i - 1, typ |-> 65535, asoc |-> 65535]]

BoxOf(b, r) == <<<<"len", 3>>, <<"type", b>>, <<"box", r>>>>

Ihdr(img) ==
    BoxOf("ihdr", [short |-> FALSE, w |-> img.w, nc |-> Len(img.comps), bpc |-> BPC(img.comps)])
Bpcc(img) == BoxOf("bpcc", [short |-> FALSE, bpcs |-> [i \in DOMAIN img.comps |-> Depth(img.comps[i])]])
Colr(img) ==
    BoxOf("colr", [short |-> FALSE, meth |-> IF img.icc THEN 2 ELSE 1, enumcs |-> EnumCS(img)])

HeaderBoxes(img) ==
    <<Ihdr(img)>>
      \o (IF BPC(img.comps) = 255 THEN <<Bpcc(img)>> ELSE <<>>)
      \o <<Colr(img)>>
      \o (IF HasCdef(img) THEN <<BoxOf("cdef", [short |-> FALSE, defs |-> Cdef(img)])>> ELSE <<>>)

\* One sequence for each call of Write.
Boxes(img) ==
    <<BoxOf("jP", [short |-> FALSE]), BoxOf("ftyp", [short |-> FALSE]),
      <<<<"len", 2 + 3 * Len(HeaderBoxes(img))>>, <<"type", "jp2h">>>>>>
      \o HeaderBoxes(img)

\* defaultValidation.
TooDeep(img) == \E i \in DOMAIN img.comps : Depth(img.comps[i]) % 128 >= 38

-------------------------------------------------------------------------------
(* Reading: the handlers of the boxes of jp2h, on the state of the reader *)

ImgTypes == {"ihdr", "colr", "bpcc", "pclr", "cmap", "cdef"}

NewJP2 ==
    [flags |-> {}, w |-> 0, nc |-> 0, bpc |-> 0, bpcs |-> <<>>,
     colr |-> FALSE, enumcs |-> 0, icc |-> FALSE, entries |-> 0, cols |-> <<>>, cmap |-> <<>>,
     cdef |-> <<>>]

\* A second ihdr is ignored, and every colr after the first.
BadImgBox(j, type, r) ==
    CASE type = "ihdr" -> j.nc = 0 /\ (r.short \/ r.w < 1 \/ r.nc \notin 1 .. 16384)
      [] type = "bpcc" -> r.short \/ Len(r.bpcs) # j.nc
      [] type = "colr" -> r.short
      [] type = "pclr" -> j.cols # <<>> \/ r.short \/ r.entries \notin 1 .. 1024 \/ r.cols = <<>>
      [] type = "cmap" -> j.cols = <<>> \/ j.cmap # <<>> \/ Len(r.maps) < Len(j.cols)
      [] type = "cdef" -> j.cdef # <<>> \/ r.short \/ r.defs = <<>>

AfterImgBox(j, type, r) ==
    CASE type = "ihdr" ->
           IF j.nc # 0 THEN j
           ELSE [j EXCEPT !.w = r.w, !.nc = r.nc, !.bpc = r.bpc,
                          !.bpcs = [i \in 1 .. r.nc |-> 0]]
      [] type = "bpcc" -> [j EXCEPT !.bpcs = r.bpcs]
      [] type = "colr" ->
           IF j.colr \/ r.meth > 2 THEN j
           ELSE [j EXCEPT !.colr = r.meth # 0, !.icc = r.meth = 2,
                          !.enumcs = IF r.meth = 1 THEN r.enumcs ELSE @]
      [] type = "pclr" -> [j EXCEPT !.entries = r.entries, !.cols = r.cols]
      [] type = "cmap" -> [j EXCEPT !.cmap = SubSeq(r.maps, 1, Len(j.cols))]
      [] type = "cdef" -> [j EXCEPT !.cdef = r.defs]

-------------------------------------------------------------------------------
(* Colour: checkColor, applyPclr and applyCdef *)

Mapped(j) == j.cols # <<>> /\ j.cmap # <<>>

BadCdef(j, comps) ==
    LET n == IF Mapped(j) THEN Len(j.cols) ELSE Len(comps)
    IN  /\ j.cdef # <<>>
        /\ \/ \E i \in DOMAIN j.cdef :
                 \/ j.cdef[i].cn >= n
                 \/ j.cdef[i].asoc # 65535 /\ j.cdef[i].asoc > n
           \/ \E cn \in 0 .. n - 1 : \A i \in DOMAIN j.cdef : j.cdef[i].cn # cn

BadCmap(j, comps) ==
    /\ Mapped(j)
    /\ \E i \in DOMAIN j.cmap :
           \/ j.cmap[i].cmp >= Len(comps)
           \/ j.cmap[i].mtyp \notin {0, 1}
           \/ j.cmap[i].pcol # IF j.cmap[i].mtyp = 0 THEN 0 ELSE i - 1

\* With one component, a channel behind the first that uses it directly is taken for an error.
Corrected(j, comps) ==
    IF Len(comps) = 1 /\ \E i \in 2 .. Len(j.cmap) : j.cmap[i].mtyp = 0
      THEN [i \in DOMAIN j.cmap |-> [j.cmap[i] EXCEPT !.mtyp = 1, !.pcol = i - 1]]
      ELSE j.cmap

AfterPclr(j, comps) ==
    IF ~Mapped(j) THEN comps
    ELSE LET cmap == Corrected(j, comps)
         IN  [i \in DOMAIN cmap |->
                [comps[cmap[i].cmp + 1] EXCEPT
                    !.prec = j.cols[i].size, !.sgnd = j.cols[i].sgnd,
                    !.col = IF cmap[i].mtyp = 0 THEN 0 ELSE cmap[i].pcol + 1]]

\* Channels a and b change places in the definitions that are still to come.
Renamed(defs, i, a, b) ==
    [j \in DOMAIN defs |->
        IF j <= i THEN defs[j]
        ELSE [defs[j] EXCEPT !.cn = IF @ = a THEN b ELSE IF @ = b THEN a ELSE @]]

\* Mutant: the definitions still to come name the channels as they were.
CdefStepStale(st, i) ==
    LET d == st.defs[i]
        cn == d.cn + 1
    IN  IF cn > Len(st.comps) THEN st
        ELSE IF d.asoc \in {0, 65535} THEN [st EXCEPT !.comps[cn].alpha = d.typ]
        ELSE IF d.asoc > Len(st.comps) THEN st
        ELSE IF cn # d.asoc /\ d.typ = 0
          THEN [st EXCEPT !.comps = [st.comps EXCEPT ![cn] = [st.comps[d.asoc] EXCEPT !.alpha = d.typ],
                                                     ![d.asoc] = st.comps[cn]]]
          ELSE [st EXCEPT !.comps[cn].alpha = d.typ]

\* The definition with number i: the tag goes to the place the channel had, whatever has
\* come to stand there.
CdefStep(st, i) ==
    LET d == st.defs[i]
        cn == d.cn + 1
    IN  IF cn > Len(st.comps) THEN st
        ELSE IF d.asoc \in {0, 65535} THEN [st EXCEPT !.comps[cn].alpha = d.typ]
        ELSE IF d.asoc > Len(st.comps) THEN st
        ELSE IF cn # d.asoc /\ d.typ = 0
          THEN [comps |-> [st.comps EXCEPT ![cn] = [st.comps[d.asoc] EXCEPT !.alpha = d.typ],
                                           ![d.asoc] = st.comps[cn]],
                defs |-> Renamed(st.defs, i, d.cn, d.asoc - 1)]
          ELSE [st EXCEPT !.comps[cn].alpha = d.typ]

AfterCdef(j, comps) ==
    LET step[i \in 0 .. Len(j.cdef)] ==
            IF i = 0 THEN [comps |-> comps, defs |-> j.cdef] ELSE CdefStep(step[i - 1], i)
    IN  step[Len(j.cdef)].comps

===============================================================================
