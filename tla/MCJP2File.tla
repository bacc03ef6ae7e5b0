-------------------------------- MODULE MCJP2File --------------------------------
(***************************************************************************)
(* Images and requests that between them reach every step of the encoder,   *)
(* each with few packets, and files of other encoders: for each step of the *)
(* decoder one it accepts, and for each check one it refuses.               *)
(***************************************************************************)
EXTENDS JP2File

MCZero == <<"zero", 0>>
MCMaxRLvls == 33
MCMaxLayers == 100
MCMaxPocs == 32
MCMaxTLM == 10921
MCStepTable ==
    LET highLow == <<4051, 2053, 980, 480>>
    IN  <<<<8192, 4168, 1961, 974>>, highLow, highLow, <<3938, 2119, 986, 476>>>>

-------------------------------------------------------------------------------
(* Encoding *)

Plane(prec, sgnd, alpha) == [prec |-> prec, sgnd |-> sgnd, dx |-> 1, alpha |-> alpha]
Byte == Plane(8, 0, 0)
Image(planes, space) == [w |-> 4, precincts |-> 1, comps |-> planes, space |-> space, icc |-> FALSE]

Plain ==
    [tdx |-> 0, numlayers |-> 1, numres |-> 2, csty |-> 0, prg |-> 0, irreversible |-> FALSE,
     mct |-> 0, mode |-> 0, roi |-> <<-1, 0>>, prcs |-> <<>>, pocs |-> <<>>, tp |-> "off",
     rsiz |-> "none", tlm |-> FALSE, plt |-> FALSE, gbits |-> -1, cblkw |-> 6, cblkh |-> 6]

Poc(t, res0, lay1, res1, prg) ==
    [tile |-> t, res0 |-> res0, comp0 |-> 0, lay1 |-> lay1, res1 |-> res1, comp1 |-> 9, prg |-> prg]

Encode(img, u, isJP2, memory, lens) ==
    [kind |-> "encode", img |-> img, u |-> u, jp2 |-> isJP2, reliable |-> memory, lens |-> lens,
     strict |-> TRUE, subset |-> FALSE]

Gray == Image(<<Byte>>, "gray")
RGBA == Image(<<Byte, Byte, Byte, Plane(8, 0, 2)>>, "sRGB")
Film(prec) == [Image(<<Plane(prec, 0, 0), Plane(prec, 0, 0), Plane(prec, 0, 0)>>, "sRGB") EXCEPT !.w = 16]
Two == {<<1>>, <<2, 1>>}
\* Precincts given for three resolutions or fewer; one progression change for each of n layers.
Cut(prcs, numres) == Encode(Gray, [Plain EXCEPT !.csty = 1, !.prcs = prcs, !.numres = numres], FALSE, TRUE, {<<1>>})
Changed(n) ==
    Encode(Gray, [Plain EXCEPT !.numlayers = n, !.pocs = [k \in 1 .. n |-> Poc(1, 0, k, 2, 0)]],
           FALSE, TRUE, {<<1, 1>>})
One == {<<1>>}

\* Each progression order, with each division into tile-parts, of one or two tiles.
DividedJobs ==
    {Encode(Image(<<Byte, Byte>>, "none"),
            [Plain EXCEPT !.prg = prg, !.tp = tp, !.tdx = tdx, !.numlayers = 2, !.tlm = TRUE, !.plt = TRUE],
            FALSE, TRUE, One) :
        prg \in 0 .. 4, tp \in {"off", "R", "L", "C"}, tdx \in {0, 2}}

EncodeJobs == DividedJobs \union
    { \* every length marker, two tile-parts for the resolutions
      Encode(RGBA, [Plain EXCEPT !.mct = 1, !.prg = 1, !.tp = "R", !.tlm = TRUE, !.plt = TRUE,
                                 !.numlayers = 2], TRUE, TRUE, Two),
      \* two tiles, components of different depths, a region of interest
      Encode(Image(<<Byte, Plane(12, 1, 0)>>, "none"),
             [Plain EXCEPT !.tdx = 2, !.irreversible = TRUE, !.roi = <<1, 3>>, !.tlm = TRUE,
                           !.gbits = 3, !.mode = 9], FALSE, TRUE, Two),
      Encode([Image(<<Byte, Plane(12, 1, 0), Plane(8, 1, 1)>>, "gray") EXCEPT !.icc = TRUE],
             [Plain EXCEPT !.tdx = 2, !.numlayers = 0, !.plt = TRUE], TRUE, TRUE, Two),
      \* alpha behind a channel of no colour
      Encode(Image(<<Byte, Byte, Plane(8, 0, 1)>>, "gray"), Plain, TRUE, TRUE, One),
      \* progression changes, of the second tile only, and with bounds beyond the tile's
      Encode(Gray, [Plain EXCEPT !.tdx = 2, !.pocs = <<Poc(2, 0, 1, 1, 0), Poc(2, 1, 1, 2, 4)>>,
                                 !.tlm = TRUE], FALSE, TRUE, Two),
      Encode(Gray, [Plain EXCEPT !.pocs = <<Poc(1, 0, 2, 1, 0), Poc(1, 0, 3, 9, 2)>>, !.numlayers = 2,
                                 !.tp = "L", !.tlm = TRUE, !.plt = TRUE], TRUE, TRUE, One),
      \* precincts, all flags of Scod
      Encode(Gray, [Plain EXCEPT !.csty = 7, !.prcs = <<5>>, !.numres = 3], TRUE, TRUE, One),
      Encode(Image(<<Byte, Byte, Byte>>, "sYCC"),
             [Plain EXCEPT !.csty = 1, !.prcs = <<7, 8>>, !.tp = "C", !.prg = 4], FALSE, TRUE, One),
      \* sizes down to one sample and below, at the lowest resolution and above it
      Cut(<<1>>, 2), Cut(<<2>>, 3), Cut(<<1>>, 3), Cut(<<3, 0>>, 2), Cut(<<3, 0>>, 3), Cut(<<-1>>, 3),
      \* one change less than the most, and the most; styles of code-blocks the decoder has, and not
      Changed(31), Changed(32),
      Encode(Gray, [Plain EXCEPT !.mode = 63], FALSE, TRUE, One),
      Encode(Gray, [Plain EXCEPT !.mode = 128], FALSE, TRUE, One),
      \* the cinema profiles, and one that the image does not fit
      Encode(Film(12), [Plain EXCEPT !.rsiz = "cinema2K", !.numres = 4], FALSE, TRUE, One),
      Encode(Film(12), [Plain EXCEPT !.rsiz = "cinema4K", !.numres = 3], TRUE, TRUE, One),
      Encode(Film(8), [Plain EXCEPT !.rsiz = "cinema4K", !.numres = 3], TRUE, TRUE, One),
      \* a medium that takes a part, or fails
      Encode(Gray, [Plain EXCEPT !.tlm = TRUE], TRUE, FALSE, One),
      \* refused
      Encode(Gray, [Plain EXCEPT !.prg = 5], TRUE, TRUE, One),
      Encode(Gray, [Plain EXCEPT !.numres = 4], TRUE, TRUE, One),
      Encode(Gray, [Plain EXCEPT !.numlayers = 101], TRUE, TRUE, One),
      Encode(Image([c \in 1 .. 37 |-> Byte], "none"),
             [Plain EXCEPT !.numlayers = 100, !.numres = 3, !.tp = "C", !.tlm = TRUE], FALSE, TRUE, One)}

-------------------------------------------------------------------------------
(* Reading: a codestream of the given main header and tile-parts *)

Comp8 == <<7, 1>>
Siz(n, tdx) == [m |-> "SIZ", rsiz |-> "none", w |-> 4, tdx |-> tdx, comps |-> [c \in 1 .. n |-> Comp8]]
Sp == [levels |-> 1, w |-> 4, h |-> 4, sty |-> 0, qmfbid |-> 1, prc |-> <<>>]
Cod == [m |-> "COD", csty |-> 0, prg |-> 0, layers |-> 2, mct |-> 0, sp |-> Sp]
Coc(c) == [m |-> "COC", comp |-> c, csty |-> 1, sp |-> [Sp EXCEPT !.prc = <<7, 8>>]]
Sq(s) == [s |-> s, steps |-> IF s % 32 = 1 THEN <<30000>> ELSE <<64, 72, 72, 80>>]
Qcd == [m |-> "QCD", sq |-> Sq(64)]
Qcc(c) == [m |-> "QCC", comp |-> c, sq |-> Sq(65)]
Rgn(c) == [m |-> "RGN", comp |-> c, shift |-> 5]
PocSeg(n) == [m |-> "POC", recs |-> [k \in 1 .. n |-> [Poc(1, 0, 9, 9, 0) EXCEPT !.tile = 0]]]
Piece(m, z, bytes) == [m |-> m, z |-> z, bytes |-> bytes]
Mark(m) == [m |-> m]

Part(t, tp, tn, header, n) ==
    <<<<"SOT", t>>, <<"Psot", 4 + Len(header) + n>>, <<"TP", <<tp, tn>>>>>>
      \o header \o <<<<"SOD", t>>>> \o [k \in 1 .. n |-> <<"data", <<t, tp, k>>>>]
Segs(segs) == [i \in DOMAIN segs |-> <<"seg", segs[i]>>]
Stream(segs, parts) == Segs(<<Mark("SOC")>> \o segs) \o FlattenSeq(parts) \o <<<<"EOC", 0>>>>

Read(cells, isJP2) ==
    [kind |-> "read", cells |-> cells, jp2 |-> isJP2, reliable |-> TRUE, strict |-> TRUE,
     subset |-> FALSE, headers |-> <<>>, cutsFit |-> TRUE, ppt |-> <<>>, defs |-> <<>>, cmap |-> <<>>]

OnePart == <<Part(0, 0, 1, <<>>, 1)>>
Main(segs) == Read(Stream(segs, OnePart), FALSE)
Before == <<Siz(2, 4), Cod, Qcd>>
After(segs) == Main(Before \o segs)

\* Interleaved tile-parts, with markers in their headers.
TileHeaders(header) ==
    Read(Stream(<<Siz(2, 2), Cod, Qcd, Coc(1)>>,
                <<Part(1, 0, 0, Segs(header), 1), Part(0, 0, 1, <<>>, 1), Part(1, 1, 2, <<>>, 2)>>), FALSE)

MainJobs ==
    {Main(<<Cod, Siz(1, 4)>>), Main(<<Mark("UNK"), Siz(1, 4), Cod, Qcd>>),
     Main(<<Mark("UNK"), Mark("UNK"), Siz(1, 4), Cod, Qcd>>), Main(<<Siz(1, 4), Qcd>>),
     Main(<<Siz(1, 4), Cod>>), Main(<<Siz(0, 4)>>), Main(<<Siz(1, 0)>>),
     Main(<<[Siz(1, 1) EXCEPT !.w = 999]>>), Main(<<[Siz(1, 4) EXCEPT !.comps[1] = <<31, 1>>]>>),
     After(<<Mark("UNK"), Mark("COM")>>), After(<<Mark("PLT")>>), After(<<Cod>>),
     [After(<<Cod>>) EXCEPT !.strict = FALSE],
     After(<<Coc(1), Qcc(1), Rgn(1), PocSeg(2), PocSeg(1)>>), After(<<PocSeg(0)>>), After(<<PocSeg(32)>>),
     After(<<Coc(2)>>), After(<<Qcc(2)>>), After(<<Rgn(2)>>),
     Read(<<<<"seg", Mark("SOC")>>, <<"seg", Siz(1, 4)>>>>, FALSE), Read(<<<<"EOC", 0>>>>, FALSE),
     Read(Stream(Before, <<>>), FALSE), Read(Stream(Before, <<Part(1, 0, 1, <<>>, 1)>>), FALSE),
     Read(Stream(Before, <<Part(0, 1, 2, <<>>, 1)>>), FALSE),
     Read(Stream(Before, <<Part(0, 0, 1, <<>>, 0)>>), FALSE),
     Read(Segs(<<Mark("SOC")>> \o Before) \o Part(0, 0, 1, <<>>, 1), FALSE),
     Read(Stream(Before, <<Part(0, 0, 1, <<>>, 1), Part(0, 1, 2, <<>>, 1)>>), FALSE),
     TileHeaders(<<>>), TileHeaders(<<Cod, Qcd, Coc(0), Qcc(0), Rgn(0), PocSeg(1), Mark("COM")>>),
     [TileHeaders(<<Piece("PPT", 3, <<1, 2>>), Piece("PPT", 0, <<3>>)>>) EXCEPT !.ppt = <<3, 1, 2>>],
     TileHeaders(<<Piece("PPT", 3, <<1>>), Piece("PPT", 3, <<3>>)>>), TileHeaders(<<Mark("UNK")>>),
     TileHeaders(<<[Cod EXCEPT !.layers = 0]>>)}

\* Packed headers of two tile-parts, cut in two places, the pieces in either order.
Length(n) == <<0, 0, 0, n>>
Packed(cut1, cut2, swapped) ==
    LET bytes == Length(2) \o <<11, 12>> \o Length(1) \o <<13>>
        pieces == <<Piece("PPM", 1, SubSeq(bytes, 1, cut1)), Piece("PPM", 4, SubSeq(bytes, cut1 + 1, cut2)),
                    Piece("PPM", 7, SubSeq(bytes, cut2 + 1, 11))>>
    IN  [After(IF swapped THEN <<pieces[3], pieces[1], pieces[2]>> ELSE pieces) EXCEPT
            !.headers = <<<<11, 12>>, <<13>>>>,
            !.cutsFit = {cut1, cut2} \intersect {1, 2, 3, 7, 8, 9} = {}]
PackedJobs ==
    {Packed(cut1, cut2, swapped) : cut1 \in 1 .. 4, cut2 \in 5 .. 10, swapped \in BOOLEAN}
      \union {After(<<Piece("PPM", 0, Length(1)), Piece("PPM", 0, <<1>>)>>),
              After(<<Piece("PPM", 0, Length(1))>>),
              Read(Stream(<<Siz(2, 4), Cod, Qcd, Piece("PPM", 0, Length(1) \o <<5>>)>>,
                          <<Part(0, 0, 1, Segs(<<Piece("PPT", 0, <<1>>)>>), 1)>>), FALSE)}

-------------------------------------------------------------------------------
(* Reading: boxes *)

Super(boxes) == <<<<"len", 2 + Len(FlattenSeq(boxes))>>, <<"type", "jp2h">>>> \o FlattenSeq(boxes)
Box(type) == BoxOf(type, [short |-> FALSE])
IhdrBox(n) == BoxOf("ihdr", [short |-> FALSE, w |-> 4, nc |-> n, bpc |-> 7])
ColrBox(meth) == BoxOf("colr", [short |-> FALSE, meth |-> meth, enumcs |-> 16])
CdefBox(defs) == BoxOf("cdef", [short |-> FALSE, defs |-> defs])
PclrBox(n) == BoxOf("pclr", [short |-> FALSE, entries |-> 2, cols |-> [c \in 1 .. n |-> [size |-> 8, sgnd |-> 0]]])
CmapBox(maps) == BoxOf("cmap", [maps |-> maps])
Map(cmp, mtyp, pcol) == [cmp |-> cmp, mtyp |-> mtyp, pcol |-> pcol]
Def(cn, typ, asoc) == [cn |-> cn, typ |-> typ, asoc |-> asoc]
Short(type) == BoxOf(type, [short |-> TRUE, bpcs |-> <<>>, defs |-> <<>>, cols |-> <<>>, entries |-> 1])
XLBox(type, hi, length) == <<<<"len", 1>>, <<"type", type>>, <<"xl", hi>>, <<"xl", length>>>>

Signed == Box("jP") \o Box("ftyp")
Contents(n) == Stream(<<Siz(n, 4), Cod, Qcd>>, OnePart)
Code(n) == <<<<"len", 2 + Len(Contents(n))>>, <<"type", "jp2c">>>> \o Contents(n)
File(n, boxes, between, behind) == Read(Signed \o Super(boxes) \o between \o Code(n) \o behind, TRUE)
Simple(n, boxes) == File(n, <<IhdrBox(n)>> \o boxes, <<>>, <<>>)

Defined(n, defs) == [Simple(n, <<ColrBox(1), CdefBox(defs)>>) EXCEPT !.defs = defs]
Painted(defs, maps) ==
    [Simple(1, <<PclrBox(3), CmapBox(maps)>> \o (IF defs = <<>> THEN <<>> ELSE <<CdefBox(defs)>>)) EXCEPT
        !.defs = defs, !.cmap = maps]

Orders == {<<1, 2, 3>>, <<1, 3, 2>>, <<2, 1, 3>>, <<2, 3, 1>>, <<3, 1, 2>>, <<3, 2, 1>>}
Palette == <<Map(0, 1, 0), Map(0, 1, 1), Map(0, 1, 2)>>
Direct == <<Map(0, 1, 0), Map(0, 0, 0), Map(0, 1, 2)>>
ColorJobs ==
    {Defined(3, [i \in 1 .. 3 |-> Def(i - 1, 0, o[i])]) : o \in Orders}
      \union {Painted([i \in 1 .. 3 |-> Def(i - 1, 0, o[i])], Palette) : o \in Orders}
      \union {Defined(4, <<Def(3, 1, 0), Def(2, 0, 1), Def(1, 0, 2), Def(0, 0, 3)>>),
              Defined(3, <<Def(0, 0, 1), Def(1, 0, 4), Def(2, 0, 3)>>),
              Defined(2, <<Def(0, 0, 1), Def(2, 0, 2)>>), Defined(2, <<Def(0, 0, 1)>>),
              [Defined(2, <<Def(1, 0, 1), Def(0, 65535, 65535)>>) EXCEPT !.subset = TRUE],
              Painted(<<>>, Direct), Painted(<<>>, <<Map(1, 1, 0), Map(0, 1, 1), Map(0, 1, 2)>>),
              Painted(<<>>, <<Map(0, 1, 0), Map(0, 1, 2), Map(0, 1, 1)>>)}

BoxJobs ==
    {Simple(1, <<ColrBox(0), ColrBox(3), ColrBox(2), ColrBox(1), IhdrBox(2), Box("res ")>>),
     Simple(2, <<BoxOf("bpcc", [short |-> FALSE, bpcs |-> <<7, 7>>])>>), Simple(1, <<PclrBox(2)>>),
     Simple(1, <<PclrBox(2), PclrBox(2)>>), Simple(1, <<CmapBox(Palette)>>),
     Simple(1, <<PclrBox(3), CmapBox(Palette), CmapBox(Palette)>>),
     Simple(1, <<PclrBox(3), CmapBox(<<>>)>>), Simple(1, <<CdefBox(<<Def(0, 0, 1)>>), CdefBox(<<>>)>>),
     Simple(1, <<XLBox("colr", 0, 5) \o <<ColrBox(1)[3]>>>>), Simple(1, <<XLBox("colr", 1, 5)>>),
     Simple(1, <<XLBox("colr", 0, 3)>>), Simple(1, <<<<<<"len", 0>>, <<"type", "colr">>>>>>),
     Simple(1, <<<<<<"len", 99>>, <<"type", "colr">>>>>>), Simple(1, <<<<<<"len", 99>>>>>>),
     File(1, <<ColrBox(1)>>, <<>>, <<>>),
     File(1, <<IhdrBox(1)>>, ColrBox(1) \o Box("uuid") \o Super(<<IhdrBox(1)>>), Box("xml ") \o ColrBox(1)),
     File(1, <<IhdrBox(1)>>, Short("colr"), <<>>), File(1, <<IhdrBox(1)>>, Box("jP"), <<>>),
     File(1, <<IhdrBox(1)>>, <<>>, <<<<"len", 99>>, <<"type", "xml ">>, <<"box", 0>>>>),
     File(1, <<IhdrBox(1)>>, <<>>, <<<<"len", 0>>, <<"type", "xml ">>, <<"box", 0>>>>),
     File(1, <<IhdrBox(1)>>, <<>>, Code(1)), File(1, <<IhdrBox(1)>>, XLBox("xml ", 0, 0), <<>>),
     File(1, <<IhdrBox(1)>>, <<<<"len", 99>>, <<"type", "colr">>, <<"box", 0>>>>, <<>>),
     File(2, <<[IhdrBox(2) EXCEPT ![3] = <<"box", [short |-> FALSE, w |-> 5, nc |-> 2, bpc |-> 7]>>]>>, <<>>, <<>>),
     Read(Box("xml ") \o Signed, TRUE), Read(Box("jP") \o Box("xml "), TRUE), Read(Box("ftyp"), TRUE),
     Read(Short("jP"), TRUE), Read(Signed \o CdefBox(<<Def(0, 0, 1)>>) \o Super(<<IhdrBox(1)>>) \o Code(1), TRUE),
     Read(Box("jP") \o ColrBox(1) \o Box("ftyp"), TRUE), Read(Box("jP") \o Super(<<IhdrBox(1)>>), TRUE),
     Read(Signed \o Code(1), TRUE), Read(Signed, TRUE), Read(Signed \o Super(<<IhdrBox(1)>>), TRUE)}
      \union {Simple(1, <<Short(type)>>) : type \in {"bpcc", "colr", "pclr", "cdef"}}
      \union {File(1, <<Short("ihdr")>>, <<>>, <<>>)}

MCJobs == EncodeJobs \union MainJobs \union PackedJobs \union ColorJobs \union BoxJobs

===============================================================================
