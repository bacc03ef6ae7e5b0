--------------------------------- MODULE JP2File ---------------------------------
(***************************************************************************)
(* A file written by the encoder (FileWriter) and read by the decoder       *)
(* (FileReader), or a file of some other encoder read.                      *)
(***************************************************************************)
EXTENDS FileWriter, FileReader

vars == <<streamVars, writerVars, readerVars>>

\* A job is [kind |-> "encode"] with an image and a request, a medium that is memWriter or
\* any other, and the lists of packet lengths a tile-part may have; or [kind |-> "read"] with
\* the cells of a file.
Init ==
    /\ WriterInit
    /\ ReaderInit(IF job.kind = "read" THEN job.cells ELSE <<>>,
                         [jp2 |-> job.jp2, strict |-> job.strict, subset |-> job.subset],
                         job.kind = "encode")

\* The file is read once it is complete.
Open ==
    /\ pc = "done" /\ phase = "idle"
    /\ input' = data
    /\ phase' = IF opt.jp2 THEN "boxes" ELSE "soc"
    /\ UNCHANGED <<streamVars, writerVars, opt, at, jp2, limit, cs, comps>>

\* Nothing is left to do.
Finished ==
    /\ \/ pc \in {"failed", "refused"}
       \/ phase \in {"done", "refused"}
    /\ UNCHANGED vars

Next ==
    \/ WriterNext /\ UNCHANGED readerVars
    \/ Open
    \/ ReaderNext /\ UNCHANGED <<streamVars, writerVars>>
    \/ Finished

Spec == Init /\ [][Next]_vars

-------------------------------------------------------------------------------
(* Written and read *)

Written == pc = "done"

Cells(kind) == {i \in DOMAIN data : data[i][1] = kind}
PartsInOrder == SelectSeq([i \in DOMAIN data |-> i], LAMBDA i : data[i][1] = "SOT")

\* No progression change names bounds beyond the tile's own: those are counted before they
\* are clamped (j2k_encode_write.go: calculateTP, writePOCInMemory), so tile-parts are announced
\* that are never written.
BoundsInRange ==
    \A k \in DOMAIN job.u.pocs :
        /\ job.u.pocs[k].lay1 <= cp.tcps[0].numlayers
        /\ job.u.pocs[k].res1 <= cp.tcps[0].comps[1].numres

\* Every length in a complete file is right, those that were patched too (jp2/encode.go: writeJp2c;
\* j2k_encode_tile.go: Psot in writeFirstTilePart and writeAllTileParts, updateTLM and
\* writeUpdatedTLM, PLT in writeSOD): the box of the codestream reaches to the end of the file,
\* Psot of a tile-part to the next one or to EOC, the TLM entries are those of the tile-parts in
\* their order and zero behind them, a PLT marker segment gives the bytes behind its SOD.
LengthsTell ==
    Written =>
        /\ job.jp2 => data[jp2cAt + 1] = <<"len", Len(data) - jp2cAt>> /\ data[jp2cAt + 2] = <<"type", "jp2c">>
        /\ Len(data) \in Cells("EOC")
        /\ \A k \in DOMAIN PartsInOrder :
               LET i == PartsInOrder[k]
               IN  i + data[i + 1][2] = IF k < Len(PartsInOrder) THEN PartsInOrder[k + 1] ELSE Len(data)
        /\ \A j \in Cells("TLM") :
               \A k \in 1 .. data[j][2] :
                   data[j + k] =
                       IF k > Len(PartsInOrder) THEN Zero
                       ELSE LET i == PartsInOrder[k] IN <<"Ttlm", <<data[i][2], data[i + 1][2]>>>>
        /\ cp.tlm => \E j \in Cells("TLM") : data[j][2] >= Len(PartsInOrder)
        /\ \A i \in Cells("PLT") :
               FoldLeft(+, 0, data[i][2]) =
                   Cardinality({j \in Cells("data") : data[j][2][1] = data[i + 1][2]
                                   /\ i + 1 < j /\ \A n \in Cells("SOT") : ~(i < n /\ n < j)})

\* TNsot is the number of tile-parts a tile has, for bounds in range
\* (j2k_encode_tile.go: writeSOT writes MNbTileParts).
PartsAnnounced ==
    Written /\ BoundsInRange =>
        \A i \in Cells("SOT") :
            data[i + 2][2][2] = Cardinality({j \in Cells("SOT") : data[j][2] = data[i][2]}) % 256

\* The request after the cinema profile and the default of one layer.
Asked == Coerced(job.u, job.img)

\* A precinct of one sample above the lowest resolution, as it was given or as the last size given
\* comes to when it is halved: the decoder has no exponent 0 there (markers.go: readSPCodSPCoc).
PrecinctOfOneSample ==
    LET sizes == Asked.prcs
        n == Len(sizes)
    IN  /\ HasPRT(Asked.csty)
        /\ \/ \E k \in 1 .. n : k < Asked.numres /\ sizes[k] = 0
           \/ sizes[n] >= 0 /\ n + sizes[n] < Asked.numres

\* As many progression changes of one tile as the array holds: the encoder takes them, for the
\* decoder they are one too many (j2k_encode.go:183; markers.go: readPOC).
AllChangesInOneTile ==
    \E t \in DOMAIN cp.tcps : Cardinality({k \in DOMAIN Asked.pocs : Asked.pocs[k].tile = t + 1}) = MaxPocs

\* The style of code-blocks that the decoder does not support; the encoder takes any number.
MixedStyle == Asked.mode >= 128

\* TNsot has one byte, and 256 comes out as 0, which leaves the number open.
CountsFit == \A t \in DOMAIN announced : announced[t] <= 256


\* What the decoder knows of the coding parameters of a tile: bounds of progression changes are
\* compared where both clamp them.
Bounded(poc, tcp) == [poc EXCEPT !.res1 = Lowest(@, tcp.comps[1].numres)]
AsRead(tcp) == [tcp EXCEPT !.pocs = [k \in DOMAIN @ |-> Bounded(@[k], tcp)]]

\* The tiles' parameters and the components that the decoder ends up with are those the encoder
\* used, marker segments left out because they would repeat the first component's and clamped
\* bounds notwithstanding; and each tile's packets are read, all of them and in order.
ReadsBack ==
    Written /\ phase = "done" =>
        /\ at = Len(data) + 1
        /\ \A t \in DOMAIN cp.tcps : AsRead(cs.tcps[t]) = AsRead(Clamped(cp.tcps[t]))
        /\ \A i \in DOMAIN job.img.comps :
               /\ comps[i].prec = job.img.comps[i].prec
               /\ comps[i].sgnd = job.img.comps[i].sgnd
               /\ comps[i].from = i
               /\ job.jp2 /\ ~opt.subset /\ HasCdef(job.img) =>
                      (comps[i].alpha = 1 <=> job.img.comps[i].alpha # 0)
        /\ job.jp2 => /\ jp2.enumcs = EnumCS(job.img)
                      /\ jp2.icc = job.img.icc
        /\ \A t \in DOMAIN cp.tcps :
               cs.packets[t] = SelectSeq(data, LAMBDA c : c[1] = "data" /\ c[2][1] = t)

-------------------------------------------------------------------------------
(* Read from another encoder *)

InData == phase \in {"parts", "part", "color", "done"}

\* Packed packet headers are the headers of the tile-parts one after the other, whatever the
\* order their numbered pieces come in, the numbers left out and the places they are cut at,
\* unless a length is cut, which the decoder refuses; those of one tile likewise, without
\* lengths (markers.go: readPPM, mergePPM, readPPT, mergePPT).
PackedMerged ==
    /\ job.kind = "read" /\ job.headers # <<>> =>
           IF job.cutsFit THEN phase # "refused" /\ (InData => cs.packed = FlattenSeq(job.headers))
           ELSE ~InData
    /\ job.kind = "read" /\ job.ppt # <<>> =>
           phase # "refused" /\ (phase = "done" => PackedOf(1) = job.ppt)

\* The definitions a file has, each of a channel of its own and the colours all different.
Defs == job.defs
ProperDefs ==
    /\ job.kind = "read" /\ job.defs # <<>> /\ ~opt.subset
    /\ \A i, j \in DOMAIN Defs :
           i # j => /\ Defs[i].cn # Defs[j].cn
                    /\ Defs[i].typ = 0 /\ Defs[j].typ = 0 => Defs[i].asoc # Defs[j].asoc
    /\ \A i \in DOMAIN Defs :
           IF Defs[i].typ = 0 THEN Defs[i].asoc \in 1 .. Len(Defs) ELSE Defs[i].asoc \in {0, 65535}

\* The place of a channel's samples: a component of the codestream and a column of the palette.
SourceOf(cn) ==
    IF job.cmap = <<>> THEN <<cn + 1, 0>>
    ELSE <<job.cmap[cn + 1].cmp + 1, IF job.cmap[cn + 1].mtyp = 0 THEN 0 ELSE job.cmap[cn + 1].pcol + 1>>
Source(i) == <<comps[i].from, comps[i].col>>

\* The colours of a decoded image are in the order of their associations, whatever channels the
\* file has them in, behind a palette or not (color.go: applyPclr, applyCdef).
ChannelsInOrder ==
    phase = "done" /\ ProperDefs =>
        \A i \in DOMAIN Defs : Defs[i].typ = 0 => Source(Defs[i].asoc) = SourceOf(Defs[i].cn)

===============================================================================
