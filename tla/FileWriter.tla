------------------------------- MODULE FileWriter -------------------------------
(***************************************************************************)
(* The encoder writing a file: SetupEncoder, StartCompress, Encode and      *)
(* EndCompress of internal/jp2/encode.go and internal/j2k (j2k_encode*.go)  *)
(* on an output stream that is buffered and may fail.  Lengths that are not *)
(* known yet are left open and patched: the box of the codestream, the TLM  *)
(* marker segment, and, before it is written, Psot of each tile-part.       *)
(*                                                                          *)
(* The file is a sequence of cells <<kind, value>>, as in JP2Boxes: a cell  *)
(* for each segment of a header, the fields of a tile-part's, the entries of*)
(* TLM, and each byte of a packet.  What the packets hold is left open: a   *)
(* tile-part has packets of any of the lengths the job allows.              *)
(***************************************************************************)
EXTENDS OutputStream, MainHeader, JP2Boxes

CONSTANTS
    Jobs,       \* what may be asked for
    MaxTLM      \* the most tile-parts a TLM marker segment takes

VARIABLES
    job,        \* [kind, img, u, jp2, reliable, lens, ...]
    cp,         \* the coding parameters
    pc,         \* how far the encoder is
    todo,       \* what it has yet to write before it goes on, one item for each Write
    tile,       \* currentTileNumber
    announced,  \* MNbTileParts of each tile, as counted before anything was written
    tlmStart,
    tlmBuffer,
    resume,     \* the end of the codestream while something before it is patched
    jp2cAt      \* j2kCodestreamOffset

params == <<job, cp>>
progress == <<tile, announced, tlmStart, tlmBuffer, resume, jp2cAt>>
writerVars == <<params, pc, todo, progress>>

NumTilesOf(c) == Cardinality(DOMAIN c.tcps)

WriterInit ==
    /\ job \in Jobs
    /\ StreamInit
    /\ reliable = job.reliable
    /\ cp = <<>>
    /\ pc = IF job.kind = "encode" THEN "setup" ELSE "none"
    /\ todo = <<>>
    /\ tile = 0
    /\ announced = <<>>
    /\ tlmStart = 0
    /\ tlmBuffer = <<>>
    /\ resume = 0
    /\ jp2cAt = 0

-------------------------------------------------------------------------------
(* Tile-parts *)

Bounds(tcp, k) ==
    IF tcp.pocs = <<>>
      THEN [C |-> Len(tcp.comps), R |-> tcp.comps[1].numres, L |-> tcp.numlayers, P |-> job.img.precincts]
      ELSE [C |-> tcp.pocs[k].comp1, R |-> tcp.pocs[k].res1, L |-> tcp.pocs[k].lay1,
            P |-> job.img.precincts]

\* getNumTP: the tile-parts of the k-th progression, one for each turn of the loops down to
\* the one the flag names.
NumTP(c, tcp, k) ==
    LET outer == SelectInSeq(LettersOf(tcp.prg), LAMBDA l : l = c.tp)
        n == FoldLeft(LAMBDA a, l : a * Bounds(tcp, k)[l], 1,
                      SubSeq(LettersOf(tcp.prg), 1, outer))
    IN  IF c.tp = "off" \/ n = 0 THEN 1 ELSE n

Progressions(tcp) == IF tcp.pocs = <<>> THEN 1 ELSE Len(tcp.pocs)

NumTPs(c, tcp) == FoldLeft(LAMBDA a, k : a + NumTP(c, tcp, k), 0, [k \in 1 .. Progressions(tcp) |-> k])

\* Mutant: the first progression only.
AnnouncedFirst(c) == [t \in DOMAIN c.tcps |-> NumTP(c, c.tcps[t], 1)]
\* calculateTP.
Announced(c) == [t \in DOMAIN c.tcps |-> NumTPs(c, c.tcps[t])]
TotalTileParts == FoldFunction(+, 0, announced)

\* The parameters of a tile whose first tile-part has been written.
AfterFirstPart(c, t) == IF c.rsiz \notin Cinema THEN Clamped(c.tcps[t]) ELSE c.tcps[t]

\* Tile-part p of tile t, with packets of the given lengths.
Packets(t, p, lens) ==
    [k \in 1 .. FoldLeft(+, 0, lens) |-> <<"data", <<t, p, k>>>>]
PartBody(c, t, p, lens) ==
    (IF p = 0 /\ c.tcps[t].pocs # <<>> /\ c.rsiz \notin Cinema
       THEN <<<<"seg", POC(c.tcps[t])>>>> ELSE <<>>)
      \o (IF c.plt THEN <<<<"PLT", lens>>>> ELSE <<>>)
      \o <<<<"SOD", t>>>> \o Packets(t, p, lens)
\* Mutant: Psot does not count the POC marker segment.
TilePartShort(c, t, p, tn, lens) ==
    LET body == PartBody(c, t, p, lens)
        counted == SelectSeq(body, LAMBDA cell : cell[1] # "seg")
    IN  <<<<"SOT", t>>, <<"Psot", 3 + Len(counted)>>, <<"TP", <<p % 256, tn % 256>>>>>> \o body
TilePart(c, t, p, tn, lens) ==
    LET body == PartBody(c, t, p, lens)
    IN  <<<<"SOT", t>>, <<"Psot", 3 + Len(body)>>, <<"TP", <<p % 256, tn % 256>>>>>> \o body

\* The tile-parts of tile t; lens has one list of packet lengths for each.
TileCells(c, t, lens) ==
    [p \in 1 .. Len(lens) |-> TilePart(c, t, p - 1, announced[t], lens[p])]

-------------------------------------------------------------------------------
(* Steps of the encoder, each with at most one call of the stream *)

Ready == call = "none" /\ result = "ok" /\ todo = <<>>

\* A change of the encoder's that does not touch the stream.
Quietly == UNCHANGED streamVars

\* SetupEncoder, and the validation that comes before any output.
SetUp ==
    /\ pc = "setup"
    /\ IF SetupRefused(job.u, job.img) \/ (job.jp2 /\ TooDeep(job.img))
         THEN pc' = "refused" /\ UNCHANGED <<cp, todo>>
         ELSE /\ cp' = Setup(job.u, job.img)
              /\ pc' = IF job.jp2 THEN "boxes" ELSE "codestream"
              /\ todo' = IF job.jp2 THEN Boxes(job.img) ELSE <<>>
    /\ UNCHANGED <<job, progress>>
    /\ Quietly

WriteNext ==
    /\ pc \notin {"failed", "refused"}
    /\ todo # <<>>
    /\ call = "none" /\ result = "ok"
    /\ Write(Head(todo))
    /\ todo' = Tail(todo)
    /\ UNCHANGED <<params, pc, progress>>

StreamFailed ==
    /\ pc \notin {"failed", "done"}
    /\ call = "none" /\ result = "failed"
    /\ pc' = "failed"
    /\ todo' = <<>>
    /\ UNCHANGED <<params, progress>>
    /\ Quietly

\* Room for the header of the codestream's box.
SkipJp2c ==
    /\ pc = "boxes" /\ Ready
    /\ jp2cAt' = Tell
    /\ Skip(2)
    /\ pc' = "codestream"
    /\ UNCHANGED <<params, todo, tile, announced, tlmStart, tlmBuffer, resume>>

\* encodingValidation and calculateTP, then the main header.
StartCodestream ==
    /\ pc = "codestream" /\ Ready
    /\ IF TooManyResolutions(cp)
         THEN pc' = "failed" /\ UNCHANGED <<todo, announced>>
         ELSE /\ pc' = IF cp.tlm THEN "tlm" ELSE "header"
              /\ todo' = [i \in DOMAIN BeforeTLM(cp, job.img) |-> <<<<"seg", BeforeTLM(cp, job.img)[i]>>>>]
              /\ announced' = Announced(cp)
    /\ UNCHANGED <<params, tile, tlmStart, tlmBuffer, resume, jp2cAt>>
    /\ Quietly

WriteTLM ==
    /\ pc = "tlm" /\ Ready
    /\ IF TotalTileParts > MaxTLM
         THEN /\ pc' = "failed"
              /\ Quietly
              /\ UNCHANGED tlmStart
         ELSE /\ pc' = "header"
              /\ tlmStart' = Tell
              /\ Write(<<<<"TLM", TotalTileParts>>>> \o [i \in 1 .. TotalTileParts |-> Zero])
    /\ UNCHANGED <<params, todo, tile, announced, tlmBuffer, resume, jp2cAt>>

\* The rest of the main header.  A POC marker segment in it leaves tile 0 clamped.
WriteHeader ==
    /\ pc = "header" /\ Ready
    /\ todo' = [i \in DOMAIN AfterTLM(cp) |-> <<<<"seg", AfterTLM(cp)[i]>>>>]
    /\ cp' = IF AfterTLM(cp)[1].m = "POC" THEN [cp EXCEPT !.tcps[0] = Clamped(@)] ELSE cp
    /\ pc' = "tiles"
    /\ UNCHANGED <<job, progress>>
    /\ Quietly

\* postWriteTile: the number of tile-parts is taken again after the first one was written.
EncodeTile ==
    /\ pc = "tiles" /\ Ready
    /\ tile < NumTilesOf(cp)
    /\ LET clamped == AfterFirstPart(cp, tile)
       IN  \E lens \in [1 .. NumTPs(cp, clamped) -> job.lens] :
             LET parts == TileCells(cp, tile, lens)
             IN  /\ Write(FlattenSeq(parts))
                 /\ tlmBuffer' = tlmBuffer \o
                        [p \in DOMAIN parts |-> <<"Ttlm", <<tile, Len(parts[p])>>>>]
                 /\ cp' = [cp EXCEPT !.tcps[tile] = clamped]
    /\ tile' = tile + 1
    /\ UNCHANGED <<job, pc, todo, announced, tlmStart, resume, jp2cAt>>

\* A tile does not encode: nothing of it is written.
EncodeFails ==
    /\ pc = "tiles" /\ Ready
    /\ tile < NumTilesOf(cp)
    /\ pc' = "failed"
    /\ UNCHANGED <<params, todo, progress>>
    /\ Quietly

WriteEOC ==
    /\ pc = "tiles" /\ Ready
    /\ tile = NumTilesOf(cp)
    /\ Write(<<<<"EOC", 0>>>>)
    /\ pc' = "flush"
    /\ UNCHANGED <<params, todo, progress>>

FlushEOC ==
    /\ pc = "flush" /\ Ready
    /\ Flush
    /\ pc' = IF cp.tlm THEN "seekTLM" ELSE "patched"
    /\ UNCHANGED <<params, todo, progress>>

-------------------------------------------------------------------------------
(* writeUpdatedTLM and writeJp2c: seek, write, seek back *)

SeekAway(to, next) ==
    /\ resume' = Tell
    /\ SeekTo(to)
    /\ pc' = next
    /\ UNCHANGED <<params, todo, tile, announced, tlmStart, tlmBuffer, jp2cAt>>
Patch(cells, next) ==
    /\ Write(cells)
    /\ pc' = next
    /\ UNCHANGED <<params, todo, progress>>
SeekBack(next) ==
    /\ SeekTo(resume)
    /\ pc' = next
    /\ UNCHANGED <<params, todo, progress>>

SeekTLM == pc = "seekTLM" /\ Ready /\ SeekAway(tlmStart + 1, "patchTLM")
\* Entries of tile-parts that were announced and not written stay zero.
PatchTLM ==
    /\ pc = "patchTLM" /\ Ready
    /\ Patch([i \in 1 .. TotalTileParts |-> IF i <= Len(tlmBuffer) THEN tlmBuffer[i] ELSE Zero], "leaveTLM")
LeaveTLM == pc = "leaveTLM" /\ Ready /\ SeekBack("patched")

SeekJp2c == pc = "patched" /\ job.jp2 /\ Ready /\ SeekAway(jp2cAt, "patchJp2c")
PatchJp2c ==
    /\ pc = "patchJp2c" /\ Ready
    /\ Patch(<<<<"len", resume - jp2cAt>>, <<"type", "jp2c">>>>, "leaveJp2c")
LeaveJp2c == pc = "leaveJp2c" /\ Ready /\ SeekBack("closing")

EndCompress ==
    /\ pc \in {"patched", "closing"} /\ Ready
    /\ job.jp2 => pc = "closing"
    /\ pc' = "done"
    /\ UNCHANGED <<params, todo, progress>>
    /\ Quietly

EncoderNext ==
    \/ SetUp \/ WriteNext \/ StreamFailed \/ SkipJp2c \/ StartCodestream \/ WriteTLM \/ WriteHeader
    \/ EncodeTile \/ EncodeFails \/ WriteEOC \/ FlushEOC
    \/ SeekTLM \/ PatchTLM \/ LeaveTLM \/ SeekJp2c \/ PatchJp2c \/ LeaveJp2c \/ EndCompress

WriterNext == EncoderNext \/ (StreamNext /\ UNCHANGED writerVars)

===============================================================================
