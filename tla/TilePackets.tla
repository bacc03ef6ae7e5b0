------------------------------ MODULE TilePackets -----------------------------
(***************************************************************************)
(* The packets of one tile, as the two codecs go through them with the      *)
(* iterators of internal/pi:                                                *)
(*   decoding    pi.CreateDecode and the loops of T2.DecodePackets;         *)
(*   encoding    writeFirstTilePart and writeAllTileParts of internal/j2k,  *)
(*               which for each tile-part come to T2.EncodePackets (the     *)
(*               final pass): pi.InitialiseEncode, pi.CreateEncode and the  *)
(*               packets of one iterator.                                   *)
(* Both must come by the packets in the order PacketOrder states: nothing   *)
(* in the codestream names a packet.                                        *)
(*                                                                          *)
(* Left out: what a packet holds, the rate allocation's passes over the     *)
(* packets, the cinema and IMF profiles, and the clamping of a POC's bounds *)
(* to the tile's (the inputs are within them).  Iterators are numbered from *)
(* 1, the positions of a progression order too.                             *)
(***************************************************************************)
EXTENDS PacketIterator, SequencesExt

CONSTANTS
    DecodeInputs,   \* the tiles decoded
    EncodeInputs    \* the tiles encoded

Orders == DOMAIN Loops

Pocs == [r0 : Nat, r1 : Nat, c0 : Nat, c1 : Nat, l1 : Nat, prg : Orders]

\* pocs: the progression order changes; flag: what tile-parts are divided on.
IsTile(t) ==
    /\ \A a \in Axes : t.lo[a] \in Nat /\ t.hi[a] \in Nat /\ t.lo[a] < t.hi[a]
    /\ Comps(t) = 0 .. NumComps(t) - 1 /\ Comps(t) # {}
    /\ \A c \in Comps(t) :
           /\ \A a \in Axes : t.comps[c].d[a] \in Nat \ {0}
           /\ Resolutions(t, c) = 0 .. NumRes(t, c) - 1 /\ Resolutions(t, c) # {}
           /\ \A r \in Resolutions(t, c), a \in Axes :
                  t.comps[c].pd[r][a] \in Nat /\ (r > 0 => t.comps[c].pd[r][a] > 0)
    /\ t.layers \in Nat \ {0}
    /\ t.prg \in Orders
    /\ t.pocs \in Seq(Pocs)
    /\ t.flag \in {"off", "R", "L", "C"}

ASSUME TilePacketsAssumption == \A t \in DecodeInputs \union EncodeInputs : IsTile(t)

VARIABLES
    mode,       \* "decode" or "encode"
    pino,       \* the iterator at work
    part,       \* currentPocTilePartNumber
    odo,        \* of the iterator's POC, layT, resT, compT, prcT, tx0T and ty0T
    inPart,     \* of the packets of this tile-part, the number the flag names
    emitted     \* the packets, in the order of the codestream

vars == <<tile, mode, pino, part, odo, inPart, emitted, size, iterVars>>

\* Numpocs + 1
NumIterators == IF tile.pocs = <<>> THEN 1 ELSE Len(tile.pocs)

Zero == [v \in LoopVars |-> 0]

-------------------------------------------------------------------------------
(* Decoding. *)

\* updateDecodePoc and updateDecodeNotPoc
DecodeIterator(k) ==
    LET poc == IF tile.pocs = <<>>
                 THEN [r0 |-> 0, r1 |-> MaxRes(tile), c0 |-> 0, c1 |-> NumComps(tile),
                       l1 |-> tile.layers, prg |-> tile.prg]
                 ELSE tile.pocs[k]
    IN  [prg |-> poc.prg, tpOn |-> FALSE, first |-> TRUE,
         lo |-> [Zero EXCEPT !["R"] = poc.r0, !["C"] = poc.c0],
         hi |-> [v \in LoopVars |->
                    CASE v = "R" -> poc.r1
                      [] v = "C" -> poc.c1
                      [] v = "L" -> Min({poc.l1, tile.layers})
                      [] v = "P" -> MaxPrec(tile)
                      [] OTHER -> 0]]

\* Mutant: the components are not counted.
StepLShort == MaxRes(tile) * MaxPrec(tile)

StepL == MaxRes(tile) * NumComps(tile) * MaxPrec(tile)

CreateDecode ==
    /\ mode = "decode"
    /\ pc = "idle"
    /\ it' = DecodeIterator(1)
    /\ size' = (tile.layers + 1) * StepL
    /\ pc' = "call"
    /\ UNCHANGED <<tile, mode, pino, part, odo, inPart, emitted, at, skip, depth, include>>

ReadPacket ==
    /\ mode = "decode"
    /\ pc = "packet"
    /\ emitted' = Append(emitted, [c |-> at["C"], r |-> at["R"], p |-> at["P"], l |-> at["L"]])
    /\ pc' = "call"
    /\ UNCHANGED <<tile, mode, pino, part, odo, inPart, size, it, at, skip, depth, include>>

\* Mutant: each iterator has an include of its own.
NextIteratorAfresh ==
    /\ mode = "decode"
    /\ pc = "none"
    /\ IF pino < NumIterators
         THEN /\ pino' = pino + 1
              /\ it' = DecodeIterator(pino + 1)
              /\ at' = Zero
              /\ include' = {}
              /\ pc' = "call"
         ELSE /\ pc' = "done"
              /\ UNCHANGED <<pino, it, at, include>>
    /\ UNCHANGED <<tile, mode, part, odo, inPart, emitted, size, skip, depth>>

\* The iterator has come to its end: the next one takes over.
NextIterator ==
    /\ mode = "decode"
    /\ pc = "none"
    /\ IF pino < NumIterators
         THEN /\ pino' = pino + 1
              /\ it' = DecodeIterator(pino + 1)
              /\ at' = Zero
              /\ pc' = "call"
         ELSE /\ pc' = "done"
              /\ UNCHANGED <<pino, it, at>>
    /\ UNCHANGED <<tile, mode, part, odo, inPart, emitted, size, skip, depth, include>>

-------------------------------------------------------------------------------
(* Encoding: what an iterator covers, and its division into tile-parts. *)

\* updateEncodePocAndFinal and updateEncodeNotPoc: the start and the end of each
\* variable.  A POC with more layers than the one before starts at its last.
StartOf(k) ==
    [v \in LoopVars |->
        CASE v \in Axes -> tile.lo[v]
          [] v = "R" /\ tile.pocs # <<>> -> tile.pocs[k].r0
          [] v = "C" /\ tile.pocs # <<>> -> tile.pocs[k].c0
          [] v = "L" /\ tile.pocs # <<>> /\ k > 1 ->
                 IF tile.pocs[k].l1 > tile.pocs[k - 1].l1 THEN tile.pocs[k].l1 ELSE 0
          [] OTHER -> 0]

EndOf(k) ==
    [v \in LoopVars |->
        CASE v \in Axes -> tile.hi[v]
          [] v = "P" -> MaxPrec(tile)
          [] v = "R" -> IF tile.pocs = <<>> THEN MaxRes(tile) ELSE tile.pocs[k].r1
          [] v = "C" -> IF tile.pocs = <<>> THEN NumComps(tile) ELSE tile.pocs[k].c1
          [] v = "L" -> IF tile.pocs = <<>> THEN tile.layers ELSE tile.pocs[k].l1]

OrderOf(k) == IF tile.pocs = <<>> THEN tile.prg ELSE tile.pocs[k].prg

Letters == [LRCP |-> <<"L", "R", "C", "P">>, RLCP |-> <<"R", "L", "C", "P">>,
            RPCL |-> <<"R", "P", "C", "L">>, PCRL |-> <<"P", "C", "R", "L">>,
            CPRL |-> <<"C", "P", "R", "L">>]

\* Mutant: the loop ends before the flag.
TpPosBefore == (CHOOSE i \in 1 .. 4 : Letters[tile.prg][i] = tile.flag) - 1

\* tp_pos: where the tile's order has the flag.
TpPos == CHOOSE i \in 1 .. 4 : Letters[tile.prg][i] = tile.flag

\* Mutant: the letter of the flag itself is not counted.
NumTPBefore(k) ==
    IF tile.flag = "off" THEN 1
    ELSE FoldFunction(LAMBDA m, n : m * n, 1, [i \in 1 .. TpPos - 1 |-> EndOf(k)[Letters[tile.prg][i]]])

\* getNumTP: the product of the ends of the letters up to the flag.
NumTP(k) ==
    IF tile.flag = "off" THEN 1
    ELSE FoldFunction(LAMBDA m, n : m * n, 1, [i \in 1 .. TpPos |-> EndOf(k)[Letters[tile.prg][i]]])

\* The variables of a position of an order.
Digit(prg, i) == IF Letters[prg][i] = "P" /\ Spatial(prg) THEN Axes ELSE {Letters[prg][i]}

\* The position of a variable; 0 if the order has none.
DigitOf(prg, v) == IF \E i \in 1 .. 4 : v \in Digit(prg, i)
                     THEN CHOOSE i \in 1 .. 4 : v \in Digit(prg, i) ELSE 0

\* dxMin and dyMin; the other variables go by one.
Stride(v) == IF v \in Axes THEN SmallestSide(tile, Comps(tile), v) ELSE 1

Onward(x, v) == x + Stride(v) - (x % Stride(v))

\* CreateEncode: the window of iterator k's POC that tile-part n covers.  The
\* variables up to the flag are an odometer, of which odo keeps the ends of
\* the windows; the first of a POC starts it, and each later one advances the
\* last position that is not at its end and starts those behind it again, as
\* long as checkNextLevel finds a position before it that is not at its end.
Window(k, n) ==
    LET prg == OrderOf(k)
        full(i) == \A v \in Digit(prg, i) : odo[v] >= EndOf(k)[v]
        moreBefore(i) == \E j \in 1 .. i - 1 : \E v \in Digit(prg, j) : odo[v] # EndOf(k)[v]
        stop == Max({i \in 1 .. TpPos : ~(full(i) /\ moreBefore(i))})
        first(v) == <<StartOf(k)[v], Onward(StartOf(k)[v], v)>>
        kept(v) == <<odo[v] - Stride(v) - (odo[v] % Stride(v)), odo[v]>>
        next(v) == <<odo[v], Onward(odo[v], v)>>
        stepped(v) ==
            CASE v = "X" -> IF odo["X"] < EndOf(k)["X"] THEN next("X") ELSE first("X")
              [] v = "Y" -> IF odo["X"] < EndOf(k)["X"] THEN kept("Y") ELSE next("Y")
              [] OTHER -> next(v)
    IN  [v \in LoopVars |->
            LET i == DigitOf(prg, v) IN
            CASE tile.flag = "off" \/ i > TpPos -> <<StartOf(k)[v], EndOf(k)[v]>>
              [] tile.flag # "off" /\ i = 0 -> <<0, 0>>
              [] tile.flag # "off" /\ i \in 1 .. TpPos /\ (n = 0 \/ i > stop) -> first(v)
              [] tile.flag # "off" /\ i = stop /\ n > 0 /\ ~full(i) -> stepped(v)
              [] OTHER -> kept(v)]

\* Only the first iterator knows of tile-parts.
EncodeIterator(k, n) ==
    [prg |-> OrderOf(k), tpOn |-> tile.flag # "off" /\ k = 1, first |-> TRUE,
     lo |-> [v \in LoopVars |-> Window(k, n)[v][1]],
     hi |-> [v \in LoopVars |-> Window(k, n)[v][2]]]

\* Each tile-part has iterators and an include of its own.
WriteTilePart ==
    /\ mode = "encode"
    /\ pc = "idle"
    /\ it' = EncodeIterator(pino, part)
    /\ odo' = [v \in LoopVars |-> Window(pino, part)[v][2]]
    /\ include' = {}
    /\ size' = tile.layers * StepL
    /\ at' = Zero
    /\ inPart' = {}
    /\ pc' = "call"
    /\ UNCHANGED <<tile, mode, pino, part, emitted, skip, depth>>

\* encodePacket fails on a precinct the resolution does not have.
WritePacket ==
    /\ mode = "encode"
    /\ pc = "packet"
    /\ LET pkt == [c |-> at["C"], r |-> at["R"], p |-> at["P"], l |-> at["L"]]
       IN  CASE pkt.l >= tile.layers ->
                    pc' = "call" /\ UNCHANGED <<emitted, inPart>>
             [] /\ pkt.l < tile.layers
                /\ pkt.p >= NumPrecincts(tile, pkt.c, pkt.r)
                /\ HasSamples(tile, pkt.c, pkt.r) ->
                    pc' = "failed" /\ UNCHANGED <<emitted, inPart>>
             [] OTHER ->
                    /\ emitted' = Append(emitted, pkt)
                    /\ inPart' = IF tile.flag = "off" THEN inPart
                                 ELSE inPart \union {at[tile.flag]}
                    /\ pc' = "call"
    /\ UNCHANGED <<tile, mode, pino, part, odo, size, it, at, skip, depth, include>>

NextTilePart ==
    /\ mode = "encode"
    /\ pc = "none"
    /\ CASE part + 1 < NumTP(pino) ->
                part' = part + 1 /\ pc' = "idle" /\ UNCHANGED pino
         [] part + 1 >= NumTP(pino) /\ pino < NumIterators ->
                part' = 0 /\ pino' = pino + 1 /\ pc' = "idle"
         [] OTHER ->
                pc' = "done" /\ UNCHANGED <<part, pino>>
    /\ UNCHANGED <<tile, mode, odo, inPart, emitted, size, it, at, skip, depth, include>>

-------------------------------------------------------------------------------

Init ==
    /\ \/ mode = "decode" /\ tile \in DecodeInputs
       \/ mode = "encode" /\ tile \in EncodeInputs
    /\ pino = 1
    /\ part = 0
    /\ odo = Zero
    /\ inPart = {}
    /\ emitted = <<>>
    /\ it = DecodeIterator(1)
    /\ at = Zero
    /\ skip = FALSE
    /\ depth = 1
    /\ include = {}
    /\ size = 0
    /\ pc = "idle"

Iterate == NextPacket /\ UNCHANGED <<tile, mode, pino, part, odo, inPart, emitted, size>>

Next == \/ Iterate
        \/ CreateDecode \/ ReadPacket \/ NextIterator
        \/ WriteTilePart \/ WritePacket \/ NextTilePart

Spec == Init /\ [][Next]_vars

\* The code is sequential: it goes on.
FairSpec == Spec /\ WF_vars(Next)

-------------------------------------------------------------------------------
(* Properties *)

\* Type correctness.
TypeOK ==
    /\ mode \in {"decode", "encode"}
    /\ tile \in DecodeInputs \union EncodeInputs
    /\ pino \in 1 .. NumIterators
    /\ part \in Nat
    /\ odo \in [LoopVars -> Nat]
    /\ at \in [LoopVars -> Nat]
    /\ it.lo \in [LoopVars -> Nat] /\ it.hi \in [LoopVars -> Nat]
    /\ it.prg \in Orders /\ it.tpOn \in BOOLEAN /\ it.first \in BOOLEAN
    /\ skip \in BOOLEAN
    /\ depth \in 1 .. 5
    /\ include \subseteq 0 .. size - 1
    /\ size \in Nat
    /\ pc \in {"idle", "call", "loop", "packet", "none", "done", "failed"}

\* Either codec goes through the packets of the tile exactly once and in the
\* order its progression dictates (pi.go:1-4), whatever the resume logic, the
\* shared include array, the precinct geometry and the division into tile-parts
\* make of it.
Order == INSTANCE PacketOrder WITH done <- pc = "done"
ImplementsOrder == Order!Spec

\* Neither gives up: no index is outside the include array (pi.go "Invalid access
\* to pi->include"), and no packet is one that encodePacket refuses.
NeverGivesUp ==
    /\ pc = "loop" /\ InLoop /\ Innermost /\ ~skip => Index < size
    /\ pc # "failed"

\* A tile-part holds packets of one resolution, layer or component, the one it
\* is divided on (WithTileParts, encode.go:225-227).
DividedByFlag == mode = "encode" /\ tile.flag # "off" => Cardinality(inPart) <= 1

\* The iterators come to an end.
Terminates == <>(pc \in {"done", "failed"})
=============================================================================
