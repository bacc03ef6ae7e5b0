----------------------------- MODULE PacketOrder ------------------------------
(***************************************************************************)
(* What the packet iterator promises: for a tile, every packet once, in the *)
(* order dictated by the progression order, or by the progression order     *)
(* changes (POC) when the tile has any: the packets of the first of them,   *)
(* in its order, then those of the next that have not been yet, and so on.  *)
(*                                                                          *)
(* A packet is the part of a layer l that belongs to precinct p of          *)
(* resolution r of component c.  The orders are stated over the place of a  *)
(* precinct on the reference grid, not by loops.                            *)
(***************************************************************************)
EXTENDS TileGeometry, Sequences, SequencesExt

VARIABLES
    tile,       \* the tile: see TileGeometry, with its layers, order and POCs
    emitted,    \* the packets so far
    done

vars == <<tile, emitted, done>>

PacketsOf(c, r) ==
    [c : {c}, r : {r}, p : 0 .. NumPrecincts(tile, c, r) - 1, l : 0 .. tile.layers - 1]

Packets == UNION {UNION {PacketsOf(c, r) : r \in Resolutions(tile, c)} : c \in Comps(tile)}

\* The corner of a precinct on the reference grid: where its upper left sample
\* lies, or where the tile begins if that is later.
Corner(pkt, a) ==
    LET across == PrecinctsAlong(tile, pkt.c, pkt.r, "X")
        index == IF a = "X" THEN pkt.p % across ELSE pkt.p \div across
        first == FloorDivPow2(ResLo(tile, pkt.c, pkt.r, a), tile.comps[pkt.c].pd[pkt.r][a])
    IN  Max({tile.lo[a], (first + index) * PrecinctSide(tile, pkt.c, pkt.r, a)})

\* The letters of a progression order, the outermost first; P is the position.
Key(prg, pkt) ==
    LET x == Corner(pkt, "X")
        y == Corner(pkt, "Y")
    IN  CASE prg = "LRCP" -> <<pkt.l, pkt.r, pkt.c, pkt.p>>
          [] prg = "RLCP" -> <<pkt.r, pkt.l, pkt.c, pkt.p>>
          [] prg = "RPCL" -> <<pkt.r, y, x, pkt.c, pkt.l>>
          [] prg = "PCRL" -> <<y, x, pkt.c, pkt.r, pkt.l>>
          [] prg = "CPRL" -> <<pkt.c, y, x, pkt.r, pkt.l>>

Precedes(u, v) == \E i \in DOMAIN u : u[i] < v[i] /\ \A j \in 1 .. i - 1 : u[j] = v[j]

\* A progression order change covers a range of resolutions and components, and
\* the layers up to a last one.
InVolume(pkt, poc) ==
    /\ pkt.r \in poc.r0 .. poc.r1 - 1
    /\ pkt.c \in poc.c0 .. poc.c1 - 1
    /\ pkt.l < poc.l1

\* The part of the order a packet belongs to; 0 if none.
Stage(pkt) ==
    IF tile.pocs = <<>> THEN 1
    ELSE LET mine == {k \in DOMAIN tile.pocs : InVolume(pkt, tile.pocs[k])}
         IN  IF mine = {} THEN 0 ELSE Min(mine)

StageOrder(k) == IF tile.pocs = <<>> THEN tile.prg ELSE tile.pocs[k].prg

Before(a, b) ==
    \/ Stage(a) < Stage(b)
    \/ Stage(a) = Stage(b) /\ Precedes(Key(StageOrder(Stage(a)), a), Key(StageOrder(Stage(b)), b))

Remaining == {pkt \in Packets : Stage(pkt) # 0} \ ToSet(emitted)

-------------------------------------------------------------------------------

Init == emitted = <<>> /\ done = FALSE

Emit == \E pkt \in Remaining :
           /\ ~done
           /\ emitted' = Append(emitted, pkt)
           /\ \A other \in Remaining \ {pkt} : Before(pkt, other)
           /\ UNCHANGED <<tile, done>>

Finish == ~done /\ Remaining = {} /\ done' = TRUE /\ UNCHANGED <<tile, emitted>>

Next == Emit \/ Finish

Spec == Init /\ [][Next]_vars
=============================================================================
