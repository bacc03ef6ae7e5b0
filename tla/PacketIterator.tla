---------------------------- MODULE PacketIterator ----------------------------
(***************************************************************************)
(* Iterator.Next of internal/pi.  The five functions nextLRCP to nextCPRL   *)
(* are the same machine with its loops nested in another order: a call      *)
(* starts at the outermost loop, or, when a packet has been returned        *)
(* before, goes down all the loops with their variables as they were left   *)
(* (skip) and takes the innermost one a step further.                       *)
(*                                                                          *)
(* The loop variables are L, R, C and P (layno, resno, compno and precno)   *)
(* and X and Y.  In the spatial orders P is not a loop: the precinct is the *)
(* one that begins at (x, y), if one does.  dx, dy and, while tile-parts    *)
(* are off, the bounds of X, Y and P are recomputed by the code on the way; *)
(* they are expressions here.  The iterators of a tile share include.       *)
(***************************************************************************)
EXTENDS TileGeometry, Sequences

VARIABLES
    tile,       \* the tile, with its layers, order and POCs
    it,         \* the iterator: prg, lo and hi (poc.*0 and poc.*1), tpOn, first
    at,         \* its loop variables
    skip,       \* the call is still on its way down to where the last one ended
    depth,      \* the loop the call is in; 1 is the outermost
    include,    \* the indices of the packets returned, of all iterators
    size,       \* includeSize
    pc          \* "call": Next is called, "loop", or what it has returned:
                \* "packet" or "none"

iterVars == <<it, at, skip, depth, include, pc>>

LoopVars == {"L", "R", "C", "P"} \union Axes

Loops == [LRCP |-> <<"L", "R", "C", "P">>,
          RLCP |-> <<"R", "L", "C", "P">>,
          RPCL |-> <<"R", "Y", "X", "C", "L">>,
          PCRL |-> <<"Y", "X", "C", "R", "L">>,
          CPRL |-> <<"C", "Y", "X", "R", "L">>]

Spatial(prg) == prg \in {"RPCL", "PCRL", "CPRL"}

-------------------------------------------------------------------------------

Var == Loops[it.prg][depth]
Innermost == depth = Len(Loops[it.prg])

\* Where the loop of a variable begins and ends.
Lo(v) == IF v \in Axes /\ ~it.tpOn THEN tile.lo[v] ELSE it.lo[v]

Hi(v) ==
    CASE v \in Axes /\ ~it.tpOn -> tile.hi[v]
      [] v = "P" /\ ~it.tpOn -> NumPrecincts(tile, at["C"], at["R"])
      [] v = "R" /\ it.prg \in {"PCRL", "CPRL"} -> Min({it.hi["R"], NumRes(tile, at["C"])})
      [] OTHER -> it.hi[v]

\* dx and dy: of the component in CPRL, of the tile in the two others.
GridStep(a) == SmallestSide(tile, IF it.prg = "CPRL" THEN {at["C"]} ELSE Comps(tile), a)

\* Mutant: x and y are rounded up to a multiple of dx and dy.
AdvancedToMultiple(v) ==
    [at EXCEPT ![v] = IF v \in Axes THEN CeilDiv(@, GridStep(v)) * GridStep(v) ELSE @ + 1]

\* x and y go on to the next multiple of dx and dy.
Advanced(v) == [at EXCEPT ![v] = IF v \in Axes THEN @ + GridStep(v) - (@ % GridStep(v)) ELSE @ + 1]

\* Whether a precinct of the component and resolution begins at the coordinate.
Begins(a) ==
    LET c == at["C"]
        r == at["R"]
        level == Level(tile, c, r)
        rp == tile.comps[c].pd[r][a] + level
        lo == CeilDiv(tile.lo[a], tile.comps[c].d[a] * 2^level)
        hi == CeilDiv(tile.hi[a], tile.comps[c].d[a] * 2^level)
    IN  /\ \/ at[a] % (tile.comps[c].d[a] * 2^rp) = 0
           \/ at[a] = tile.lo[a] /\ (lo * 2^level) % 2^rp # 0
        /\ PrecinctsAlong(tile, c, r, a) # 0
        /\ lo # hi

\* The conditions between the innermost loop and the one around it.
Admitted ==
    /\ at["R"] < NumRes(tile, at["C"])
    /\ Spatial(it.prg) => \A a \in Axes : Begins(a)

\* prci and prcj.
PrecinctAlong(a) ==
    LET c == at["C"]
        r == at["R"]
        side == tile.comps[c].d[a] * 2^Level(tile, c, r)
        pd == tile.comps[c].pd[r][a]
    IN  FloorDivPow2(CeilDiv(at[a], side), pd) - FloorDivPow2(CeilDiv(tile.lo[a], side), pd)

PrecinctHere ==
    PrecinctAlong("X") + PrecinctAlong("Y") * PrecinctsAlong(tile, at["C"], at["R"], "X")

\* layno * stepL + resno * stepR + compno * stepC + precno * stepP
Index == ((at["L"] * MaxRes(tile) + at["R"]) * NumComps(tile) + at["C"]) * MaxPrec(tile) + at["P"]

-------------------------------------------------------------------------------
(* The steps of a call. *)

\* The first packet of the iterator, or one more.
Call ==
    /\ pc = "call"
    /\ IF it.lo["C"] >= NumComps(tile) \/ it.hi["C"] > NumComps(tile)
         THEN /\ pc' = "none"
              /\ UNCHANGED <<it, at, skip, depth>>
         ELSE /\ pc' = "loop"
              /\ depth' = 1
              /\ skip' = ~it.first
              /\ it' = [it EXCEPT !.first = FALSE]
              /\ LET top == Loops[it.prg][1]
                 IN  at' = IF it.first THEN [at EXCEPT ![top] = Lo(top)] ELSE at
    /\ UNCHANGED include

InLoop == pc = "loop" /\ at[Var] < Hi(Var)

\* Into the next loop.
Descend ==
    /\ InLoop
    /\ ~Innermost
    /\ depth = Len(Loops[it.prg]) - 1 => Admitted
    /\ LET here == IF Spatial(it.prg) /\ depth = Len(Loops[it.prg]) - 1
                     THEN [at EXCEPT !["P"] = PrecinctHere] ELSE at
           inner == Loops[it.prg][depth + 1]
       IN  at' = IF skip THEN here ELSE [here EXCEPT ![inner] = Lo(inner)]
    /\ depth' = depth + 1
    /\ UNCHANGED <<it, skip, include, pc>>

\* No packet here: continue.
Continue ==
    /\ InLoop
    /\ \/ depth = Len(Loops[it.prg]) - 1 /\ ~Admitted
       \/ Innermost /\ skip
       \/ Innermost /\ ~skip /\ Index \in include
    /\ at' = Advanced(Var)
    /\ skip' = (skip /\ ~Innermost)
    /\ UNCHANGED <<it, depth, include, pc>>

\* The loop is over.
Leave ==
    /\ pc = "loop"
    /\ ~InLoop
    /\ IF depth = 1
         THEN pc' = "none" /\ UNCHANGED <<at, depth>>
         ELSE /\ at' = Advanced(Loops[it.prg][depth - 1])
              /\ depth' = depth - 1
              /\ UNCHANGED pc
    /\ UNCHANGED <<it, skip, include>>

\* A packet that has not been returned before; "Invalid access to pi->include"
\* ends the iterator.
EmitPacket ==
    /\ InLoop
    /\ Innermost
    /\ ~skip
    /\ Index \notin include
    /\ IF Index < size
         THEN include' = include \union {Index} /\ pc' = "packet"
         ELSE pc' = "none" /\ UNCHANGED include
    /\ UNCHANGED <<it, at, skip, depth>>

NextPacket == Call \/ Descend \/ Continue \/ Leave \/ EmitPacket
=============================================================================
