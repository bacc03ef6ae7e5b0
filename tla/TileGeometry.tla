----------------------------- MODULE TileGeometry -----------------------------
(***************************************************************************)
(* The geometry of a tile that the packet iterator of internal/pi works on: *)
(* the tile on the reference grid, its components, their resolutions, and   *)
(* the precincts of a resolution.                                           *)
(*                                                                          *)
(* Everything is done along each of the two axes alike, so a point of the   *)
(* grid, a sampling step and a precinct size are functions on Axes.  A tile *)
(* t has t.lo and t.hi, and t.comps: from a component number to its         *)
(* sampling steps d and to pd, from a resolution number to the exponents of *)
(* the precinct size (pdx and pdy).  The overflow guards of the code are    *)
(* left out: nothing here comes near 2^32.                                  *)
(***************************************************************************)
EXTENDS Integers, FiniteSets, FiniteSetsExt

Axes == {"X", "Y"}

CeilDiv(a, b) == (a + b - 1) \div b
CeilDivPow2(a, b) == CeilDiv(a, 2^b)
FloorDivPow2(a, b) == a \div 2^b

\* The tile with number tileno of a grid of tw tiles across, on the image.
TileRect(img, grid, tileno) ==
    LET index == [X |-> tileno % grid.tw, Y |-> tileno \div grid.tw]
        start == [a \in Axes |-> grid.origin[a] + index[a] * grid.size[a]]
    IN  [lo |-> [a \in Axes |-> Max({start[a], img.lo[a]})],
         hi |-> [a \in Axes |-> Min({start[a] + grid.size[a], img.hi[a]})]]

Comps(t) == DOMAIN t.comps
NumComps(t) == Cardinality(Comps(t))
Resolutions(t, c) == DOMAIN t.comps[c].pd
NumRes(t, c) == Cardinality(Resolutions(t, c))
MaxRes(t) == Max({NumRes(t, c) : c \in Comps(t)})

\* How often the resolution is halved from the component.
Level(t, c, r) == NumRes(t, c) - 1 - r

\* The extent of the tile in component c, and in resolution r of it.
CompLo(t, c, a) == CeilDiv(t.lo[a], t.comps[c].d[a])
CompHi(t, c, a) == CeilDiv(t.hi[a], t.comps[c].d[a])
ResLo(t, c, r, a) == CeilDivPow2(CompLo(t, c, a), Level(t, c, r))
ResHi(t, c, r, a) == CeilDivPow2(CompHi(t, c, a), Level(t, c, r))

\* pw and ph: the precincts of a resolution along an axis.
PrecinctsAlong(t, c, r, a) ==
    LET pd == t.comps[c].pd[r][a]
    IN  IF ResLo(t, c, r, a) = ResHi(t, c, r, a) THEN 0
        ELSE CeilDivPow2(ResHi(t, c, r, a), pd) - FloorDivPow2(ResLo(t, c, r, a), pd)

NumPrecincts(t, c, r) == PrecinctsAlong(t, c, r, "X") * PrecinctsAlong(t, c, r, "Y")

MaxPrec(t) ==
    Max(UNION {{NumPrecincts(t, c, r) : r \in Resolutions(t, c)} : c \in Comps(t)})

\* The side of a precinct on the reference grid, and the smallest of them in a
\* set of components.
PrecinctSide(t, c, r, a) == t.comps[c].d[a] * 2^(t.comps[c].pd[r][a] + Level(t, c, r))

SmallestSide(t, C, a) == Min(UNION {{PrecinctSide(t, c, r, a) : r \in Resolutions(t, c)} : c \in C})

\* Whether a resolution has a band with samples: the low-pass band of
\* resolution 0, the three others of a higher one.
BandLo(t, c, r, high, a) == CeilDiv(CompLo(t, c, a) - high * 2^Level(t, c, r), 2^(Level(t, c, r) + 1))
BandHi(t, c, r, high, a) == CeilDiv(CompHi(t, c, a) - high * 2^Level(t, c, r), 2^(Level(t, c, r) + 1))

HasSamples(t, c, r) ==
    IF r = 0
      THEN \A a \in Axes : ResLo(t, c, 0, a) # ResHi(t, c, 0, a)
      ELSE \E h \in [Axes -> 0 .. 1] :
               /\ \E a \in Axes : h[a] = 1
               /\ \A a \in Axes : BandLo(t, c, r, h[a], a) # BandHi(t, c, r, h[a], a)
===============================================================================
