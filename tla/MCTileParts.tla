------------------------------ MODULE MCTileParts ------------------------------
(***************************************************************************)
(* The tile-part reader on small codestreams of two tiles.  A file is an    *)
(* order of tile-parts, a way of announcing their number, and a place where *)
(* the file ends.                                                           *)
(***************************************************************************)
EXTENDS TileParts, SequencesExt

MCNumTiles == 2

\* The orders: one tile-part a tile, interleaved ones, three of one tile, and a
\* tile-part that is missing or repeated.
Orders == { <<0, 1>>, <<1, 0>>, <<0, 1, 0>>, <<0, 0, 1, 1>>, <<1, 0, 0, 1>>,
            <<0, 1, 0, 1>>, <<0, 0, 1, 0, 1, 1>>, <<0, 0, 1, 1, 1, 0>> }

\* The number of tile-parts of tile t in order o, up to position i.
CountOf(o, i, t) == Cardinality({j \in 1 .. i : o[j] = t})

\* TNsot: right, left open, announced by the last tile-part only, or one short.
Announced(how, n, k) ==
    CASE how = "all" -> n
      [] how = "none" -> 0
      [] how = "last" -> IF k = n - 1 THEN n ELSE 0
      [] how = "short" -> IF n > 1 THEN n - 1 ELSE n

\* The tile-parts; the second one of tile 0 carries no data, the first one of
\* tile 1 has another marker segment in its header.
PartsFor(o, how, open, lost) ==
    [i \in 1 .. Len(o) |->
        LET t == o[i]  k == CountOf(o, i, t) - 1
        IN  [tile |-> t,
             tp |-> IF lost /\ i = Len(o) THEN k + 1 ELSE k,
             tn |-> Announced(how, CountOf(o, Len(o), t), k),
             len |-> IF t = 0 /\ k = 1 THEN 0 ELSE 3,
             psot0 |-> open /\ i = Len(o),
             hdr |-> IF t = 1 /\ k = 0 THEN 1 ELSE 0]]

SizeOf(ps) == FoldLeft(LAMBDA n, p : n + PartLen(p), 0, ps)

\* Where a file ends: whole, or cut at any byte of the end of the last tile-part
\* and its EOC, or at its header or just before it.
Ends(ps, n) ==
    LET last == SizeOf(ps) - PartLen(ps[Len(ps)])
    IN  {e \in 2 .. n : e >= n - 4 \/ e - last \in {-3, -1, 0, 1, 2, 3, 12, 14}}

\* how the number of tile-parts is announced, Psot = 0 in the last one, a
\* tile-part lost before the last one, EOC present.
Variants ==
    {<<how, open, FALSE, eoc>> : how \in {"all", "none"}, open \in BOOLEAN, eoc \in BOOLEAN}
    \union {<<how, open, FALSE, TRUE>> : how \in {"last"}, open \in BOOLEAN}
    \union {<<"short", FALSE, FALSE, TRUE>>, <<"all", FALSE, TRUE, TRUE>>}

MCInputs ==
    UNION { LET ps == PartsFor(o, v[1], v[2], v[3])
                n == SizeOf(ps) + IF v[4] THEN 2 ELSE 0
            IN  {[parts |-> ps, eoc |-> v[4], limit |-> e] : e \in Ends(ps, n)}
          : o \in Orders, v \in Variants }

===============================================================================
