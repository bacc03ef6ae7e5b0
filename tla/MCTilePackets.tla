----------------------------- MODULE MCTilePackets ----------------------------
(* Small tiles for TilePackets. *)
EXTENDS TilePackets

At(x, y) == [a \in Axes |-> IF a = "X" THEN x ELSE y]

\* A component sampled every dx and dy, with the precinct sizes of its
\* resolutions.
Comp(dx, dy, pd) == [d |-> At(dx, dy), pd |-> [r \in 0 .. Len(pd) - 1 |-> pd[r + 1]]]

Components(comps) == [c \in 0 .. Len(comps) - 1 |-> comps[c + 1]]

\* The tile with number tileno of an image divided into columns of a width, and
\* the only tile of one.
Column(img, width, tileno, comps) ==
    LET grid == [tw |-> CeilDiv(img.hi["X"], width), origin |-> At(0, 0), size |-> At(width, 8)]
    IN  TileRect(img, grid, tileno) @@ [comps |-> Components(comps)]

Image(x0, y0, x1, y1, comps) == Column([lo |-> At(x0, y0), hi |-> At(x1, y1)], 8, 0, comps)

Tile(image, layers, prg, pocs, flag) ==
    [lo |-> image.lo, hi |-> image.hi, comps |-> image.comps,
     layers |-> layers, prg |-> prg, pocs |-> pocs, flag |-> flag]

Poc(r0, c0, l1, r1, c1, prg) == [r0 |-> r0, c0 |-> c0, l1 |-> l1, r1 |-> r1, c1 |-> c1, prg |-> prg]

-------------------------------------------------------------------------------
(* The tiles. *)

\* One component whose precincts cut both resolutions.
Aligned == Image(0, 0, 8, 4, <<Comp(1, 1, <<At(1, 1), At(2, 2)>>)>>)

\* A subsampled second component; resolutions with one precinct and with several.
Two == Image(0, 0, 4, 4, <<Comp(1, 1, <<At(1, 1), At(1, 2)>>), Comp(2, 2, <<At(1, 1), At(1, 2)>>)>>)
Sub == Image(0, 0, 8, 4, <<Comp(1, 1, <<At(1, 1), At(2, 2)>>), Comp(2, 2, <<At(1, 1), At(2, 2)>>)>>)

\* A tile that begins in the middle of a precinct.
Offset == Image(3, 1, 8, 4, <<Comp(1, 1, <<At(1, 1), At(1, 1)>>), Comp(1, 1, <<At(1, 1), At(1, 1)>>)>>)

\* Components with different numbers of resolutions and precinct sizes.
Coc == Image(1, 1, 5, 4, <<Comp(1, 1, <<At(0, 1), At(1, 1)>>), Comp(2, 1, <<At(1, 0)>>)>>)

\* The second of two tiles so narrow that one resolution has no samples.
Thin == Column([lo |-> At(0, 0), hi |-> At(2, 4)], 1, 1, [i \in 1 .. 2 |-> Comp(1, 1, <<At(1, 1), At(1, 1)>>)])

\* As many precincts in each resolution, of opposite shapes.
Even == Image(0, 0, 8, 8, [i \in 1 .. 2 |-> Comp(1, 1, <<At(0, 3), At(3, 1)>>)])

\* A tile that begins in the middle of a precinct of its lowest resolution.
Uneven == Image(3, 0, 8, 2, [i \in 1 .. 2 |-> Comp(1, 1, <<At(1, 1), At(1, 1), At(1, 1)>>)])

Geometries == {Aligned, Two, Sub, Offset, Coc, Thin, Even}
Flags == {"R", "L", "C"}
SpatialOrders == {"RPCL", "PCRL", "CPRL"}
OrderPairs == {"LRCP", "CPRL", "PCRL"} \X {"RPCL", "RLCP"}

\* Progression changes: by resolution, by component, and a first layer of the
\* lowest resolution ahead of everything.
ByResolution(pq) == <<Poc(0, 0, 2, 1, 2, pq[1]), Poc(1, 0, 2, 2, 2, pq[2])>>
ByComponent(pq) == <<Poc(0, 0, 2, 2, 1, pq[1]), Poc(0, 1, 2, 2, 2, pq[2])>>
FirstLayer(pq) == <<Poc(0, 0, 1, 1, 2, pq[1]), Poc(0, 0, 2, 2, 2, pq[2])>>

MCDecodeInputs ==
    {Tile(g, layers, prg, <<>>, "off") : g \in Geometries, layers \in 1 .. 2, prg \in Orders}
    \union UNION {{Tile(g, 2, "LRCP", ByResolution(pq), "off"),
                   Tile(g, 2, "LRCP", FirstLayer(pq), "off")} : g \in {Two, Offset}, pq \in OrderPairs}

\* The tiles, orders and flags with which the encoder keeps to the order.
MCEncodeInputs ==
    {Tile(g, 2, prg, <<>>, "off") : g \in Geometries, prg \in Orders}
    \union {Tile(g, 2, prg, <<>>, flag) : g \in {Aligned, Two, Sub, Offset}, prg \in SpatialOrders, flag \in Flags}
    \union {Tile(g, 2, prg, <<>>, flag) : g \in {Aligned, Even}, prg \in {"LRCP", "RLCP"}, flag \in Flags}
    \union UNION {{Tile(g, 2, "LRCP", ByResolution(pq), "off"),
                   Tile(g, 2, "LRCP", ByComponent(pq), "off")} : g \in {Two, Even}, pq \in OrderPairs}

\* A tile for which it does not.
MCUnevenInputs == {Tile(Uneven, 1, "RPCL", <<>>, "C")}
MCNoInputs == {}
=============================================================================
