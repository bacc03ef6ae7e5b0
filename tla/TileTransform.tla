----------------------------- MODULE TileTransform -----------------------------
(***************************************************************************)
(* The wavelet transform of a tile-component, from the samples given to the *)
(* encoder to the samples the decoder returns: internal/dwt, with the part  *)
(* of internal/tcd that chooses between decoding the tile as a whole and    *)
(* decoding a window of it, and that chooses the code-blocks to decode.     *)
(*                                                                          *)
(* The whole tile is transformed in place, by goroutines that share its     *)
(* buffer: each has a share of the rows, and after all have ended, each has *)
(* a share of the columns.  The window is transformed in a sparse array     *)
(* through a scratch line, in which what the last line left stays where     *)
(* this one does not reach; the values this spoils must lie outside what is *)
(* asked for.  Tier 1 and 2 are exact here (CodeBlock, PacketHeader): a     *)
(* coefficient arrives as it left, or not at all.                           *)
(*                                                                          *)
(* A job has the filter; a tile of one component, number 0, with precincts  *)
(* of one code-block each; the resolutions to decode (min) and those of     *)
(* which packets arrived (got); the window on the component; the            *)
(* goroutines; and the picture, from coordinates to samples.                *)
(***************************************************************************)
EXTENDS Wavelet

CONSTANTS
    Jobs,
    V8    \* the lines the 9/7 filter takes at a time; 8 in the code

ASSUME V8Assumption == V8 \in Nat \ {0}

\* The component of a job, its picture, and what is asked of the decoder.
IsComponent(t) ==
    /\ \A a \in Axes : /\ t.lo[a] \in Nat /\ t.hi[a] \in Nat /\ t.lo[a] <= t.hi[a]
                       /\ t.comps[0].d[a] \in Nat \ {0}
    /\ NumRes(t, 0) \in Nat /\ Resolutions(t, 0) = 0 .. NumRes(t, 0) - 1
    /\ \A r \in Resolutions(t, 0), a \in Axes :
           t.comps[0].pd[r][a] \in Nat /\ (r > 0 => t.comps[0].pd[r][a] > 0)

Filters == {"5/3", "9/7"}
Values(filter) == IF filter = "5/3" THEN Int ELSE 0 .. Field - 1

ASSUME JobsAssumption ==
    \A j \in Jobs :
        /\ IsComponent(j.tile)
        /\ j.min \in 1 .. NumRes(j.tile, 0) /\ j.got \in 1 .. j.min
        /\ j.filter \in Filters /\ j.threads \in Int
        /\ \A a \in Axes : /\ j.win.lo[a] \in Nat /\ j.win.hi[a] \in Nat
                           /\ CompLo(j.tile, 0, a) <= j.win.lo[a] /\ j.win.lo[a] <= j.win.hi[a]
                           /\ j.win.hi[a] <= CompHi(j.tile, 0, a)
        /\ \A x \in CompLo(j.tile, 0, "X") .. CompHi(j.tile, 0, "X") - 1,
              y \in CompLo(j.tile, 0, "Y") .. CompHi(j.tile, 0, "Y") - 1 :
               j.picture[<<x, y>>] \in Values(j.filter)

VARIABLES
    job,
    stage,     \* encode, then rows and columns in turn, or wrows and wcolumns; done
    res,       \* the resolution being taken apart or put together
    data,      \* the buffer of the encoder's tile-component, then of the decoder's
    images,    \* the picture at each resolution, as the encoder made it
    todo,      \* from a goroutine to the lines it has left
    sa, mem,   \* the sparse array, and the scratch lines of the window
    next,      \* the line of the window that is next
    out        \* DataWin

vars == <<job, stage, res, data, images, todo, sa, mem, next, out>>

N == NumRes(job.tile, 0)
Lo(r, a) == ResLo(job.tile, 0, r, a)
Size(r, a) == ResHi(job.tile, 0, r, a) - Lo(r, a)
Cas(r, a) == Lo(r, a) % 2
Places(r) == (0 .. Size(r, "X") - 1) \X (0 .. Size(r, "Y") - 1)
Coord(p, a) == IF a = "X" THEN p[1] ELSE p[2]

Less(a, b) == IF a < b THEN 0 ELSE a - b

-----------------------------------------------------------------------------
(* The encoder.                                                            *)

TopLeft(buf, w, r) == [p \in Places(r) |-> buf[p[2] * w + p[1]]]

EncodedLevel(buf, w, r) ==
    ForwardRows(job.filter,
                ForwardColumns(job.filter, buf, w, Size(r, "X"), Size(r, "Y"), Cas(r, "Y")),
                w, Size(r, "Y"), Size(r, "X"), Cas(r, "X"))

EncodeLevel ==
    /\ stage = "encode" /\ res > 0
    /\ data' = EncodedLevel(data, Size(N - 1, "X"), res)
    /\ images' = [images EXCEPT ![res - 1] = TopLeft(data', Size(N - 1, "X"), res - 1)]
    /\ res' = res - 1
    /\ UNCHANGED <<job, stage, todo, sa, mem, next, out>>

-----------------------------------------------------------------------------
(* What is decoded.                                                        *)

\* A coordinate of the component on a band of resolution r that is high-pass
\* (1) or low-pass (0) along the axis.
BandCoord(v, r, high) ==
    LET nb == IF r = 0 THEN N - 1 ELSE N - r
        off == IF nb = 0 THEN 0 ELSE 2^(nb - 1) * high
    IN  IF nb > 0 /\ v <= off THEN 0 ELSE CeilDivPow2(v - off, nb)

\* Mutant: one fewer.
FilterMarginFewer == IF job.filter = "5/3" THEN 1 ELSE 2

\* The elements of a band around the window's that its filters may reach.
FilterMargin == IF job.filter = "5/3" THEN 2 ELSE 3

OfInterest(r, high, lo, hi) ==
    \A a \in Axes :
        /\ lo[a] < BandCoord(job.win.hi[a], r, high[a]) + FilterMargin
        /\ hi[a] > Less(BandCoord(job.win.lo[a], r, high[a]), FilterMargin)

\* The code-block of the band around coordinate u.
BandFirst(r, high, a) == IF r = 0 THEN Lo(0, a) ELSE BandLo(job.tile, 0, r, high, a)
BandEnd(r, high, a) == IF r = 0 THEN ResHi(job.tile, 0, 0, a) ELSE BandHi(job.tile, 0, r, high, a)
BlockSide(r, a) == 2^(job.tile.comps[0].pd[r][a] - IF r = 0 THEN 0 ELSE 1)
BlockLo(r, high, a, u) == Max({BandFirst(r, high, a), (u \div BlockSide(r, a)) * BlockSide(r, a)})
BlockHi(r, high, a, u) == Min({BandEnd(r, high, a), (u \div BlockSide(r, a) + 1) * BlockSide(r, a)})

\* The resolution whose bands hold place p of the buffer, and p on the band.
ResOf(p) == Min({r \in 0..N-1 : \A a \in Axes : Coord(p, a) < Size(r, a)})
HighAt(p, r) == [a \in Axes |-> IF r > 0 /\ Coord(p, a) >= Size(r - 1, a) THEN 1 ELSE 0]
OnBand(p, r, high) ==
    [a \in Axes |-> BandFirst(r, high[a], a) + Coord(p, a) - high[a] * Size(IF r = 0 THEN 0 ELSE r - 1, a)]

Decoded(r, high, u) ==
    /\ r < job.got
    /\ OfInterest(r, high, [a \in Axes |-> BlockLo(r, high[a], a, u[a])],
                           [a \in Axes |-> BlockHi(r, high[a], a, u[a])])

Arrived(p) ==
    Decoded(ResOf(p), HighAt(p, ResOf(p)), OnBand(p, ResOf(p), HighAt(p, ResOf(p))))

Delivered(p) == IF Arrived(p) THEN data[p[2] * Size(N - 1, "X") + p[1]] ELSE 0

\* A window that leaves out less than a sample of the resolution decoded.
WholeTile ==
    \A a \in Axes : /\ (job.win.lo[a] - Lo(N - 1, a)) \div 2^(N - job.min) = 0
                    /\ (ResHi(job.tile, 0, N - 1, a) - job.win.hi[a]) \div 2^(N - job.min) = 0

-----------------------------------------------------------------------------
(* The whole tile.                                                         *)

Stride == Size(job.min - 1, "X")

\* The lines are taken in units, of which each goroutine has a share and the
\* last one the rest; lines that make no unit are left to the caller.
Unit == IF job.filter = "5/3" THEN 1 ELSE V8
Workers(units) == Min({units, Max({1, job.threads})})
Chunks(units) ==
    IF Workers(units) <= 1 THEN <<<<0, units>>>>
    ELSE [g \in 1..Workers(units) |->
            <<(g - 1) * (units \div Workers(units)),
              IF g = Workers(units) THEN units ELSE g * (units \div Workers(units))>>]
Shares(total) == Chunks(total \div Unit)
UnitLines(u) == u * Unit .. (u + 1) * Unit - 1
RestOf(total) == (total \div Unit) * Unit .. total - 1

RowsDone(lines) == InverseRows(job.filter, data, Stride, lines, Size(res, "X"), Cas(res, "X"))
ColumnsDone(lines) == InverseColumns(job.filter, data, Stride, lines, Size(res, "Y"), Cas(res, "Y"))

Idle(g) == todo[g][1] = todo[g][2]
\* Mutant: the pass ends with the first goroutine.
AllEndedEarly == \E g \in DOMAIN todo : Idle(g)

AllEnded == \A g \in DOMAIN todo : Idle(g)

DecodeWhole ==
    /\ stage = "encode" /\ res = 0 /\ WholeTile
    /\ data' = [k \in 0 .. Stride * Size(job.min - 1, "Y") - 1 |-> Delivered(<<k % Stride, k \div Stride>>)]
    /\ IF job.got = 1 \/ Stride = 0
       THEN stage' = "done" /\ UNCHANGED <<res, todo>>
       ELSE stage' = "rows" /\ res' = 1 /\ todo' = Shares(Size(1, "Y"))
    /\ UNCHANGED <<job, images, sa, mem, next, out>>

Lines(g) ==
    /\ stage \in {"rows", "columns"} /\ ~Idle(g)
    /\ data' = IF stage = "rows" THEN RowsDone(UnitLines(todo[g][1])) ELSE ColumnsDone(UnitLines(todo[g][1]))
    /\ todo' = [todo EXCEPT ![g][1] = @ + 1]
    /\ UNCHANGED <<job, stage, res, images, sa, mem, next, out>>

EndRows ==
    /\ stage = "rows" /\ AllEnded
    /\ data' = RowsDone(RestOf(Size(res, "Y")))
    /\ stage' = "columns"
    /\ todo' = Shares(Size(res, "X"))
    /\ UNCHANGED <<job, res, images, sa, mem, next, out>>

EndColumns ==
    /\ stage = "columns" /\ AllEnded
    /\ data' = ColumnsDone(RestOf(Size(res, "X")))
    /\ IF res + 1 < job.got
       THEN stage' = "rows" /\ res' = res + 1 /\ todo' = Shares(Size(res + 1, "Y"))
       ELSE stage' = "done" /\ UNCHANGED <<res, todo>>
    /\ UNCHANGED <<job, images, sa, mem, next, out>>

-----------------------------------------------------------------------------
(* A window.                                                               *)

\* Mutant: as wide as the support of the low-pass filter at one level.
FilterWidthOneLevel == IF job.filter = "5/3" THEN 1 ELSE 2

\* The elements more, at either side, that a segment of the line takes in.
FilterWidth == IF job.filter = "5/3" THEN 2 ELSE 4
Grown(lo, hi, size) == <<Less(lo, FilterWidth), Min({hi + FilterWidth, size})>>

\* The elements of the low-pass and of the high-pass band that are used, and
\* the elements of resolution r they make.
LowSize(r, a) == Size(r - 1, a)
HighSize(r, a) == Size(r, a) - Size(r - 1, a)
Segment(r, a, high, size) ==
    Grown(Less(BandCoord(job.win.lo[a], r, high), BandFirst(r, high, a)),
          Less(BandCoord(job.win.hi[a], r, high), BandFirst(r, high, a)), size)
LowSeg(r, a) == Segment(r, a, 0, LowSize(r, a))
HighSeg(r, a) == Segment(r, a, 1, HighSize(r, a))

EvenSeg(r, a) == IF Cas(r, a) = 0 THEN LowSeg(r, a) ELSE HighSeg(r, a)
OddSeg(r, a) == IF Cas(r, a) = 0 THEN HighSeg(r, a) ELSE LowSeg(r, a)
Made(r, a) ==
    <<Min({2 * EvenSeg(r, a)[1], 2 * OddSeg(r, a)[1] + 1}),
      Min({Max({2 * EvenSeg(r, a)[2], 2 * OddSeg(r, a)[2] + 1}), Size(r, a)})>>

Seg(r, a) == [high \in BOOLEAN |-> IF high THEN HighSeg(r, a) ELSE LowSeg(r, a)]

\* The 5/3 filter clears the last element of a row, and the one after it.
Cleared(m, r) ==
    [k \in DOMAIN m |->
        IF job.filter = "5/3" /\ Made(r, "X")[2] < Size(r, "X") /\ k \in {Made(r, "X")[2] - 1, Made(r, "X")[2]}
        THEN 0 ELSE m[k]]

\* Only the elements of the segments are put in place: the rest is left over.
Filled(m, L, lines, n, cas, seg) ==
    [k \in DOMAIN m |->
        IF k % L \in DOMAIN lines /\ Within(k \div (2 * L), seg[IsHigh(k \div L, cas)])
        THEN lines[k % L][Place(k \div L, n, cas)] ELSE m[k]]

\* The scratch memory after lines of resolution r along axis a.
Through(m, L, lines, r, a) ==
    Inverted(job.filter, Filled(m, L, lines, Size(r, a), Cas(r, a), Seg(r, a)), L, Size(r, a), Cas(r, a), Seg(r, a))

RowLanes == IF job.filter = "5/3" THEN 1 ELSE V8
ColLanes == IF job.filter = "5/3" THEN 4 ELSE V8

Longest == Max({Size(r, a) : r \in 1 .. job.got - 1, a \in Axes})

Empty == \E a \in Axes : Size(job.got - 1, a) = 0

DecodeWindow ==
    /\ stage = "encode" /\ res = 0 /\ ~WholeTile
    /\ sa' = [p \in Places(job.got - 1) |-> Delivered(p)]
    /\ res' = 1 /\ next' = 0
    /\ IF job.got = 1 \/ Empty
       THEN stage' = "read" /\ UNCHANGED mem
       ELSE stage' = "wrows" /\ mem' = [k \in 0 .. ColLanes * Longest - 1 |-> 0]
    /\ UNCHANGED <<job, data, images, todo, out>>

\* The first of the rows taken together, if the vertical filter will use them.
Used(j, seg) == j + RowLanes - 1 >= seg[1] /\ j < seg[2]
RowsLeft ==
    {j \in next .. Size(res, "Y") - 1 :
        /\ j % RowLanes = 0
        /\ Used(j, LowSeg(res, "Y")) \/ Used(j - LowSize(res, "Y"), HighSeg(res, "Y"))}

WindowRows ==
    /\ stage = "wrows" /\ RowsLeft # {}
    /\ LET j == Min(RowsLeft)
           end == Min({j + RowLanes, Size(res, "Y")})
       IN  /\ mem' = Through(Cleared(mem, res), RowLanes,
                             [l \in 0 .. end - j - 1 |-> [x \in 0 .. Size(res, "X") - 1 |-> sa[<<x, j + l>>]]],
                             res, "X")
           /\ sa' = [p \in DOMAIN sa |->
                        IF Within(p[2], <<j, end>>) /\ Within(p[1], Made(res, "X"))
                        THEN mem'[p[1] * RowLanes + p[2] - j] ELSE sa[p]]
           /\ next' = end
    /\ UNCHANGED <<job, stage, res, data, images, todo, out>>

WindowRowsEnd ==
    /\ stage = "wrows" /\ RowsLeft = {}
    /\ stage' = "wcolumns" /\ next' = Made(res, "X")[1]
    /\ UNCHANGED <<job, res, data, images, todo, sa, mem, out>>

WindowColumns ==
    /\ stage = "wcolumns" /\ next < Made(res, "X")[2]
    /\ LET end == Min({next + ColLanes, Made(res, "X")[2]})
       IN  /\ mem' = Through(mem, ColLanes, [l \in 0 .. end - next - 1 |->
                                               [y \in 0 .. Size(res, "Y") - 1 |-> sa[<<next + l, y>>]]], res, "Y")
           /\ sa' = [p \in DOMAIN sa |->
                        IF Within(p[1], <<next, end>>) /\ Within(p[2], Made(res, "Y"))
                        THEN mem'[p[2] * ColLanes + p[1] - next] ELSE sa[p]]
           /\ next' = end
    /\ UNCHANGED <<job, stage, res, data, images, todo, out>>

WindowColumnsEnd ==
    /\ stage = "wcolumns" /\ next >= Made(res, "X")[2]
    /\ IF res + 1 < job.got
       THEN stage' = "wrows" /\ res' = res + 1 /\ next' = 0
       ELSE stage' = "read" /\ UNCHANGED <<res, next>>
    /\ UNCHANGED <<job, data, images, todo, sa, mem, out>>

\* The window at the resolution decoded, on the places of the buffer.
WinOf(a) ==
    <<CeilDivPow2(job.win.lo[a], N - job.got) - Lo(job.got - 1, a),
      CeilDivPow2(job.win.hi[a], N - job.got) - Lo(job.got - 1, a)>>
InWindow == {p \in Places(job.got - 1) : \A a \in Axes : Within(Coord(p, a), WinOf(a))}

ReadWindow ==
    /\ stage = "read"
    /\ out' = [p \in InWindow |-> sa[p]]
    /\ stage' = "done"
    /\ UNCHANGED <<job, res, data, images, todo, sa, mem, next>>

Init ==
    /\ job \in Jobs
    /\ stage = "encode" /\ res = N - 1
    /\ data = [k \in 0 .. Size(N - 1, "X") * Size(N - 1, "Y") - 1 |->
                 job.picture[<<Lo(N - 1, "X") + (k % Size(N - 1, "X")), Lo(N - 1, "Y") + (k \div Size(N - 1, "X"))>>]]
    /\ images = [r \in 0..N-1 |-> IF r = N - 1 THEN TopLeft(data, Size(N - 1, "X"), r) ELSE <<>>]
    /\ todo = <<>> /\ sa = <<>> /\ mem = <<>> /\ next = 0 /\ out = <<>>

Next ==
    \/ EncodeLevel
    \/ DecodeWhole \/ (\E g \in DOMAIN todo : Lines(g)) \/ EndRows \/ EndColumns
    \/ DecodeWindow \/ WindowRows \/ WindowRowsEnd \/ WindowColumns \/ WindowColumnsEnd \/ ReadWindow

Spec == Init /\ [][Next]_vars

-----------------------------------------------------------------------------
(* Properties.                                                             *)

\* However the goroutines of the two passes are interleaved, the tile ends as
\* the picture the encoder saw at the resolution decoded, within what was
\* asked for (dwt53.go, DecodeTile and encodeProcedure53; parallel.go,
\* parChunksI32; tcd/decode.go, isWholeTilecompDecoding).
WholeExact ==
    stage = "done" /\ WholeTile =>
        \A p \in InWindow : data[p[2] * Stride + p[1]] = images[job.got - 1][p]

\* FilterMargin is enough for the 5/3 filter, and for two levels of the 9/7 filter; from the third
\* on, that one reaches coefficients of code-blocks that are not decoded (tcd/decode.go:362).
WithinReach == job.filter = "5/3" \/ job.got <= 3

\* As far as that reaches, a window holds the same samples as the whole picture has
\* there, whatever the code-blocks left out and the values left in the scratch line
\* were (partial.go, DecodePartialTile; tcd/decode.go, isSubbandAreaOfInterest).
WindowExact ==
    stage = "done" /\ ~WholeTile /\ WithinReach =>
        \A p \in InWindow : out[p] = images[job.got - 1][p]
===============================================================================
