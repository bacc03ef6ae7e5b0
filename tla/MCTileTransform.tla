---------------------------- MODULE MCTileTransform ----------------------------
EXTENDS TileTransform

\* Samples without a pattern the filters could keep.
Sample(x, y) == ((x * 37 + y * 61 + x * x * 11 + x * y * 29 + y * y * 7) % 47) - 23

Rect(x0, x1, y0, y1) == [lo |-> [X |-> x0, Y |-> y0], hi |-> [X |-> x1, Y |-> y1]]

\* Code-blocks of two by two, of one by one in the bands of resolution 1 on.
MCTile(rect, nr) ==
    [lo |-> rect.lo, hi |-> rect.hi,
     comps |-> [c \in {0} |-> [d |-> [X |-> 1, Y |-> 1], pd |-> [r \in 0..nr-1 |-> [X |-> 1, Y |-> 1]]]]]

Job(filter, rect, nr, min, got, win, threads) ==
    [filter |-> filter, tile |-> MCTile(rect, nr), min |-> min, got |-> got, win |-> win, threads |-> threads,
     picture |-> [p \in (rect.lo.X .. rect.hi.X) \X (rect.lo.Y .. rect.hi.Y) |->
                    IF filter = "5/3" THEN Sample(p[1], p[2]) ELSE Sample(p[1], p[2]) % Field]]

\* Whole tiles that begin at even and odd coordinates, one wide and one high too,
\* with one goroutine, with fewer than there are lines, and with more.
Wholes ==
    {Job("5/3", rect, 3, 3, 3, rect, threads) : rect \in {Rect(1, 6, 0, 4), Rect(4, 7, 3, 8)}, threads \in {2, 3}}
      \cup {Job("9/7", rect, 2, 2, 2, rect, 2) : rect \in {Rect(1, 6, 0, 7), Rect(4, 9, 3, 8)}}
      \cup {Job(filter, rect, 3, 3, got, rect, 1) :
              filter \in {"5/3", "9/7"}, rect \in {Rect(3, 4, 0, 5), Rect(0, 5, 3, 4), Rect(6, 11, 1, 4)}, got \in 1..3}
      \cup {Job("5/3", Rect(0, 8, 1, 6), 3, 2, got, Rect(1, 7, 1, 5), 2) : got \in 1..2}

\* Every window along an axis of a long tile, two to four samples of the other.
Along(filter, lo, hi, nr, b0, b1, got) ==
    UNION {{Job(filter, Rect(lo, hi, b0, b1), nr, got, got, Rect(u, v, b0, b1), 1),
            Job(filter, Rect(b0, b1, lo, hi), nr, got, got, Rect(b0, b1, u, v), 1)} :
              <<u, v>> \in {w \in (lo .. hi - 1) \X (lo + 1 .. hi) : w[1] < w[2] /\ w # <<lo, hi>>}}

Windows ==
    Along("5/3", 0, 9, 3, 0, 2, 3) \cup Along("5/3", 3, 12, 4, 2, 5, 4) \cup Along("5/3", 5, 14, 3, 2, 3, 2)
      \cup Along("9/7", 3, 12, 3, 2, 5, 3)
      \cup {Job("9/7", Rect(lo, 40, 2, 3), 3, 3, 3, Rect(u, u + 2, 2, 3), 1) : lo \in {2, 3}, u \in {15, 16, 17, 18}}
      \cup {Job("5/3", Rect(1, 11, 2, 12), 3, 3, 3, Rect(u, u + 2, v, v + 3), 1) : u \in {1, 4, 7}, v \in {2, 5, 8}}

MCJobs == Wholes \cup Windows
================================================================================
