-------------------------------- MODULE TagTree --------------------------------
(***************************************************************************)
(* The tag tree of internal/tgt: a pyramid over the code-blocks of a        *)
(* precinct whose nodes hold the least value below them.  Both sides of a   *)
(* packet header keep one and learn the same of it, bit by bit, across the  *)
(* layers.                                                                  *)
(*                                                                          *)
(* A node is <<level, x, y>>: level 0 is the leaves, and the parent of a    *)
(* node is the one at half its place (what linkParents makes of the array). *)
(***************************************************************************)
LOCAL INSTANCE Integers
LOCAL INSTANCE Sequences
LOCAL INSTANCE SequencesExt

\* The value of a node that nothing is known of.
Unknown == 999

\* nplh, nplv: the nodes of a level along an axis of n leaves.
Along(n, level) == (n + 2 ^ level - 1) \div 2 ^ level

\* numLevels: the least level of one node is the last.
Levels(w, h) == CHOOSE l \in 1 .. w + h :
                    /\ Along(w, l - 1) * Along(h, l - 1) = 1
                    /\ \A k \in 1 .. l - 1 : Along(w, k - 1) * Along(h, k - 1) > 1

Nodes(w, h) ==
    UNION { {<<l, x, y>> : x \in 0 .. Along(w, l) - 1, y \in 0 .. Along(h, l) - 1}
            : l \in 0 .. Levels(w, h) - 1 }

\* The nodes from the root down to leaf number i.
Path(w, h, i) ==
    [k \in 1 .. Levels(w, h) |->
        LET l == Levels(w, h) - k IN <<l, (i % w) \div 2 ^ l, (i \div w) \div 2 ^ l>>]

\* Reset
Fresh(w, h) == [n \in Nodes(w, h) |-> [value |-> Unknown, low |-> 0, known |-> FALSE]]

\* SetValue: the value goes up while it lowers the node's.
SetValue(tree, path, v) ==
    [n \in DOMAIN tree |->
        IF \E k \in 1 .. Len(path) :
              path[k] = n /\ \A j \in k .. Len(path) : tree[path[j]].value > v
          THEN [tree[n] EXCEPT !.value = v]
          ELSE tree[n]]

Larger(a, b) == IF a > b THEN a ELSE b
Smaller(a, b) == IF a < b THEN a ELSE b

\* What Encode does at a node from lower bound from on: a zero for each step of the
\* bound, a one where the value is reached for the first time.
PutBound(s, n, threshold, from, to) ==
    [tree |-> [s.tree EXCEPT ![n].low = to, ![n].known = @ \/ to < threshold],
     low |-> to,
     bits |-> s.bits \o [i \in 1 .. to - from |-> 0]
                     \o (IF to < threshold /\ ~s.tree[n].known THEN <<1>> ELSE <<>>)]

EncodeFrom(s, n, threshold, from) ==
    PutBound(s, n, threshold, from, Larger(from, Smaller(s.tree[n].value, threshold)))

EncodeNode(s, n, threshold) == EncodeFrom(s, n, threshold, Larger(s.low, s.tree[n].low))

\* Encode: from the root to the leaf.
Encode(tree, path, threshold) ==
    FoldLeft(LAMBDA s, n : EncodeNode(s, n, threshold),
             [tree |-> tree, low |-> 0, bits |-> <<>>], path)

\* A bit of a header: behind its end there are zeros.
Got(h, i) == IF i <= Len(h) THEN h[i] ELSE 0

\* The zeros of h from place at on, at most room.
ZerosAt(h, at, room) ==
    CHOOSE z \in 0 .. room :
        /\ z < room => Got(h, at + z) = 1
        /\ \A i \in 0 .. z - 1 : Got(h, at + i) = 0

\* What Decode does at a node from lower bound from on, of the bits of h from place
\* s.at on: each zero raises the bound, a one fixes the value there.
TakeBound(s, n, from, zeros, room) ==
    [tree |-> [s.tree EXCEPT ![n].low = from + zeros,
                             ![n].value = IF zeros < room THEN from + zeros ELSE @],
     low |-> from + zeros,
     at |-> s.at + zeros + IF zeros < room THEN 1 ELSE 0]

DecodeRoom(s, n, from, room, h) == TakeBound(s, n, from, ZerosAt(h, s.at, room), room)

DecodeFrom(s, n, threshold, from, h) ==
    DecodeRoom(s, n, from, Larger(0, Smaller(s.tree[n].value, threshold) - from), h)

DecodeNode(s, n, threshold, h) == DecodeFrom(s, n, threshold, Larger(s.low, s.tree[n].low), h)

\* Decode: from the root to the leaf.
Decode(tree, path, threshold, at, h) ==
    FoldLeft(LAMBDA r, n : DecodeNode(r, n, threshold, h),
             [tree |-> tree, low |-> 0, at |-> at], path)

\* The value of the leaf, as far as it is known.
ValueAt(tree, path) == tree[path[Len(path)]].value
===============================================================================
