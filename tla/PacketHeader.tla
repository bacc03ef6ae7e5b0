------------------------------ MODULE PacketHeader -----------------------------
(***************************************************************************)
(* The packets of one precinct in internal/t2: encodePacket, in the rate    *)
(* allocation's simulation and in the final pass, and decodePacket and      *)
(* skipPacket on what it wrote, perhaps cut short.  The header of a layer's *)
(* packet depends on what the layers before have said: the tag trees, the   *)
(* length bits of a code-block and its open segment are kept by both sides, *)
(* and nothing in the stream says when they disagree.                       *)
(*                                                                          *)
(* A header is a sequence of bits (BitIO says how they become bytes), a     *)
(* body a sequence of byte ranges.  Code-blocks are <<band, number>>, bands *)
(* those that are not empty.                                                *)
(***************************************************************************)
EXTENDS Integers, Sequences, SequencesExt, TagTree

CONSTANT Inputs     \* the precincts: see IsInput

\* zero: its missing bit-planes; lens: the length of each coding pass, of which
\* there are one and then three for each bit-plane; trial and layers: the passes of
\* it in each layer, in the simulation and in the end.
IsBlock(x) ==
    /\ x.zero \in Nat
    /\ x.lens \in Seq(Nat) /\ Len(x.lens) % 3 = 1
    /\ x.trial \in Seq(Nat) /\ x.layers \in Seq(Nat) /\ Len(x.trial) = Len(x.layers)
    /\ \A f \in {x.trial, x.layers} : FoldLeft(LAMBDA a, n : a + n, 0, f) <= Len(x.lens)

\* style: cblksty; eph: CPCstyEPH; a band is w by h code-blocks.
IsInput(p) ==
    /\ p.style \in {"plain", "termall", "lazy"}
    /\ p.eph \in BOOLEAN
    /\ \A b \in DOMAIN p.bands :
          LET band == p.bands[b]
          IN  /\ Len(band.blocks) = band.w * band.h
              /\ \A c \in DOMAIN band.blocks : IsBlock(band.blocks[c])

ASSUME PacketHeaderAssumption == \A p \in Inputs : IsInput(p)

VARIABLES
    prec,       \* the precinct, an input
    strict,     \* cp.Strict
    wanted,     \* NumLayersToDecode, or 0 when the precinct is not of interest
    enc,        \* the encoder's precinct, by band: trees and code-blocks
    layer,      \* layno of the next packet
    stream,     \* the packets written: header bits and body
    ended,      \* where the stream has ended: "no", or in a packet's "header" or "body"
    dec,        \* the decoder's precinct
    took,       \* history: what the decoder took of each packet that was whole
    pc

request == <<prec, strict, wanted>>
vars == <<request, enc, layer, stream, ended, dec, took, pc>>

NumLayers == Len(prec.bands[1].blocks[1].layers)
Bands == 1 .. Len(prec.bands)
BlocksOf(b) == 1 .. Len(prec.bands[b].blocks)
Block(b, c) == prec.bands[b].blocks[c]
PathTo(b, c) == Path(prec.bands[b].w, prec.bands[b].h, c - 1)
Empty(b) == Fresh(prec.bands[b].w, prec.bands[b].h)

Sum(s) == FoldLeft(LAMBDA a, x : a + x, 0, s)
Log2(n) == IF n <= 1 THEN 0 ELSE CHOOSE k \in 1 .. n : 2 ^ k <= n /\ n < 2 ^ (k + 1)

-------------------------------------------------------------------------------
(* Codes. *)

\* Write: n bits of v, most significant first.
BitsOf(v, n) == [i \in 1 .. n |-> (v \div 2 ^ (n - i)) % 2]

\* putcommacode
Comma(n) == Append([i \in 1 .. n |-> 1], 0)

\* putnumpasses
PassesCode(n) ==
    CASE n = 1 -> <<0>>
      [] n = 2 -> <<1, 0>>
      [] n \in 3 .. 5 -> BitsOf(12 + n - 3, 4)
      [] n \in 6 .. 36 -> BitsOf(480 + n - 6, 9)
      [] n \in 37 .. 164 -> BitsOf(65408 + n - 37, 16)

\* Read: n bits at place i; Got(h, i) is the bit there.
Number(i, n, h) == FoldLeft(LAMBDA v, k : 2 * v + Got(h, i + k - 1), 0, [k \in 1 .. n |-> k])

\* getcommacode
Ones(i, h) == CHOOSE n \in 0 .. Len(h) : Got(h, i + n) = 0 /\ \A k \in 0 .. n - 1 : Got(h, i + k) = 1

\* getnumpasses: the number, and the bits it takes.
PassesAt(i, h) ==
    IF Got(h, i) = 0 THEN [n |-> 1, bits |-> 1]
    ELSE IF Got(h, i + 1) = 0 THEN [n |-> 2, bits |-> 2]
    ELSE IF Number(i + 2, 2, h) # 3 THEN [n |-> 3 + Number(i + 2, 2, h), bits |-> 4]
    ELSE IF Number(i + 4, 5, h) # 31 THEN [n |-> 6 + Number(i + 4, 5, h), bits |-> 9]
    ELSE [n |-> 37 + Number(i + 9, 7, h), bits |-> 16]
-------------------------------------------------------------------------------
(* encodePacket. *)

\* encIsTermPass: the codeword is terminated behind pass i of a code-block.
Terminated(b, c, i) ==
    \/ i = Len(Block(b, c).lens)
    \/ prec.style = "termall"
    \/ prec.style = "lazy" /\ (i = 10 \/ (i > 10 /\ i % 3 # 2))

\* The passes from + 1 .. from + n as pieces of codewords: [num, len].
Pieces(b, c, from, n) ==
    FoldLeft(LAMBDA s, i :
                 LET piece == [num |-> s.open.num + 1, len |-> s.open.len + Block(b, c).lens[i]]
                 IN  IF Terminated(b, c, i) \/ i = from + n
                       THEN [done |-> Append(s.done, piece), open |-> [num |-> 0, len |-> 0]]
                       ELSE [s EXCEPT !.open = piece],
             [done |-> <<>>, open |-> [num |-> 0, len |-> 0]],
             [k \in 1 .. n |-> from + k]).done

\* Mutant: a length of n bits is given n - 1.
IncrementShort(lenbits, pieces) ==
    Max({0} \union {Log2(pieces[k].len) - (lenbits + Log2(pieces[k].num)) : k \in DOMAIN pieces})

\* By how much the length indicator has to grow for the pieces to fit.
Increment(lenbits, pieces) ==
    Max({0} \union {Log2(pieces[k].len) + 1 - (lenbits + Log2(pieces[k].num))
                    : k \in DOMAIN pieces})

\* In the following s is the band of code-block c and the bits of the header so far.
NotYet(s, c) == s.band.blocks[c].passes = 0

PutIncl(s, r) == [band |-> [s.band EXCEPT !.incl = r.tree], bits |-> s.bits \o r.bits]

\* Whether it is in this layer: by the tree until it is, by a bit from then on.
PutInclusion(s, b, c, n, lay) ==
    IF NotYet(s, c) THEN PutIncl(s, Encode(s.band.incl, PathTo(b, c), lay + 1))
    ELSE [s EXCEPT !.bits = Append(@, IF n # 0 THEN 1 ELSE 0)]

PutImsb(s, c, r) ==
    [band |-> [s.band EXCEPT !.imsb = r.tree, !.blocks[c].lenbits = 3], bits |-> s.bits \o r.bits]

\* Its missing bit-planes, the first time.
PutPlanes(s, b, c) ==
    IF NotYet(s, c) THEN PutImsb(s, c, Encode(s.band.imsb, PathTo(b, c), Unknown)) ELSE s

\* The number of passes, the increment of the length bits and the lengths.
PutLengths(s, c, n, pieces, lenbits, increment) ==
    [band |-> [s.band EXCEPT !.blocks[c].lenbits = lenbits + increment],
     bits |-> s.bits \o PassesCode(n) \o Comma(increment)
                \o FlattenSeq([k \in DOMAIN pieces |->
                        BitsOf(pieces[k].len, lenbits + increment + Log2(pieces[k].num))])]

PutPasses(s, c, n, pieces) ==
    PutLengths(s, c, n, pieces, s.band.blocks[c].lenbits,
               Increment(s.band.blocks[c].lenbits, pieces))

\* The header of code-block c with n passes in this layer.
EncodeBlock(s, b, c, n, lay) ==
    IF n = 0 THEN PutInclusion(s, b, c, n, lay)
    ELSE PutPasses(PutPlanes(PutInclusion(s, b, c, n, lay), b, c), c, n,
                   Pieces(b, c, s.band.blocks[c].passes, n))

\* Mutant: the trees stay, the code-blocks start afresh.
ForgetPassesOnly(e) ==
    [b \in Bands |-> [e[b] EXCEPT !.blocks = [c \in BlocksOf(b) |-> [@[c] EXCEPT !.passes = 0]]]]

\* Layer 0 resets the precinct, whatever it was left in.
ResetEncoder(e) ==
    [b \in Bands |->
        [incl |-> Empty(b),
         imsb |-> FoldLeft(LAMBDA t, c : SetValue(t, PathTo(b, c), Block(b, c).zero),
                           Empty(b), [c \in BlocksOf(b) |-> c]),
         blocks |-> [c \in BlocksOf(b) |-> [e[b].blocks[c] EXCEPT !.passes = 0]]]]

\* The header of a band: the newly included code-blocks enter the inclusion tree
\* first.  n[c] is the number of passes of code-block c.
EncodeBand(band, b, n, lay) ==
    LET incl == FoldLeft(LAMBDA t, c : IF band.blocks[c].passes = 0 /\ n[c] # 0
                                         THEN SetValue(t, PathTo(b, c), lay) ELSE t,
                         band.incl, [c \in BlocksOf(b) |-> c])
    IN  FoldLeft(LAMBDA s, c : EncodeBlock(s, b, c, n[c], lay),
                 [band |-> [band EXCEPT !.incl = incl], bits |-> <<>>],
                 [c \in BlocksOf(b) |-> c])

\* The body of a packet with n[b][c] passes, as ranges [b, c, len].
BodyOf(e, n) ==
    LET places == SelectSeq(FlattenSeq([b \in Bands |-> [c \in BlocksOf(b) |-> <<b, c>>]]),
                            LAMBDA x : n[x[1]][x[2]] # 0)
        Range1(b, c) == [b |-> b, c |-> c,
                         len |-> Sum(SubSeq(Block(b, c).lens, e[b].blocks[c].passes + 1,
                                            e[b].blocks[c].passes + n[b][c]))]
    IN  [k \in DOMAIN places |-> Range1(places[k][1], places[k][2])]

PacketOf(done, body) ==
    [enc |-> [b \in Bands |-> done[b].band],
     bits |-> <<1>> \o FlattenSeq([b \in Bands |-> done[b].bits]),
     body |-> body]

PacketFrom(e, n, lay) ==
    PacketOf([b \in Bands |-> EncodeBand(e[b], b, n[b], lay)], BodyOf(e, n))

\* The packet of layer lay: the precinct behind its header, the header's bits, and
\* the body.
Packet(e, n, lay) == PacketFrom(IF lay = 0 THEN ResetEncoder(e) ELSE e, n, lay)

\* The body: each code-block written advances its number of passes.
Advance(e, body, n) ==
    [b \in Bands |->
        [e[b] EXCEPT !.blocks =
            [c \in BlocksOf(b) |->
                IF \E k \in DOMAIN body : body[k].b = b /\ body[k].c = c
                  THEN [@[c] EXCEPT !.passes = @ + n[b][c]] ELSE @[c]]]]

Trial(lay) == [b \in Bands |-> [c \in BlocksOf(b) |-> Block(b, c).trial[lay + 1]]]
Final(lay) == [b \in Bands |-> [c \in BlocksOf(b) |-> Block(b, c).layers[lay + 1]]]

\* THRESH_CALC: packets are made to see what they take.
SimulatePacket ==
    /\ pc = "simulate"
    /\ layer < NumLayers
    /\ \E p \in {Packet(enc, Trial(layer), layer)} : enc' = Advance(p.enc, p.body, Trial(layer))
    /\ layer' = layer + 1
    /\ UNCHANGED <<request, stream, ended, dec, took, pc>>

\* One that does not fit stops the simulation in its header or its body.
StopSimulation ==
    /\ pc = "simulate"
    /\ layer < NumLayers
    /\ \E p \in {Packet(enc, Trial(layer), layer)} :
       \E k \in 0 .. Len(p.body) :
          enc' = Advance(p.enc, SubSeq(p.body, 1, k), Trial(layer))
    /\ layer' = 0
    /\ pc' = "write"
    /\ UNCHANGED <<request, stream, ended, dec, took>>

\* The final pass begins behind a simulation, or without one.
StartFinalPass ==
    /\ pc = "simulate"
    /\ layer' = 0
    /\ pc' = "write"
    /\ UNCHANGED <<request, enc, stream, ended, dec, took>>

WritePacket ==
    /\ pc = "write"
    /\ layer < NumLayers
    /\ \E p \in {Packet(enc, Final(layer), layer)} :
       /\ enc' = Advance(p.enc, p.body, Final(layer))
       /\ stream' = Append(stream, [bits |-> p.bits, body |-> p.body])
    /\ layer' = layer + 1
    /\ UNCHANGED <<request, ended, dec, took, pc>>

\* All layers are written; the decoder has code-blocks that nothing is known of.
StartReading ==
    /\ pc = "write"
    /\ layer = NumLayers
    /\ layer' = 0
    /\ pc' = "read"
    /\ UNCHANGED <<request, enc, stream, ended, dec, took>>

-------------------------------------------------------------------------------
(* decodePacket and skipPacket. *)

FreshBlock == [numsegs |-> 0, numnew |-> 0, lenbits |-> 0, zero |-> 0, corrupted |-> FALSE,
               chunks |-> <<>>, realsegs |-> 0, segs |-> <<>>]

\* Layer 0 resets the trees and the segments.
ResetDecoder(d) ==
    [b \in Bands |->
        [incl |-> Empty(b),
         imsb |-> Empty(b),
         blocks |-> [c \in BlocksOf(b) |-> [d[b].blocks[c] EXCEPT !.numsegs = 0, !.realsegs = 0]]]]

\* Mutant: the segments alternate from the first one on.
MaxPassesAlternate(segs, k) ==
    CASE prec.style = "termall" -> 1
      [] prec.style = "lazy" -> IF k = 1 THEN 10 ELSE IF segs[k - 1].max = 1 THEN 2 ELSE 1
      [] prec.style = "plain" -> 109

\* initSeg: the most passes a codeword segment can have.
MaxPasses(segs, k) ==
    CASE prec.style = "termall" -> 1
      [] prec.style = "lazy" -> IF k = 1 THEN 10 ELSE IF segs[k - 1].max \in {1, 10} THEN 2 ELSE 1
      [] prec.style = "plain" -> 109

InitSeg(segs, k) ==
    Append(SubSeq(segs, 1, k - 1),
           [max |-> MaxPasses(segs, k), passes |-> 0, new |-> 0, newlen |-> 0, len |-> 0, real |-> 0])

Full(seg) == seg.passes = seg.max

\* The segment that the next passes of a code-block go to.
Current(cb) ==
    IF cb.numsegs = 0 THEN 1 ELSE IF Full(cb.segs[cb.numsegs]) THEN cb.numsegs + 1 ELSE cb.numsegs

\* How many of the passes left go to a segment.
Fitting(seg, left) == Smaller(seg.max - seg.passes, left)

\* One segment's length: new is the number of passes that go to it.
ReadLength(s, new, width, h) ==
    IF width > 32 THEN [s EXCEPT !.fail = TRUE]
    ELSE [s EXCEPT !.segs[s.k].new = new, !.segs[s.k].newlen = Number(s.at, width, h),
                   !.left = @ - new, !.at = @ + width]

\* If passes are left, they go to another segment.
OpenSegment(s) ==
    IF s.left = 0 \/ s.fail THEN s
    ELSE [s EXCEPT !.segs = InitSeg(s.segs, s.k + 1), !.k = @ + 1]

NextLength(s, lenbits, new, h) == OpenSegment(ReadLength(s, new, lenbits + Log2(new), h))

\* The lengths of the segments that n passes belong to, from segment k on.
ReadLengths(segs, k, n, lenbits, at, h) ==
    FoldLeft(LAMBDA s, i : IF s.left = 0 \/ s.fail THEN s
                           ELSE NextLength(s, lenbits, Fitting(s.segs[s.k], s.left), h),
             [segs |-> segs, k |-> k, left |-> n, at |-> at, fail |-> FALSE],
             [i \in 1 .. n |-> i])

\* In the following s is the band of code-block c, the place in header h, and whether
\* the header is invalid; in tells that the code-block is in this layer.
Unseen(s, c) == s.band.blocks[c].numsegs = 0

TakeIncl(s, r, path, lay) ==
    [s EXCEPT !.band.incl = r.tree, !.at = r.at, !.in = ValueAt(r.tree, path) <= lay]

ReadInclusion(s, b, c, lay, h) ==
    IF Unseen(s, c)
      THEN TakeIncl(s, Decode(s.band.incl, PathTo(b, c), lay + 1, s.at, h), PathTo(b, c), lay)
      ELSE [s EXCEPT !.at = @ + 1, !.in = (Got(h, s.at) = 1)]

TakeImsb(s, c, r, path) ==
    [s EXCEPT !.band.imsb = r.tree, !.at = r.at,
              !.band.blocks[c].zero = ValueAt(r.tree, path), !.band.blocks[c].lenbits = 3]

\* The thresholds go up until the value is below one: together they read the bits
\* of one call with the last.
ReadPlanes(s, b, c, h) ==
    IF Unseen(s, c)
      THEN TakeImsb(s, c, Decode(s.band.imsb, PathTo(b, c), Unknown + 1, s.at, h), PathTo(b, c))
      ELSE s

TakePasses(s, c, p) == [s EXCEPT !.band.blocks[c].numnew = p.n, !.at = @ + p.bits]
ReadPasses(s, c, h) == TakePasses(s, c, PassesAt(s.at, h))

TakeIncrement(s, c, n) == [s EXCEPT !.band.blocks[c].lenbits = @ + n, !.at = @ + n + 1]
ReadIncrement(s, c, h) == TakeIncrement(s, c, Ones(s.at, h))

TakeLengths(s, c, r) ==
    [s EXCEPT !.band.blocks[c].segs = r.segs, !.at = r.at, !.fail = r.fail]

ReadSegmentsFrom(s, c, cb, k, h) ==
    TakeLengths(s, c, ReadLengths(IF k > cb.numsegs THEN InitSeg(cb.segs, k) ELSE cb.segs, k,
                                  cb.numnew, cb.lenbits, s.at, h))

ReadSegments(s, c, h) ==
    ReadSegmentsFrom(s, c, s.band.blocks[c], Current(s.band.blocks[c]), h)

\* The header of an included code-block, and of any.
ReadIncluded(s, b, c, h) ==
    ReadSegments(ReadIncrement(ReadPasses(ReadPlanes(s, b, c, h), c, h), c, h), c, h)

ReadIfIncluded(s, b, c, h) ==
    IF s.in THEN ReadIncluded(s, b, c, h) ELSE [s EXCEPT !.band.blocks[c].numnew = 0]

ReadBlockHeader(s, b, c, lay, h) == ReadIfIncluded(ReadInclusion(s, b, c, lay, h), b, c, h)

ReadBand(s, b, lay, h) ==
    FoldLeft(LAMBDA t, c : IF t.fail THEN t ELSE ReadBlockHeader(t, b, c, lay, h),
             [band |-> s.dec[b], at |-> s.at, fail |-> s.fail, in |-> FALSE],
             [c \in BlocksOf(b) |-> c])

TakeBand(s, b, r) == [dec |-> [s.dec EXCEPT ![b] = r.band], at |-> r.at, fail |-> r.fail]

\* readPacketHeader behind the bit that says that there is a header.
ReadHeader(d, lay, h) ==
    FoldLeft(LAMBDA s, b : TakeBand(s, b, ReadBand(s, b, lay, h)),
             [dec |-> d, at |-> 2, fail |-> FALSE], [b \in Bands |-> b])

\* Mutant: data up to the end is too long.
TooLongOrAtEnd(at, len, room) == at + len >= room

\* The data of a segment runs beyond the room there is.
TooLong(at, len, room) == at + len > room

\* What taking the data of a segment does to its code-block; a skipped one keeps
\* neither a chunk nor a length.
Skipped(cb, k, seg) ==
    [cb EXCEPT !.segs[k].passes = @ + seg.new,
               !.numnew = @ - seg.new,
               !.numsegs = IF cb.numnew > seg.new THEN @ + 1 ELSE @]

Taken(cb, k, seg, chunk) ==
    [Skipped(cb, k, seg) EXCEPT !.chunks = Append(@, chunk),
                                !.segs[k].len = @ + seg.newlen,
                                !.segs[k].real = seg.passes + seg.new]

\* A segment's data, of the room bytes there are: s is the code-block, its segment,
\* and the bytes taken.
TakeSegment(s, seg, lay, room, skip) ==
    IF TooLong(s.at, seg.newlen, room) THEN [s EXCEPT !.over = TRUE]
    ELSE [s EXCEPT !.cb = IF skip THEN Skipped(s.cb, s.k, seg)
                          ELSE Taken(s.cb, s.k, seg, [lay |-> lay, from |-> s.at, len |-> seg.newlen]),
                   !.k = IF s.cb.numnew > seg.new THEN @ + 1 ELSE @,
                   !.at = @ + seg.newlen]

TakeSegments(cb, at, lay, room, skip) ==
    FoldLeft(LAMBDA s, i : IF s.over \/ s.cb.numnew = 0 THEN s
                           ELSE TakeSegment(s, s.cb.segs[s.k], lay, room, skip),
             [cb |-> [cb EXCEPT !.numsegs = Current(cb)], k |-> Current(cb), at |-> at, over |-> FALSE],
             [i \in 1 .. cb.numnew |-> i])

\* Mutant: the chunks of the layers before stay.
LostLater(cb) == [cb EXCEPT !.corrupted = TRUE]

\* A code-block some of whose data is lost loses all of it.
Lost(cb) == [cb EXCEPT !.chunks = <<>>, !.corrupted = TRUE]

\* In the following s is the code-block, the bytes taken so far, and whether the data
\* has ended in this packet.
Decoded(r) ==
    [cb |-> [(IF r.over THEN Lost(r.cb) ELSE r.cb) EXCEPT !.realsegs = r.cb.numsegs],
     at |-> r.at, over |-> r.over]

\* readPacketData for one code-block.
TakeBlock(s, lay, room) ==
    IF s.cb.numnew = 0 THEN s
    ELSE IF s.over \/ s.cb.corrupted THEN [s EXCEPT !.cb = Lost(@)]
    ELSE Decoded(TakeSegments(s.cb, s.at, lay, room, FALSE))

\* skipPacketData for one code-block: nothing is looked at behind the end.
SkipBlock(s, lay, room) ==
    IF s.cb.numnew = 0 \/ s.over THEN s ELSE TakeSegments(s.cb, s.at, lay, room, TRUE)

ReadBlock(s, lay, room) ==
    IF lay >= wanted THEN SkipBlock(s, lay, room) ELSE TakeBlock(s, lay, room)

PutBlock(s, b, c, r) == [dec |-> [s.dec EXCEPT ![b].blocks[c] = r.cb], at |-> r.at, over |-> r.over]

\* The body of layer lay's packet, of which room bytes are there.
ReadData(d, lay, room) ==
    FoldLeft(LAMBDA s, x : PutBlock(s, x[1], x[2],
                               ReadBlock([cb |-> s.dec[x[1]].blocks[x[2]], at |-> s.at, over |-> s.over],
                                         lay, room)),
             [dec |-> d, at |-> 0, over |-> FALSE],
             FlattenSeq([b \in Bands |-> [c \in BlocksOf(b) |-> <<b, c>>]]))

Fail ==
    /\ pc' = "failed"
    /\ UNCHANGED <<layer, dec, took>>

\* The decoder goes on with the next layer.
GoOn(d, t) ==
    /\ dec' = d
    /\ took' = t
    /\ layer' = layer + 1
    /\ pc' = IF layer + 1 = NumLayers THEN "done" ELSE pc

\* A packet with a header: data is what its body leaves.
WithData(header, data, room) ==
    IF data.over /\ strict THEN Fail
    ELSE GoOn(data.dec, IF ended' # "no" THEN took
                        ELSE Append(took, [bits |-> header.at - 1,
                                           bytes |-> IF data.over THEN room ELSE data.at]))

WithHeader(header, whole, room) ==
    IF header.fail \/ ~whole THEN Fail
    ELSE WithData(header, ReadData(header.dec, layer, room), room)

\* A packet of which h are the bits of the header that are there; whole tells that
\* what follows them is there too, room the bytes of the body.
Read(d, h, whole, room) ==
    IF Got(h, 1) = 1 THEN WithHeader(ReadHeader(d, layer, h), whole, room)
    ELSE IF prec.eph THEN Fail ELSE GoOn(d, took)

Take(bits, whole, room) ==
    /\ Read(IF layer = 0 THEN ResetDecoder(dec) ELSE dec,
            SubSeq(stream[layer + 1].bits, 1, bits), whole, room)
    /\ UNCHANGED <<request, enc, stream>>

BodyLen == Sum([k \in DOMAIN stream[layer + 1].body |-> stream[layer + 1].body[k].len])

\* The packet is there.
ReadPacket ==
    /\ pc = "read" /\ ended = "no"
    /\ UNCHANGED ended
    /\ Take(Len(stream[layer + 1].bits), TRUE, BodyLen)

\* The stream ends in its header: before the EPH marker or, with all the bits, before
\* the byte that follows a byte of ones.  Without either nobody notices.
ReadCutHeader ==
    /\ pc = "read" /\ ended = "no"
    /\ ended' = "header"
    /\ \E bits \in 0 .. Len(stream[layer + 1].bits) :
          Take(bits, ~prec.eph /\ bits < Len(stream[layer + 1].bits), 0)

\* The stream ends in its body.
ReadCutBody ==
    /\ pc = "read" /\ ended = "no"
    /\ ended' = "body"
    /\ \E room \in 0 .. BodyLen - 1 : Take(Len(stream[layer + 1].bits), TRUE, room)

\* The stream has ended in an earlier packet.
ReadNothing ==
    /\ pc = "read" /\ ended # "no"
    /\ UNCHANGED ended
    /\ Take(0, FALSE, 0)

Init ==
    /\ prec \in Inputs
    /\ strict \in BOOLEAN
    /\ wanted \in 0 .. NumLayers
    /\ enc = [b \in Bands |->
                 [incl |-> Empty(b), imsb |-> Empty(b),
                  blocks |-> [c \in BlocksOf(b) |-> [passes |-> 0, lenbits |-> 0]]]]
    /\ layer = 0
    /\ stream = <<>>
    /\ ended = "no"
    /\ dec = [b \in Bands |->
                 [incl |-> Empty(b), imsb |-> Empty(b),
                  blocks |-> [c \in BlocksOf(b) |-> FreshBlock]]]
    /\ took = <<>>
    /\ pc = "simulate"

Next ==
    \/ SimulatePacket \/ StopSimulation \/ StartFinalPass \/ WritePacket \/ StartReading
    \/ ReadPacket \/ ReadCutHeader \/ ReadCutBody \/ ReadNothing

Spec == Init /\ [][Next]_vars

-------------------------------------------------------------------------------
(* Properties. *)

IsSegment(x) ==
    /\ x.max \in {1, 2, 10, 109}
    /\ x.passes \in 0 .. x.max /\ x.real \in 0 .. x.max
    /\ x.new \in Nat /\ x.newlen \in Nat /\ x.len \in Nat

\* The types of the variables (CblkEnc, CblkDec and Seg of internal/tile): no
\* segment has more passes than it can hold, none that counts is missing.
TypeOK ==
    /\ layer \in 0 .. NumLayers /\ Len(stream) \in 0 .. NumLayers
    /\ pc \in {"simulate", "write", "read", "done", "failed"}
    /\ ended \in {"no", "header", "body"}
    /\ \A b \in Bands : \A c \in BlocksOf(b) :
          LET cb == dec[b].blocks[c]
          IN  /\ enc[b].blocks[c].passes \in 0 .. Len(Block(b, c).lens)
              /\ cb.numsegs \in 0 .. Len(cb.segs) /\ cb.realsegs \in 0 .. cb.numsegs
              /\ cb.numnew \in Nat /\ cb.zero \in 0 .. Unknown
              /\ \A k \in DOMAIN cb.segs : IsSegment(cb.segs[k])

\* The decoder takes of each packet the bits and the bytes that were written, of
\* the packets it skips too: nothing else tells it where the next one begins
\* (encodePacket, t2.go:255; readPacketHeader and skipPacketData, :605 and :963).
InStep ==
    \A k \in DOMAIN took :
        took[k] = [bits |-> Len(stream[k].bits),
                   bytes |-> Sum([i \in DOMAIN stream[k].body |-> stream[k].body[i].len])]

\* The passes of a code-block in the first n layers.
PassesIn(b, c, n) == Sum(SubSeq(Block(b, c).layers, 1, n))

\* Behind a packet the decoder knows of each code-block what the encoder said: its
\* missing bit-planes, its passes, and its codeword segments, which end where
\* the encoder terminates the codeword and nowhere else (initSeg, t2.go:1029;
\* encIsTermPass, t1/encode.go:623).
KnowsBlocks ==
    pc \in {"read", "done"} /\ ended = "no" =>
        \A b \in Bands : \A c \in BlocksOf(b) :
            LET cb == dec[b].blocks[c]
                Behind(k) == Sum([i \in 1 .. k |-> cb.segs[i].passes])
            IN  /\ Behind(cb.numsegs) = PassesIn(b, c, Len(took))
                /\ cb.numsegs > 0 => cb.zero = Block(b, c).zero
                /\ \A k \in 1 .. cb.numsegs :
                      /\ cb.segs[k].passes > 0
                      /\ k < cb.numsegs => Terminated(b, c, Behind(k))
                      /\ \A i \in Behind(k - 1) + 1 .. Behind(k) - 1 : ~Terminated(b, c, i)

\* Bytes from .. to - 1 of a body are code-block c's.
OwnBytes(body, b, c, from, to) ==
    \E k \in DOMAIN body :
        LET start == Sum([i \in 1 .. k - 1 |-> body[i].len])
        IN  body[k].b = b /\ body[k].c = c /\ start <= from /\ to <= start + body[k].len

\* What T1 is given of a code-block: the passes of the layers asked for and no
\* others, from its own bytes, all of them or, when some are lost, none
\* (readPacketData, t2.go:869, skipPacketData, :963).
GivenToT1 ==
    \A b \in Bands : \A c \in BlocksOf(b) :
        LET cb == dec[b].blocks[c]
            given == SubSeq(cb.segs, 1, cb.realsegs)
        IN  /\ \A k \in DOMAIN cb.chunks :
                  LET x == cb.chunks[k]
                  IN  /\ x.lay < wanted
                      /\ OwnBytes(stream[x.lay + 1].body, b, c, x.from, x.from + x.len)
            /\ cb.corrupted => ended # "no" /\ cb.chunks = <<>>
            /\ ~cb.corrupted => Sum([k \in DOMAIN given |-> given[k].len])
                                  = Sum([k \in DOMAIN cb.chunks |-> cb.chunks[k].len])
            /\ ended = "no" => Sum([k \in DOMAIN given |-> given[k].real])
                           = PassesIn(b, c, Smaller(wanted, Len(took)))

\* A stream that is whole is never refused; without EPH markers one that ends in a
\* packet's body is not refused either, unless the decoder is strict ("partial
\* bitstream decoding is allowed", cparams.go:422).
NoSpuriousError ==
    pc = "failed" => ended = "header" \/ (ended = "body" /\ (strict \/ prec.eph))
===============================================================================
