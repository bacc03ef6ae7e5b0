-------------------------------- MODULE MQCoder ---------------------------------
(***************************************************************************)
(* The arithmetic coder of internal/mqc as EncodeCblk and DecodeCblk of      *)
(* internal/t1 drive it through the coding passes of a code-block: any      *)
(* decisions are encoded, the passes get their rates, and the data of the   *)
(* first passes, cut at the rate of the last of them, is decoded.           *)
(*                                                                          *)
(* The registers have their layout, in narrower bytes: C is a carry bit, a   *)
(* byte, Spacer bits and a fraction, which is as wide as A, two bytes. In   *)
(* the code a byte has 8 bits and Spacer is 3.                              *)
(***************************************************************************)
EXTENDS CodingPasses, SequencesExt

CONSTANTS
    ByteBits, Spacer,
    Table,      \* states: [qeval, mps, nmps, nlps] by index
    Initial,    \* the state each context begins with
    Blocks      \* code-blocks: [numbps, style, contexts, least, most, cuts], with the contexts
                \* used, the number of decisions of each pass, and how many are kept

Width == 2 * ByteBits
Half == 2 ^ (Width - 1)                 \* 0x8000
Ones == 2 ^ ByteBits - 1                \* 0xff
Low == 2 ^ (Width + Spacer)             \* 1 << 19
Carry == 2 ^ (Width + Spacer + ByteBits)
LastStuffed == 2 ^ (ByteBits - 1) + 2 ^ (ByteBits - 1 - Spacer) - 1     \* 0x8f

ASSUME MQCoderAssumption ==
    /\ ByteBits \in Nat /\ Spacer \in Nat \ {0} /\ ByteBits > Spacer + 1
    /\ \A i \in DOMAIN Table :
          LET s == Table[i]
          IN  s.qeval \in 1 .. Half - 1 /\ s.mps \in 0 .. 1 /\ {s.nmps, s.nlps} \subseteq DOMAIN Table
    /\ \A x \in DOMAIN Initial : Initial[x] \in DOMAIN Table
    /\ "uni" \in DOMAIN Initial

VARIABLES
    block,      \* the code-block
    pc,
    pass,       \* passno
    enc,        \* the encoder: a, c, ct, bp and buf, whose first byte is a scratch byte
    ctxs,       \* the state of each context
    coded,      \* the decisions of each pass so far
    passes,     \* rate and term of each pass that has ended
    data,       \* cblk.Data
    keep,       \* the passes that are decoded
    dec,        \* the decoder: a, c, ct, bp and buf, with two bytes of ones behind the segment
    got         \* the decisions of each pass that was decoded

vars == <<block, pc, pass, enc, ctxs, coded, passes, data, keep, dec, got>>

Style == block.style
Total == NumPasses(block.numbps)
Raw(n) == IsRaw(block.numbps, Style, n)
Term(n) == IsTermPass(block.numbps, Style, n)
Sum(s) == FoldLeft(LAMBDA a, x : a + x, 0, s)
Times(n) == [i \in 1 .. n |-> i]
Unused == 2 ^ 20        \* bypassCTInit: no bit has been written since BypassInitEnc

-------------------------------------------------------------------------------
(* The encoder. *)

At(buf, i) == buf[i + 1]
Put(buf, i, v) == [j \in 1 .. (IF i < Len(buf) THEN Len(buf) ELSE i + 1) |->
                      IF j = i + 1 THEN v ELSE IF j <= Len(buf) THEN buf[j] ELSE 0]
NumBytes(e) == e.bp - 1

InitEnc == [a |-> Half, c |-> 0, ct |-> ByteBits + Spacer + 1, bp |-> 0, buf |-> <<0>>]

\* A byte behind one of ones has a bit less, so that a carry has room.
ByteStuffed(e) ==
    [e EXCEPT !.bp = @ + 1, !.buf = Put(@, e.bp + 1, (e.c \div (2 * Low)) % (Ones + 1)),
              !.c = @ % (2 * Low), !.ct = ByteBits - 1]
BytePlain(e) ==
    [e EXCEPT !.bp = @ + 1, !.buf = Put(@, e.bp + 1, (e.c \div Low) % (Ones + 1)),
              !.c = @ % Low, !.ct = ByteBits]
Carried(e) == [e EXCEPT !.buf = Put(@, e.bp, At(@, e.bp) + 1)]

\* Mutant: after a carry has made a byte of ones the next one is not stuffed.
ByteOutNoStuff(e) ==
    IF At(e.buf, e.bp) = Ones THEN ByteStuffed(e)
    ELSE IF (e.c \div Carry) % 2 = 0 THEN BytePlain(e)
    ELSE BytePlain(Carried(e))

\* byteout
ByteOut(e) ==
    IF At(e.buf, e.bp) = Ones THEN ByteStuffed(e)
    ELSE IF (e.c \div Carry) % 2 = 0 THEN BytePlain(e)
    ELSE IF At(e.buf, e.bp) + 1 = Ones THEN ByteStuffed([Carried(e) EXCEPT !.c = @ % Carry])
    ELSE BytePlain(Carried(e))

\* One round of renorme; Shifts: how many bring a back above one half.
Shift(e) ==
    LET s == [e EXCEPT !.a = 2 * @, !.c = 2 * @, !.ct = @ - 1]
    IN  IF s.ct = 0 THEN ByteOut(s) ELSE s
Shifts(a) == CHOOSE k \in 0 .. Width : a * 2 ^ k >= Half /\ (k > 0 => a * 2 ^ (k - 1) < Half)
Renorm(e) == FoldLeft(LAMBDA s, i : Shift(s), e, Times(Shifts(e.a)))

\* codemps and codelps on state s: the smaller part of the interval is exchanged.
CodeMps(e, s) ==
    LET a == e.a - s.qeval
    IN  IF a >= Half THEN [e EXCEPT !.a = a, !.c = @ + s.qeval]
        ELSE Renorm(IF a < s.qeval THEN [e EXCEPT !.a = s.qeval]
                                   ELSE [e EXCEPT !.a = a, !.c = @ + s.qeval])
CodeLps(e, s) ==
    LET a == e.a - s.qeval
    IN  Renorm(IF a < s.qeval THEN [e EXCEPT !.a = a, !.c = @ + s.qeval]
                              ELSE [e EXCEPT !.a = s.qeval])

\* Encode: decision d in context x; m is the encoder with its contexts.
Encode(m, x, d) ==
    LET s == Table[m.ctxs[x]]
    IN  IF d = s.mps
        THEN [enc |-> CodeMps(m.enc, s),
              ctxs |-> IF m.enc.a - s.qeval >= Half THEN m.ctxs ELSE [m.ctxs EXCEPT ![x] = s.nmps]]
        ELSE [enc |-> CodeLps(m.enc, s), ctxs |-> [m.ctxs EXCEPT ![x] = s.nlps]]

SegmarkEnc(m) == FoldLeft(LAMBDA n, d : Encode(n, "uni", d), m, <<1, 0, 1, 0>>)

SetBits(e) ==
    LET full == (e.c \div 2 ^ Width) * 2 ^ Width + 2 ^ Width - 1
    IN  [e EXCEPT !.c = IF full >= e.c + e.a THEN full - Half ELSE full]
ShiftOut(e) == ByteOut([e EXCEPT !.c = @ * 2 ^ e.ct])
DropOnes(e) == IF At(e.buf, e.bp) # Ones THEN [e EXCEPT !.bp = @ + 1] ELSE e

Flush(e) == DropOnes(ShiftOut(ShiftOut(SetBits(e))))

\* ErtermEnc: k counts the bits that are still to be written. It leaves bp at the
\* last byte, which the next pass, or nothing, writes behind.
ErtermEnc(e) ==
    LET round(s, i) == IF s.k > 0
                       THEN LET o == ByteOut([s.e EXCEPT !.c = @ * 2 ^ s.e.ct, !.ct = 0])
                            IN  [e |-> o, k |-> s.k - o.ct]
                       ELSE s
        out == FoldLeft(round, [e |-> e, k |-> ByteBits + Spacer + 1 - e.ct], Times(4)).e
    IN  IF At(out.buf, out.bp) # Ones THEN ByteOut(out) ELSE out

RestartInitEnc(e) ==
    [e EXCEPT !.a = Half, !.c = 0, !.bp = @ - 1,
              !.ct = ByteBits + Spacer + 1 + (IF At(e.buf, e.bp - 1) = Ones THEN 1 ELSE 0)]

BypassInitEnc(e) == [e EXCEPT !.c = 0, !.ct = Unused]
BypassEnc(e, d) ==
    LET ct == (IF e.ct = Unused THEN ByteBits ELSE e.ct) - 1
        c == e.c + d * 2 ^ ct
    IN  IF ct > 0 THEN [e EXCEPT !.c = c, !.ct = ct]
        ELSE [e EXCEPT !.buf = Put(@, e.bp, c), !.bp = @ + 1, !.c = 0,
                       !.ct = IF c = Ones THEN ByteBits - 1 ELSE ByteBits]

\* Bits are waiting in the byte in use: it is not empty, or is and follows ones.
Waiting(e, erterm) ==
    e.ct < ByteBits - 1 \/ (e.ct = ByteBits - 1 /\ (erterm \/ At(e.buf, e.bp - 1) # Ones))
\* The low n bits filled with 0, 1, 0, ...
Filling(n) == Sum([i \in 1 .. n |-> IF i % 2 = 0 THEN 2 ^ (n - i) ELSE 0])

BypassFlushEnc(e, erterm) ==
    IF Waiting(e, erterm)
    THEN [e EXCEPT !.c = @ + Filling(e.ct), !.buf = Put(@, e.bp, e.c + Filling(e.ct)), !.bp = @ + 1, !.ct = 0]
    ELSE IF e.ct = ByteBits - 1 /\ At(e.buf, e.bp - 1) = Ones THEN [e EXCEPT !.bp = @ - 1]
    ELSE IF /\ e.ct = ByteBits /\ ~erterm
            /\ At(e.buf, e.bp - 1) = Ones \div 2 /\ At(e.buf, e.bp - 2) = Ones
         THEN [e EXCEPT !.bp = @ - 2]
    ELSE e

-------------------------------------------------------------------------------
(* The decoder. *)

\* bytein: past the data, or at a marker, it supplies ones.
ByteIn(s) ==
    LET next == At(s.buf, s.bp + 1)
    IN  IF At(s.buf, s.bp) # Ones
        THEN [s EXCEPT !.bp = @ + 1, !.c = @ + next * 2 ^ ByteBits, !.ct = ByteBits]
        ELSE IF next > LastStuffed
        THEN [s EXCEPT !.c = @ + Ones * 2 ^ ByteBits, !.ct = ByteBits]
        ELSE [s EXCEPT !.bp = @ + 1, !.c = @ + next * 2 ^ (ByteBits + 1), !.ct = ByteBits - 1]

\* initDecCommon puts two bytes of ones behind the segment.
InitDec(bytes) ==
    LET s == ByteIn([a |-> Half, c |-> (IF bytes = <<>> THEN Ones ELSE bytes[1]) * 2 ^ Width,
                     ct |-> 0, bp |-> 0, buf |-> bytes \o <<Ones, Ones>>])
    IN  [s EXCEPT !.c = @ * 2 ^ (ByteBits - 1), !.ct = @ - (ByteBits - 1)]

RawInitDec(bytes) == [a |-> Half, c |-> 0, ct |-> 0, bp |-> 0, buf |-> bytes \o <<Ones, Ones>>]

ShiftIn(s) ==
    LET t == IF s.ct = 0 THEN ByteIn(s) ELSE s
    IN  [t EXCEPT !.a = 2 * @, !.c = 2 * @, !.ct = @ - 1]
Renormd(s) == FoldLeft(LAMBDA t, i : ShiftIn(t), s, Times(Shifts(s.a)))

\* Decode: the decision and the next state are those of the likelier symbol, or not.
Decode(m, x) ==
    LET row == Table[m.ctxs[x]]
        a == m.dec.a - row.qeval
        lower == m.dec.c \div 2 ^ Width < row.qeval
        likely == lower <=> a < row.qeval
        s == IF lower THEN [m.dec EXCEPT !.a = row.qeval]
                      ELSE [m.dec EXCEPT !.a = a, !.c = @ - row.qeval * 2 ^ Width]
    IN  IF ~lower /\ a >= Half THEN [dec |-> s, ctxs |-> m.ctxs, d |-> row.mps]
        ELSE [dec |-> Renormd(s),
              ctxs |-> [m.ctxs EXCEPT ![x] = IF likely THEN row.nmps ELSE row.nlps],
              d |-> IF likely THEN row.mps ELSE 1 - row.mps]

RawDecode(s) ==
    LET next == At(s.buf, s.bp)
        t == IF s.ct > 0 THEN s
             ELSE IF s.c # Ones THEN [s EXCEPT !.c = next, !.bp = @ + 1, !.ct = ByteBits]
             ELSE IF next > LastStuffed THEN [s EXCEPT !.c = Ones, !.ct = ByteBits]
             ELSE [s EXCEPT !.c = next, !.bp = @ + 1, !.ct = ByteBits - 1]
    IN  [s |-> [t EXCEPT !.ct = @ - 1], d |-> (t.c \div 2 ^ (t.ct - 1)) % 2]

\* The decisions of a pass, in the contexts xs.
DecodeDecisions(m, xs, raw) ==
    LET one(n, x) == IF raw
                     THEN LET r == RawDecode(n.dec)
                          IN  [dec |-> r.s, ctxs |-> n.ctxs, ds |-> Append(n.ds, r.d)]
                     ELSE LET r == Decode([dec |-> n.dec, ctxs |-> n.ctxs], x)
                          IN  [dec |-> r.dec, ctxs |-> r.ctxs, ds |-> Append(n.ds, r.d)]
    IN  FoldLeft(one, [dec |-> m.dec, ctxs |-> m.ctxs, ds |-> <<>>], xs)

-------------------------------------------------------------------------------
(* EncodeCblk. *)

Init ==
    /\ block \in Blocks
    /\ pc = "encode" /\ pass = 0
    /\ enc = InitEnc /\ ctxs = Initial
    /\ coded = <<<<>>>> /\ passes = <<>> /\ data = <<>>
    /\ keep = 0 /\ dec = InitDec(<<>>) /\ got = <<>>

EncodeDecision(x, d) ==
    /\ pc = "encode"
    /\ Len(coded[pass + 1]) < block.most[pass + 1]
    /\ IF Raw(pass)
       THEN enc' = BypassEnc(enc, d) /\ UNCHANGED ctxs
       ELSE LET m == Encode([enc |-> enc, ctxs |-> ctxs], x, d)
            IN  enc' = m.enc /\ ctxs' = m.ctxs
    /\ coded' = [coded EXCEPT ![pass + 1] = Append(@, [x |-> x, d |-> d])]
    /\ UNCHANGED <<block, pc, pass, passes, data, keep, dec, got>>

\* SEGSYM's mark is put behind a clean-up pass, then a terminating pass is flushed.
Marked(n) ==
    IF PassType(n) = 2 /\ "segsym" \in Style THEN SegmarkEnc([enc |-> enc, ctxs |-> ctxs])
    ELSE [enc |-> enc, ctxs |-> ctxs]
Terminated(n, e) ==
    CASE ~Term(n) -> e
      [] Term(n) /\ Raw(n) -> BypassFlushEnc(e, "pterm" \in Style)
      [] Term(n) /\ ~Raw(n) -> IF "pterm" \in Style THEN ErtermEnc(e) ELSE Flush(e)

\* The bytes that are needed to decode up to this pass, or more.
Rate(n, e) ==
    NumBytes(e) + (IF Term(n) THEN 0
                   ELSE IF Raw(n) THEN (IF Waiting(e, "pterm" \in Style) THEN 1 ELSE 0)
                   ELSE 3)

\* The coder is initialised for pass n, if the one before was terminated.
Restarted(n, e) ==
    IF n = Total \/ ~Term(n - 1) THEN e ELSE IF Raw(n) THEN BypassInitEnc(e) ELSE RestartInitEnc(e)

EndPass ==
    /\ pc = "encode"
    /\ Len(coded[pass + 1]) >= block.least[pass + 1]
    /\ LET m == Marked(pass)
           e == Terminated(pass, m.enc)
       IN  /\ passes' = Append(passes, [rate |-> Rate(pass, e), term |-> Term(pass)])
           /\ enc' = Restarted(pass + 1, e)
           /\ ctxs' = IF "reset" \in Style THEN Initial ELSE m.ctxs
    /\ pass' = pass + 1
    /\ IF pass + 1 = Total
       THEN pc' = "rates" /\ UNCHANGED coded
       ELSE coded' = Append(coded, <<>>) /\ UNCHANGED pc
    /\ UNCHANGED <<block, data, keep, dec, got>>

\* Mutant: an estimate may lie behind the end.
ClampedNot(p) == passes[p].rate

\* Rates must not decrease, and the data cut at a rate must not end with ones.
Clamped(p) == CHOOSE r \in {passes[q].rate : q \in p .. Total} :
                 \A q \in p .. Total : r <= passes[q].rate

\* Mutant: the data of a pass may end with a byte of ones.
TrimmedNot(p, bytes) == Clamped(p)

Trimmed(p, bytes) == IF bytes[Clamped(p)] = Ones THEN Clamped(p) - 1 ELSE Clamped(p)

FinishCblk ==
    /\ pc = "rates"
    /\ LET bytes == SubSeq(enc.buf, 2, enc.bp)
       IN  /\ data' = bytes
           /\ passes' = [p \in 1 .. Total |-> [passes[p] EXCEPT !.rate = Trimmed(p, bytes)]]
    /\ pc' = "keep"
    /\ UNCHANGED <<block, pass, enc, ctxs, coded, keep, dec, got>>

-------------------------------------------------------------------------------
(* DecodeCblk, given the first passes and their bytes. *)

Keep(k) ==
    /\ pc = "keep"
    /\ keep' = k
    /\ pc' = "decode" /\ pass' = 0 /\ ctxs' = Initial
    /\ UNCHANGED <<block, enc, coded, passes, data, dec, got>>

\* The bytes of segment i: those of its passes that were kept.
RateOf(n) == IF n = 0 THEN 0 ELSE passes[n].rate
SegEnd(i) == LET e == SegStart(Style, i) + MaxPasses(Style, i) IN IF e < keep THEN e ELSE keep
SegBytes(i) == SubSeq(data, RateOf(SegStart(Style, i)) + 1, RateOf(SegEnd(i)))

Opened(i, raw) == IF raw THEN RawInitDec(SegBytes(i)) ELSE InitDec(SegBytes(i))

\* A segment is raw or not as its first pass is.
SegIsRaw(i) == Raw(SegStart(Style, i))

DecodePass ==
    /\ pc = "decode" /\ pass < keep
    /\ LET i == SegOf(Style, pass)
           opened == IF pass = SegStart(Style, i) THEN Opened(i, SegIsRaw(i)) ELSE dec
           mark == IF PassType(pass) = 2 /\ "segsym" \in Style THEN <<"uni", "uni", "uni", "uni">> ELSE <<>>
           xs == [j \in DOMAIN coded[pass + 1] |-> coded[pass + 1][j].x] \o mark
           m == DecodeDecisions([dec |-> opened, ctxs |-> ctxs], xs, SegIsRaw(i))
       IN  /\ dec' = m.dec
           /\ got' = Append(got, SubSeq(m.ds, 1, Len(coded[pass + 1])))
           /\ ctxs' = IF "reset" \in Style /\ ~SegIsRaw(i) THEN Initial ELSE m.ctxs
    /\ pass' = pass + 1
    /\ UNCHANGED <<block, pc, enc, coded, passes, data, keep>>

Next ==
    \/ \E x \in block.contexts, d \in 0 .. 1 : EncodeDecision(x, d)
    \/ EndPass
    \/ FinishCblk
    \/ \E k \in block.cuts : Keep(k)
    \/ DecodePass

Spec == Init /\ [][Next]_vars

-------------------------------------------------------------------------------
(* Properties. *)

\* The last pass kept is one whose rate is exact: it was terminated, or is raw. The rate of
\* another pass is an estimate, see the README.
Exact == Term(keep - 1) \/ Raw(keep - 1)

\* Whatever was encoded, the decoder reads the same decisions back from the bytes of the
\* first passes, through carries, stuffed bits, dropped bytes and terminations
\* (encoder.go:67-97, 283-294, 346-368; decoder.go:88).
DecodesBack ==
    \A p \in DOMAIN got :
        Exact \/ SegOf(Style, p - 1) < SegOf(Style, keep - 1)
            => \A j \in DOMAIN got[p] : got[p][j] = coded[p][j].d

\* In the bytes of a segment no byte of ones is followed by one a decoder takes for the
\* end, and none is the last (encoder.go:67, 294, 346).
NoMarker ==
    pc \in {"keep", "decode"} =>
        /\ \A i \in 1 .. Len(data) - 1 : data[i] = Ones => data[i + 1] <= LastStuffed
        /\ \A p \in DOMAIN passes : data[passes[p].rate] # Ones

\* The rates divide the data: from at least one byte on (a rate of zero would have
\* encode.go:802 look in front of the data) they do not decrease, up to all of it
\* (encode.go:783-795, and the wrapped count of mqc.go:74 that this relies on).
RatesDivide ==
    /\ pc = "rates" => \A p \in 1 .. Total : Clamped(p) \in 1 .. NumBytes(enc)
    /\ pc \in {"keep", "decode"} =>
        /\ \A p \in 1 .. Total - 1 : passes[p].rate <= passes[p + 1].rate
        /\ passes[Total].rate = Len(data)
================================================================================
