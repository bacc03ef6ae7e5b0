-------------------------------- MODULE CodeBlock -------------------------------
(***************************************************************************)
(* The coefficients of a code-block through internal/t1: the significance,   *)
(* refinement and clean-up passes of the encoder and of the decoder, which   *)
(* are written apart and must ask for the same decisions in the same        *)
(* contexts, since nothing in the data says where either is.  The           *)
(* arithmetic coder between them is MQCoder's; here it carries decisions,   *)
(* each with its context, in order.                                         *)
(*                                                                          *)
(* A cell is <<row, column>>.  A context is the part of the neighbourhood    *)
(* that the tables of the code are looked up with.  What a pass does not     *)
(* act on and skips by a look at a whole word of flags is not told apart.    *)
(***************************************************************************)
EXTENDS CodingPasses, SequencesExt

CONSTANTS
    Frac,       \* T1_NMSEDEC_FRACBITS, the fraction of the encoder's magnitudes
    Blocks      \* code-blocks: [w, h, style, roi, values], with the up-shift of the first column
                \* (the region of interest) and the values, with their fraction, a cell may have

ASSUME CodeBlockAssumption ==
    /\ Frac \in Nat
    /\ \A b \in Blocks : b.w \in Nat \ {0} /\ b.h \in Nat \ {0} /\ b.style \subseteq Styles
                            /\ b.roi \in Nat /\ b.values \subseteq Int

VARIABLES
    block,
    coeffs,     \* the coefficients of the sub-band, by cell
    pc,
    pass,       \* passno
    enc,        \* the encoder's flags: the cells that are sig(nificant), neg(ative), have mu or pi
    symbols,    \* the decisions of each pass, with their contexts
    keep,       \* the passes that are decoded
    dec,        \* the decoder's flags
    data,       \* t1.data: twice the value, with the middle of what is not known yet
    inStep      \* every decision was asked for in its context, and none was left

vars == <<block, coeffs, pc, pass, enc, symbols, keep, dec, data, inStep>>

Style == block.style
Vsc == "vsc" \in Style
Stripes == (block.h + 3) \div 4
Cells == (0 .. block.h - 1) \X (0 .. block.w - 1)
Abs(v) == IF v < 0 THEN -v ELSE v
Largest == CHOOSE v \in {Abs(coeffs[x]) : x \in Cells} : \A x \in Cells : Abs(coeffs[x]) <= v
FloorLog2(v) == CHOOSE k \in 0 .. v : 2 ^ k <= v /\ v < 2 ^ (k + 1)

\* cblk.Numbps; it is not positive where all is fraction, and there are no passes then.
Numbps == IF Largest = 0 THEN 0 ELSE FloorLog2(Largest) + 1 - Frac
Total == IF Numbps > 0 THEN NumPasses(Numbps) ELSE 0
Raw(n) == IsRaw(Numbps, Style, n)

-------------------------------------------------------------------------------
(* Flags, by cell. *)

\* Rows behind the last of the block have their PI set, so that they are left alone.
Sentinels == (block.h .. 4 * Stripes - 1) \X (0 .. block.w - 1)
NoFlags == [sig |-> {}, neg |-> {}, mu |-> {}, pi |-> Sentinels]

\* Vertically causal: what happens in the next stripe is not told to this one.
Sees(x, y) == ~(Vsc /\ y[1] \div 4 > x[1] \div 4)

Near(f, x) == {y \in f.sig : y # x /\ Abs(y[1] - x[1]) <= 1 /\ Abs(y[2] - x[2]) <= 1 /\ Sees(x, y)}
Beside(f, x) == {y \in Near(f, x) : y[1] = x[1] \/ y[2] = x[2]}

\* The column of stripe s at c has a zero word: nothing in or next to it is significant or
\* visited.
Column(s, c) == {<<r, c>> : r \in 4 * s .. 4 * s + 3}
Blank(f, s, c) ==
    /\ Column(s, c) \cap (f.pi \cup f.sig) = {}
    /\ \A x \in Column(s, c) : Near(f, x) = {}

Context(kind) == [kind |-> kind, near |-> {}, neg |-> {}]
ZC(f, x) == [kind |-> "zc", near |-> Near(f, x), neg |-> {}]
SC(f, x) == [kind |-> "sc", near |-> Beside(f, x), neg |-> Beside(f, x) \cap f.neg]
Mag(f, x) == Context(IF x \in f.mu THEN "mag2" ELSE IF Near(f, x) # {} THEN "mag1" ELSE "mag0")

\* A pass that is raw has no contexts.
In(raw, ctx) == IF raw THEN Context("raw") ELSE ctx

\* updateFlags
Signified(f, x, negative) == [f EXCEPT !.sig = @ \cup {x}, !.neg = IF negative THEN @ \cup {x} ELSE @]
Visited(f, x) == [f EXCEPT !.pi = @ \cup {x}]
Refined(f, x) == [f EXCEPT !.mu = @ \cup {x}]

Waits(f, x) == x \notin f.sig \cup f.pi

\* The passes go through the stripes, in a stripe through its columns, and down a column.
Columns == [i \in 1 .. Stripes * block.w |-> <<(i - 1) \div block.w, (i - 1) % block.w>>]
Rows(s) == IF 4 * s + 4 <= block.h THEN 4 ELSE block.h - 4 * s
From(s, c, ci) == [j \in 1 .. Rows(s) - ci |-> <<4 * s + ci + j - 1, c>>]
Scan == FlattenSeq([i \in DOMAIN Columns |-> From(Columns[i][1], Columns[i][2], 0)])

-------------------------------------------------------------------------------
(* The encoder: m is [f, out], the flags and the decisions so far. *)

Bit(x, bp) == (Abs(coeffs[x]) \div 2 ^ (bp + Frac)) % 2
Put(m, ctx, d) == [m EXCEPT !.out = Append(@, [ctx |-> ctx, d |-> d])]

PutSign(m, x, raw) ==
    [Put(m, In(raw, SC(m.f, x)), IF coeffs[x] < 0 THEN 1 ELSE 0) EXCEPT
        !.f = Signified(@, x, coeffs[x] < 0)]
PutSignificance(m, x, bp, raw) ==
    LET n == Put(m, In(raw, ZC(m.f, x)), Bit(x, bp))
    IN  IF Bit(x, bp) = 1 THEN PutSign(n, x, raw) ELSE n

\* encSigpassStep
EncSigStep(m, x, bp, raw) ==
    IF Waits(m.f, x) /\ Near(m.f, x) # {}
    THEN [PutSignificance(m, x, bp, raw) EXCEPT !.f = Visited(@, x)]
    ELSE m
EncSigPass(f, bp, raw) == FoldLeft(LAMBDA m, x : EncSigStep(m, x, bp, raw), [f |-> f, out |-> <<>>], Scan)

\* encRefpassStep
EncRefStep(m, x, bp, raw) ==
    IF x \in m.f.sig \ m.f.pi
    THEN [Put(m, In(raw, Mag(m.f, x)), Bit(x, bp)) EXCEPT !.f = Refined(@, x)]
    ELSE m
EncRefPass(f, bp, raw) == FoldLeft(LAMBDA m, x : EncRefStep(m, x, bp, raw), [f |-> f, out |-> <<>>], Scan)

\* encClnpassStep: PI is cleared cell by cell.
Unvisited(m, x) == [m EXCEPT !.f.pi = @ \ {x}]
EncClnCell(m, x, bp) == Unvisited(IF Waits(m.f, x) THEN PutSignificance(m, x, bp, FALSE) ELSE m, x)
EncClnCells(m, cells, bp) == FoldLeft(LAMBDA n, x : EncClnCell(n, x, bp), m, cells)

\* A blank column of four: whether, and where, its first significant cell is.
RunLength(s, c, bp) ==
    CHOOSE r \in 0 .. 4 : /\ \A i \in 0 .. r - 1 : Bit(<<4 * s + i, c>>, bp) = 0
                          /\ r < 4 => Bit(<<4 * s + r, c>>, bp) = 1
PutRun(m, r) ==
    Put(Put(Put(m, Context("agg"), 1), Context("uni"), r \div 2), Context("uni"), r % 2)
EncBlank(m, s, c, bp, r) ==
    IF r = 4 THEN Put(m, Context("agg"), 0)
    ELSE EncClnCells(PutSign(PutRun(m, r), <<4 * s + r, c>>, FALSE), From(s, c, r + 1), bp)
EncClnColumn(m, s, c, bp) ==
    IF Rows(s) = 4 /\ Blank(m.f, s, c) THEN EncBlank(m, s, c, bp, RunLength(s, c, bp))
    ELSE EncClnCells(m, From(s, c, 0), bp)

PutMark(m) == FoldLeft(LAMBDA n, d : Put(n, Context("uni"), d), m, <<1, 0, 1, 0>>)
EncClnPass(f, bp) ==
    LET m == FoldLeft(LAMBDA n, k : EncClnColumn(n, k[1], k[2], bp), [f |-> f, out |-> <<>>], Columns)
    IN  IF "segsym" \in Style THEN PutMark(m) ELSE m

EncPass(f, n) ==
    CASE PassType(n) = 0 -> EncSigPass(f, Bpno(Numbps, n), Raw(n))
      [] PassType(n) = 1 -> EncRefPass(f, Bpno(Numbps, n), Raw(n))
      [] PassType(n) = 2 -> EncClnPass(f, Bpno(Numbps, n))

-------------------------------------------------------------------------------
(* The decoder: m is [f, data, in, d, ok], the flags, the coefficients, the decisions not
   yet taken, the last one, and whether all were asked for in their context. *)

Take(m, ctx) ==
    IF m.in # <<>> /\ Head(m.in).ctx = ctx
    THEN [m EXCEPT !.in = Tail(@), !.d = Head(m.in).d]
    ELSE [m EXCEPT !.d = 0, !.ok = FALSE]

\* oneplushalf: the bit, and half of it for what is below.
OnePlusHalf(bp) == 3 * 2 ^ bp

SetValue(m, x, bp) ==
    [m EXCEPT !.data[x] = IF m.d = 1 THEN -OnePlusHalf(bp) ELSE OnePlusHalf(bp),
              !.f = Signified(@, x, m.d = 1)]
TakeSign(m, x, bp, raw) == SetValue(Take(m, In(raw, SC(m.f, x))), x, bp)
SignIf(m, x, bp, raw) == IF m.d = 1 THEN TakeSign(m, x, bp, raw) ELSE m
TakeSignificance(m, x, bp, raw) == SignIf(Take(m, In(raw, ZC(m.f, x))), x, bp, raw)

DecSigStep(m, x, bp, raw) ==
    IF Waits(m.f, x) /\ Near(m.f, x) # {}
    THEN [TakeSignificance(m, x, bp, raw) EXCEPT !.f = Visited(@, x)]
    ELSE m
DecSigPass(m, bp, raw) == FoldLeft(LAMBDA n, x : DecSigStep(n, x, bp, raw), m, Scan)

\* Mutant: the half is added for a negative coefficient as for a positive one.
AdjustUp(m, x, bp) == [m EXCEPT !.data[x] = @ + (IF m.d = 1 THEN 2 ^ bp ELSE -(2 ^ bp))]

\* The bit says whether the magnitude is in the upper half.
Adjust(m, x, bp) ==
    [m EXCEPT !.data[x] = @ + (IF (m.d = 1) = (m.data[x] >= 0) THEN 2 ^ bp ELSE -(2 ^ bp))]

DecRefStep(m, x, bp, raw) ==
    IF x \in m.f.sig \ m.f.pi
    THEN [Adjust(Take(m, In(raw, Mag(m.f, x))), x, bp) EXCEPT !.f = Refined(@, x)]
    ELSE m
DecRefPass(m, bp, raw) == FoldLeft(LAMBDA n, x : DecRefStep(n, x, bp, raw), m, Scan)

\* Mutant: PI is cleared in the columns of four rows only.
UnvisitedFull(m, s, c) == IF Rows(s) = 4 THEN [m EXCEPT !.f.pi = @ \ Column(s, c)] ELSE m

\* A column is done: its PI are cleared, those of rows that do not exist too.
UnvisitedColumn(m, s, c) == [m EXCEPT !.f.pi = @ \ Column(s, c)]

DecClnCells(m, cells, bp) ==
    FoldLeft(LAMBDA n, x : IF Waits(n.f, x) THEN TakeSignificance(n, x, bp, FALSE) ELSE n, m, cells)
\* r0 and r1; behind the run's end the other cells of the column are looked at unchecked.
TakeRun(m, s, c, bp, r0) ==
    LET n == Take(m, Context("uni"))
        r == 2 * r0 + n.d
    IN  UnvisitedColumn(DecClnCells(TakeSign(n, <<4 * s + r, c>>, bp, FALSE), From(s, c, r + 1), bp), s, c)
SecondOfRun(m, s, c, bp) == TakeRun(m, s, c, bp, m.d)
DecBlank(m, s, c, bp) == IF m.d = 0 THEN m ELSE SecondOfRun(Take(m, Context("uni")), s, c, bp)
DecClnColumn(m, s, c, bp) ==
    IF Rows(s) = 4 /\ Blank(m.f, s, c) THEN DecBlank(Take(m, Context("agg")), s, c, bp)
    ELSE UnvisitedColumn(DecClnCells(m, From(s, c, 0), bp), s, c)

\* The mark is read and not looked at.
TakeMark(m) == FoldLeft(LAMBDA n, i : Take(n, Context("uni")), m, <<1, 2, 3, 4>>)
DecClnPass(m, bp) ==
    LET n == FoldLeft(LAMBDA o, k : DecClnColumn(o, k[1], k[2], bp), m, Columns)
    IN  IF "segsym" \in Style THEN TakeMark(n) ELSE n

\* The decoder knows the bit-planes without the region's, and decides by the first pass of a
\* segment if it is raw.
FirstOfSeg(n) == SegStart(Style, SegOf(Style, n))
DecRaw(n) ==
    /\ "lazy" \in Style /\ PassType(FirstOfSeg(n)) < 2
    /\ Bpno(Numbps, FirstOfSeg(n)) + 1 <= (Numbps - block.roi) - 4

DecPass(m, n) ==
    CASE PassType(n) = 0 -> DecSigPass(m, Bpno(Numbps, n), DecRaw(n))
      [] PassType(n) = 1 -> DecRefPass(m, Bpno(Numbps, n), DecRaw(n))
      [] PassType(n) = 2 -> DecClnPass(m, Bpno(Numbps, n))

\* RoiShift and Dequantize, for the reversible transform: what is not below the region's
\* threshold is of the region.
Unshifted(v) ==
    IF block.roi = 0 \/ Abs(v) < 2 ^ block.roi THEN v
    ELSE IF v < 0 THEN -(Abs(v) \div 2 ^ block.roi) ELSE v \div 2 ^ block.roi
Dequantized(v) == IF v < 0 THEN -(Abs(v) \div 2) ELSE v \div 2

-------------------------------------------------------------------------------

\* The cells of the region have their values shifted up.
Shifted(b, vs) == [x \in DOMAIN vs |-> IF x[2] = 0 THEN vs[x] * 2 ^ b.roi ELSE vs[x]]

Init ==
    /\ block \in Blocks
    /\ \E vs \in [Cells -> block.values] : coeffs = Shifted(block, vs)
    /\ pc = "encode" /\ pass = 0 /\ symbols = <<>> /\ keep = 0
    /\ enc = NoFlags /\ dec = NoFlags
    /\ data = [x \in Cells |-> 0]
    /\ inStep = TRUE

EncodePass ==
    /\ pc = "encode" /\ pass < Total
    /\ LET m == EncPass(enc, pass)
       IN  enc' = m.f /\ symbols' = Append(symbols, m.out)
    /\ pass' = pass + 1
    /\ UNCHANGED <<block, coeffs, pc, keep, dec, data, inStep>>

\* The packets bring the first k passes.
Keep(k) ==
    /\ pc = "encode" /\ pass = Total
    /\ keep' = k /\ pass' = 0 /\ pc' = "decode"
    /\ UNCHANGED <<block, coeffs, enc, symbols, dec, data, inStep>>

DecodePass ==
    /\ pc = "decode" /\ pass < keep
    /\ LET m == DecPass([f |-> dec, data |-> data, in |-> symbols[pass + 1], d |-> 0, ok |-> TRUE], pass)
       IN  dec' = m.f /\ data' = m.data /\ inStep' = (inStep /\ m.ok /\ m.in = <<>>)
    /\ pass' = pass + 1
    /\ UNCHANGED <<block, coeffs, pc, enc, symbols, keep>>

Next == EncodePass \/ (\E k \in 0 .. Total : Keep(k)) \/ DecodePass

Spec == Init /\ [][Next]_vars

-------------------------------------------------------------------------------
(* Properties. *)

\* Every pass of the decoder asks for exactly the decisions the encoder's pass wrote, in
\* their order and contexts, with both agreeing on every flag, where only one of them keeps
\* the sentinels of the rows that do not exist (encode.go:437-592; decode.go:467-651).
InStep ==
    /\ inStep
    /\ pc = "decode" /\ pass = Total => [dec EXCEPT !.pi = @ \ Sentinels] = [enc EXCEPT !.pi = @ \ Sentinels]

\* The value of a cell when its bits from plane b on are known: the middle of the rest.
Known(x, b) ==
    LET k == Abs(coeffs[x]) \div 2 ^ (b + Frac)
        middle == IF k = 0 THEN 0 ELSE (2 * k + 1) * 2 ^ b
    IN  IF coeffs[x] < 0 THEN -middle ELSE middle

\* Decoding any number of passes gives each coefficient with the bits of its plane, or of
\* the one before for those that the last pass did not come by, and none stays behind
\* after a clean-up pass; all passes give the value, in the region and outside of it, less
\* its fraction (decode.go:24-640, 803-851).
Reconstructs ==
    pc = "decode" /\ pass > 0 =>
        LET b == Bpno(Numbps, pass - 1)
            planes == IF PassType(pass - 1) = 2 THEN {b} ELSE {b, b + 1}
        IN  /\ \A x \in Cells : \E p \in planes : data[x] = Known(x, p)
            /\ pass = Total => \A x \in Cells :
                  LET v == Abs(coeffs[x]) \div 2 ^ (Frac + (IF x[2] = 0 THEN block.roi ELSE 0))
                  IN  Dequantized(Unshifted(data[x])) = IF coeffs[x] < 0 THEN -v ELSE v
===============================================================================
