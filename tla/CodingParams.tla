------------------------------ MODULE CodingParams ------------------------------
(***************************************************************************)
(* The coding parameters the encoder derives from what its user asks for:   *)
(* Encoder.SetupEncoder of internal/j2k/j2k_encode.go with the cinema       *)
(* profiles of j2k_encode_profiles.go and the extra options.                *)
(*                                                                          *)
(* An image is a record [w, precincts, comps, space, icc], with one record  *)
(* [prec, sgnd, dx, alpha] for each component; one dimension stands for     *)
(* both, and "precincts" is the largest number of precincts of a resolution.*)
(* A request u is CParameters, with sizes of code-blocks and precincts as   *)
(* exponents of 2, the number of a progression order as in the file, and    *)
(* [tile, res0, comp0, lay1, res1, comp1, prg] for a progression change.    *)
(* Rates, distortions and the custom transform of Part 2 are left out.      *)
(***************************************************************************)
EXTENDS Integers, Sequences, FiniteSets, FiniteSetsExt

CONSTANTS
    MaxRLvls,       \* the most resolutions
    MaxLayers,      \* the length of TcpRates
    MaxPocs,        \* the most progression changes
    StepTable       \* norms.go: floor(8192 / norm) by orientation and level, of the 9/7 wavelet

Lowest(a, b) == IF a < b THEN a ELSE b
CeilDiv(a, b) == (a + b - 1) \div b
LettersOf(prg) ==
    CASE prg = 0 -> <<"L", "R", "C", "P">> [] prg = 1 -> <<"R", "L", "C", "P">>
      [] prg = 2 -> <<"R", "P", "C", "L">> [] prg = 3 -> <<"P", "C", "R", "L">>
      [] prg = 4 -> <<"C", "P", "R", "L">>

\* The flags of Scod: 1 for precincts (PRT), 2 for SOP, 4 for EPH.
HasPRT(csty) == csty % 2 = 1
WithPRT(csty) == IF HasPRT(csty) THEN csty ELSE csty + 1

-------------------------------------------------------------------------------
(* What is asked for *)

Refused(u, img) ==
    \/ u.numlayers \notin 0 .. MaxLayers
    \/ Len(u.pocs) > MaxPocs
    \/ HasPRT(u.csty) /\ Len(u.prcs) \notin 1 .. MaxRLvls
    \/ u.mct = 1 /\ Len(img.comps) < 3
    \/ u.tp \notin {"off", "R", "L", "C"}
    \/ u.prg \notin 0 .. 4
    \/ \E i \in DOMAIN u.pocs :
          \/ u.pocs[i].prg \notin 0 .. 4
          \/ 0 \in {u.pocs[i].lay1, u.pocs[i].res1, u.pocs[i].comp1}
    \/ u.numres \notin 1 .. MaxRLvls
    \/ \E e \in {u.cblkw, u.cblkh} : e \notin 2 .. 10
    \/ u.cblkw + u.cblkh > 12

Cinema == {"cinema2K", "cinema4K"}

\* Two progressions, the second for the highest resolution, which 2K leaves out.
Poc4K(numres) ==
    LET poc(r0, r1) == [tile |-> 1, res0 |-> r0, comp0 |-> 0, lay1 |-> 1,
                        res1 |-> r1, comp1 |-> 3, prg |-> 4]
    IN  <<poc(0, numres - 1), poc(numres - 1, numres)>>

CinemaRes(u) ==
    IF u.rsiz = "cinema2K" THEN Lowest(u.numres, 6)
    ELSE IF u.numres < 2 THEN 1 ELSE Lowest(u.numres, 7)

CinemaParameters(u) ==
    LET n == CinemaRes(u)
    IN  [u EXCEPT !.tdx = 0, !.tp = "C", !.cblkw = 5, !.cblkh = 5, !.mode = 0,
                  !.roi = <<-1, 0>>, !.irreversible = TRUE, !.numlayers = 1,
                  !.numres = n, !.csty = WithPRT(@), !.prg = 4,
                  !.prcs = IF n = 1 THEN <<7>> ELSE [i \in 1 .. n - 1 |-> 8],
                  !.pocs = IF u.rsiz = "cinema4K" THEN Poc4K(n) ELSE <<>>]

CinemaCompliant(img) ==
    /\ Len(img.comps) = 3
    /\ \A i \in 1 .. 3 : img.comps[i].prec = 12 /\ img.comps[i].sgnd = 0

\* The profile is given up for an image that does not fit it, the parameters stay.
Coerced(u, img) ==
    LET layers == [u EXCEPT !.numlayers = IF @ = 0 THEN 1 ELSE @]
    IN  IF u.rsiz \notin Cinema THEN layers
        ELSE [CinemaParameters(layers) EXCEPT
                 !.rsiz = IF CinemaCompliant(img) THEN @ ELSE "none",
                 !.tlm = TRUE]

-------------------------------------------------------------------------------
(* Step sizes: norms.go *)

FloorLog2(n) == CHOOSE e \in 0 .. 31 : 2 ^ e <= n /\ n < 2 ^ (e + 1)

\* encodeStepsize.
EncodedStep(step, numbps) ==
    LET e == FloorLog2(step)
    IN  <<numbps - (e - 13),
          (IF e > 11 THEN step \div 2 ^ (e - 11) ELSE step * 2 ^ (11 - e)) % 2048>>

Orient(band) == IF band = 0 THEN 0 ELSE ((band - 1) % 3) + 1
Resolution(band) == IF band = 0 THEN 0 ELSE (band - 1) \div 3 + 1
Gain(band, qmfbid) == IF qmfbid = 0 THEN 0 ELSE <<0, 1, 1, 2>>[Orient(band) + 1]

\* CalcExplicitStepsizes.
Steps(numres, qmfbid, prec) ==
    [b \in 1 .. 3 * numres - 2 |->
        EncodedStep(IF qmfbid = 1 THEN 8192
                    ELSE StepTable[Orient(b - 1) + 1][numres - Resolution(b - 1)],
                    prec + Gain(b - 1, qmfbid))]

-------------------------------------------------------------------------------
(* The parameters of a tile: cparams.TCP, and cparams.TCCP of a component *)

\* Precincts are given from the highest resolution downwards; below the last one given,
\* each is half the one above.  A size below 1, with -1 for its exponent, counts as 2.
PrecinctExp(given, p) ==
    LET e == IF p < Len(given) THEN given[p + 1] ELSE given[Len(given)] - (p - (Len(given) - 1))
    IN  IF e < 0 THEN 1 ELSE e

Precincts(u) ==
    [r \in 1 .. u.numres |-> IF HasPRT(u.csty) THEN PrecinctExp(u.prcs, u.numres - r) ELSE 15]

Component(u, img, c) ==
    LET qmfbid == IF u.irreversible THEN 0 ELSE 1
    IN  [csty |-> u.csty % 2, numres |-> u.numres, cblkw |-> u.cblkw, cblkh |-> u.cblkh,
         cblksty |-> u.mode, qmfbid |-> qmfbid, prc |-> Precincts(u),
         qntsty |-> IF u.irreversible THEN 2 ELSE 0,
         numgbits |-> IF u.gbits >= 0 THEN u.gbits ELSE IF u.rsiz = "cinema2K" THEN 1 ELSE 2,
         steps |-> Steps(u.numres, qmfbid, img.comps[c].prec),
         roishift |-> IF u.roi[1] = c - 1 THEN u.roi[2] ELSE 0,
         dc |-> IF img.comps[c].sgnd = 0 THEN 2 ^ (img.comps[c].prec - 1) ELSE 0]

\* As many records as name the tile, and always from the front of the list.
PocsOf(u, img, t) ==
    LET n == Cardinality({i \in DOMAIN u.pocs : u.pocs[i].tile = t + 1})
    IN  [k \in 1 .. n |->
            [res0 |-> u.pocs[k].res0, comp0 |-> u.pocs[k].comp0, lay1 |-> u.pocs[k].lay1,
             res1 |-> u.pocs[k].res1, comp1 |-> Lowest(u.pocs[k].comp1, Len(img.comps)),
             prg |-> u.pocs[k].prg]]

SameSize(img) == \A i \in {2, 3} : img.comps[i].dx = img.comps[1].dx

\* The one check that comes after the parameters were coerced.
PocRefused(u, img, t) == \E k \in DOMAIN PocsOf(u, img, t) : u.pocs[k].comp0 >= Len(img.comps)

Tcp(u, img, t) ==
    [csty |-> u.csty, prg |-> u.prg, numlayers |-> u.numlayers,
     mct |-> IF u.mct = 1 /\ SameSize(img) THEN 1 ELSE 0,
     pocs |-> PocsOf(u, img, t),
     comps |-> [c \in DOMAIN img.comps |-> Component(u, img, c)]]

Tdx(u, img) == IF u.tdx = 0 THEN img.w ELSE u.tdx

\* The coding parameters, cparams.CP.
Setup(u, img) ==
    LET p == Coerced(u, img)
    IN  [rsiz |-> p.rsiz, tdx |-> Tdx(p, img), tp |-> p.tp, tlm |-> p.tlm, plt |-> p.plt,
         tcps |-> [t \in 0 .. CeilDiv(img.w, Tdx(p, img)) - 1 |-> Tcp(p, img, t)]]

SetupRefused(u, img) ==
    \/ Refused(u, img)
    \/ LET p == Coerced(u, img)
       IN  \E t \in 0 .. CeilDiv(img.w, Tdx(p, img)) - 1 : PocRefused(p, img, t)

\* encodingValidation, when the compression starts.
TooManyResolutions(cp) == cp.tdx < 2 ^ (cp.tcps[0].comps[1].numres - 1)

===============================================================================
