------------------------------ MODULE CodingPasses ------------------------------
(***************************************************************************)
(* The coding passes of a code-block in internal/t1: a clean-up pass for its *)
(* first bit-plane, then a significance, a refinement and a clean-up pass   *)
(* for each further one; which of them are raw, after which of them the     *)
(* coder terminates, and the codeword segments a decoder expects.  Passes   *)
(* are numbered from 0.                                                     *)
(***************************************************************************)
EXTENDS Integers, Sequences

Styles == {"lazy", "reset", "termall", "vsc", "pterm", "segsym"}

NumPasses(numbps) == 3 * numbps - 2
PassType(n) == (n + 2) % 3              \* 0 significance, 1 refinement, 2 clean-up
Bpno(numbps, n) == numbps - 1 - (n + 2) \div 3

IsRaw(numbps, style, n) ==
    "lazy" \in style /\ Bpno(numbps, n) < numbps - 4 /\ PassType(n) < 2

\* encIsTermPass
IsTermPass(numbps, style, n) ==
    \/ PassType(n) = 2 /\ Bpno(numbps, n) = 0
    \/ "termall" \in style
    \/ /\ "lazy" \in style
       /\ \/ Bpno(numbps, n) = numbps - 4 /\ PassType(n) = 2
          \/ Bpno(numbps, n) < numbps - 4 /\ PassType(n) > 0

\* initSeg: the passes that segment number i (from 0) may hold; 109 are all of them.
MaxPasses(style, i) ==
    CASE "termall" \in style -> 1
      [] "termall" \notin style /\ "lazy" \in style ->
            IF i = 0 THEN 10 ELSE IF i % 2 = 1 THEN 2 ELSE 1
      [] OTHER -> 109

\* The first pass of segment number i, and the segment that pass n falls into.
SegStart(style, i) ==
    CASE "termall" \in style -> i
      [] "termall" \notin style /\ "lazy" \in style ->
            IF i = 0 THEN 0 ELSE 10 + 3 * ((i - 1) \div 2) + 2 * ((i - 1) % 2)
      [] OTHER -> 109 * i
SegOf(style, n) == CHOOSE i \in 0 .. n : n \in SegStart(style, i) .. SegStart(style, i) + MaxPasses(style, i) - 1
================================================================================
