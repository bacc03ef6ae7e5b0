---------------------------- MODULE MCRateAllocation ----------------------------
(***************************************************************************)
(* RateAllocation for TLC: one or two code-blocks, up to three passes, one  *)
(* or two layers.                                                          *)
(***************************************************************************)
EXTENDS RateAllocation

\* The passes with the given steps of bytes and of distortion.
Passes(steps) ==
    LET n[k \in 0 .. Len(steps)] ==
          IF k = 0 THEN [rate |-> 0, dist |-> 0]
          ELSE [rate |-> n[k - 1].rate + steps[k][1], dist |-> n[k - 1].dist + steps[k][2]]
    IN  [k \in DOMAIN steps |-> n[k]]

\* A pass takes up to two bytes; one may come to no bytes at all.
Steps == {<<1, 1>>, <<1, 3>>, <<2, 1>>, <<2, 4>>, <<1, 0>>, <<0, 2>>, <<0, 0>>}
FirstSteps == {<<1, 2>>, <<1, 4>>, <<2, 1>>, <<2, 3>>}

OneBlock == {<<Passes(<<s, t, u>>)>> : s \in FirstSteps, t \in Steps, u \in Steps}
TwoBlocks == {<<Passes(<<s, t>>), Passes(<<u>>)>> : s \in FirstSteps, t \in Steps, u \in FirstSteps}

\* The limits grow from layer to layer; the last layer often has none.
RateLimits == {<<n>> : n \in 2 .. 7} \cup {<<3, n>> : n \in {0, 6, 8}} \cup {<<5, 7>>, <<5, 9>>}
QualityLimits == {<<n>> : n \in {1, 3, 5}} \cup {<<2, 0>>, <<3, 5>>, <<4, 7>>}

MCJobs ==
    {[strategy |-> "rate", blocks |-> b, limit |-> l] : b \in OneBlock \cup TwoBlocks, l \in RateLimits}
    \cup {[strategy |-> "quality", blocks |-> b, limit |-> l] :
            b \in OneBlock \cup TwoBlocks, l \in QualityLimits}
=============================================================================
