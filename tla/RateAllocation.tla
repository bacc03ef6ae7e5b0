----------------------------- MODULE RateAllocation -----------------------------
(***************************************************************************)
(* The division of a tile's coding passes into layers: rateallocate and     *)
(* makelayer of internal/tcd/rate_alloc.go, for layers with a limit on      *)
(* their bytes (strategy "rate") or with a distortion to come up to         *)
(* ("quality").  For each layer a threshold for the slope of the passes,    *)
(* distortion taken away for each byte, is searched for by bisection, and   *)
(* in the first strategy each allocation that is new is tried out by the    *)
(* packet coder.                                                            *)
(*                                                                          *)
(* Slopes are in units of 1/Scale in place of floating point: as long as    *)
(* the slopes of a job that differ do so by more than a unit, the search    *)
(* tells them apart here as there.  A packet is a byte of header, one for   *)
(* each code-block it has passes of (see PacketHeader for the real header), *)
(* and the bytes of the passes; the tile is one precinct.                   *)
(*                                                                          *)
(* A job has the strategy; of each code-block the passes, as records of the *)
(* bytes (rate) and of the distortion taken away (dist) up to each of them; *)
(* and of each layer the limit, 0 for none: the bytes that the layers up to *)
(* it may have, or the distortion they are to come up to.  The profiles of  *)
(* digital cinema and the strategy of fixed layers are left out.            *)
(***************************************************************************)
EXTENDS Integers, Sequences, FiniteSetsExt

CONSTANTS
    Jobs,
    Scale,
    Rounds      \* of the bisection, at most: 128

ASSUME RateAssumption ==
    /\ Scale \in Nat \ {0} /\ Rounds \in Nat \ {0}
    /\ \A j \in Jobs :
          /\ j.strategy \in {"rate", "quality"}
          /\ j.blocks \in Seq(Seq([rate : Nat, dist : Int]))
          /\ j.limit \in Seq(Nat) /\ j.limit # <<>>
          \* the encoder of the code-blocks sees to it that rates do not fall
          /\ \A b \in DOMAIN j.blocks : \A p, q \in DOMAIN j.blocks[b] :
                p <= q => j.blocks[b][p].rate <= j.blocks[b][q].rate
          \* some pass has bytes and takes distortion away
          /\ \E b \in DOMAIN j.blocks : \E p \in DOMAIN j.blocks[b] :
                j.blocks[b][p].rate > 0 /\ j.blocks[b][p].dist > 0

VARIABLES
    job,
    pc,         \* "layer" before a layer, "search" in its bisection, "done"
    layno,      \* from 1
    passes,     \* layer.Numpasses, by layer and code-block
    in,         \* cblk.Numpassesinlayers
    i, lo, hi, thresh,
    stable,     \* stableThresh
    lastOk      \* lastLayerAllocationOk

search == <<i, lo, hi, thresh, stable, lastOk>>
vars == <<job, pc, layno, passes, in, search>>

Blocks == DOMAIN job.blocks
Layers == DOMAIN job.limit
At(cblk, n) == IF n = 0 THEN [rate |-> 0, dist |-> 0] ELSE cblk[n]
Rate(cblk, from, to) == At(cblk, to).rate - At(cblk, from).rate
Dist(cblk, from, to) == At(cblk, to).dist - At(cblk, from).dist

-----------------------------------------------------------------------------
(* makelayer                                                               *)

\* Whether the passes behind n up to pass p are worth their bytes at the
\* threshold t; those that cost nothing are, unless they do nothing.
Worth(cblk, n, p, t) ==
    IF Rate(cblk, n, p) = 0 THEN Dist(cblk, n, p) # 0
    ELSE t * Rate(cblk, n, p) <= Scale * Dist(cblk, n, p)

\* The passes of a code-block that are in layers once this one is made; a
\* negative threshold takes all.
Reach(cblk, from, t) ==
    IF t < 0 THEN Len(cblk)
    ELSE LET n[p \in from .. Len(cblk)] ==
               IF p > from /\ ~Worth(cblk, n[p - 1], p, t) THEN n[p - 1] ELSE p
         IN  n[Len(cblk)]

Made(from, t) == [b \in Blocks |-> Reach(job.blocks[b], from[b], t) - from[b]]

-----------------------------------------------------------------------------
(* What the layers up to l come to if the last of them has the passes made,*)
(* behind the passes from that the others have; Total is the sum over the  *)
(* code-blocks.                                                            *)

Total(f) ==
    LET n[b \in 0 .. Len(job.blocks)] == IF b = 0 THEN 0 ELSE n[b - 1] + f[b]
    IN  n[Len(job.blocks)]

Bytes(l, from, made) ==
    l + Total([b \in Blocks |-> Rate(job.blocks[b], 0, from[b] + made[b])])
      + Cardinality({b \in Blocks : made[b] > 0})
      + Cardinality({kb \in (1 .. l - 1) \X Blocks : passes[kb[1]][kb[2]] > 0})

Achieved(from, made) == Total([b \in Blocks |-> Dist(job.blocks[b], 0, from[b] + made[b])])

\* The packet coder, run without output, finds room for the layers; or the
\* layers are still short of the distortion they are to take away.
Acceptable(l, from, made) ==
    IF job.strategy = "rate" THEN Bytes(l, from, made) <= job.limit[l]
    ELSE Achieved(from, made) < job.limit[l]

\* The slopes of the single passes, those without bytes left out.
Slopes ==
    UNION {{(Scale * Dist(job.blocks[b], p - 1, p)) \div Rate(job.blocks[b], p - 1, p) :
               p \in {q \in DOMAIN job.blocks[b] : Rate(job.blocks[b], q - 1, q) > 0}} :
           b \in Blocks}

\* The search halves towards the least slope and comes as near as it likes, but
\* does not get there, unless it is 0.
Least == IF Min(Slopes) = 0 THEN 0 ELSE Min(Slopes) + 1
Greatest == Max(Slopes)

-----------------------------------------------------------------------------
Init ==
    /\ job \in Jobs
    /\ pc = "layer" /\ layno = 1
    /\ passes = [l \in Layers |-> [b \in Blocks |-> 0]]
    /\ in = [b \in Blocks |-> 0]
    /\ i = 0 /\ lo = 0 /\ hi = 0 /\ thresh = 0 /\ stable = 0 /\ lastOk = FALSE

\* makelayer with final set: the passes go into the layer for good.
MakeFinal(t) ==
    /\ passes' = [passes EXCEPT ![layno] = Made(in, t)]
    /\ in' = [b \in Blocks |-> Reach(job.blocks[b], in[b], t)]
    /\ layno' = layno + 1
    /\ pc' = IF layno = Len(job.limit) THEN "done" ELSE "layer"

\* A layer without a limit takes all that is left.
Unlimited ==
    /\ pc = "layer" /\ job.limit[layno] = 0
    /\ MakeFinal(-1)
    /\ UNCHANGED <<job, search>>

StartSearch ==
    /\ pc = "layer" /\ job.limit[layno] > 0
    /\ pc' = "search"
    /\ i' = 0 /\ lo' = Least /\ hi' = Greatest
    /\ thresh' = 0 /\ stable' = 0 /\ lastOk' = FALSE
    /\ UNCHANGED <<job, layno, passes, in>>

NewThresh == (lo + hi) \div 2
Distance == IF NewThresh > thresh THEN NewThresh - thresh ELSE thresh - NewThresh
Settled == i = Rounds \/ 200000 * Distance <= thresh

\* Mutant: the first round too is compared with what the layer holds.
UnchangedAtFirst(made) == made = passes[layno]

\* The allocation of this round is that of the round before.
Unchanged(made) == i # 0 /\ made = passes[layno]

\* Mutant: an allocation that has not changed is taken to be good.
GoodUnlessNew(made) ==
    \/ job.strategy = "rate" /\ Unchanged(made)
    \/ Acceptable(layno, in, made)

\* What the round finds: in the first strategy an allocation that was tried in
\* the round before is not tried again.
Good(made) ==
    IF job.strategy = "rate" /\ Unchanged(made) THEN lastOk
    ELSE Acceptable(layno, in, made)

Round ==
    /\ pc = "search" /\ ~Settled
    /\ LET made == Made(in, NewThresh)
       IN  /\ passes' = [passes EXCEPT ![layno] = made]
           /\ lastOk' = (job.strategy = "rate" /\ Good(made))
           /\ IF Good(made)
              THEN hi' = NewThresh /\ stable' = NewThresh /\ lo' = lo
              ELSE lo' = NewThresh /\ UNCHANGED <<hi, stable>>
    /\ thresh' = NewThresh
    /\ i' = i + 1
    /\ UNCHANGED <<job, pc, layno, in>>

\* Mutant: the last one tried.
LastThresh == thresh

\* The last good threshold; if none was, the last one tried.
GoodThresh == IF stable = 0 THEN thresh ELSE stable

Finish ==
    /\ pc = "search" /\ Settled
    /\ MakeFinal(GoodThresh)
    /\ UNCHANGED <<job, search>>

Next == Unlimited \/ StartSearch \/ Round \/ Finish

Spec == Init /\ [][Next]_vars

-----------------------------------------------------------------------------
\* The layer made last was made after a search; the passes before it.
Searched == pc # "search" /\ layno > 1 /\ job.limit[layno - 1] > 0
From == [b \in Blocks |-> in[b] - passes[layno - 1][b]]

\* The threshold a layer is written with may be one that was not the last to be
\* tried, and an allocation is only tried out when it is new.  A layer for which
\* a good threshold was found is within its limit as it is written (rateallocate
\* and makelayer of internal/tcd/rate_alloc.go).
WithinLimit ==
    Searched /\ stable > 0 => Acceptable(layno - 1, From, passes[layno - 1])

\* The bisection takes it that a lower threshold never gives less.  No threshold
\* between the least and the greatest slope gives an allocation that is within
\* the limit and has a pass of any code-block that the layer as written lacks;
\* and if one gives an allocation within the limit, so is the one written.
NothingBetter ==
    Searched =>
        \A t \in Least .. Greatest :
            LET made == Made(From, t)
            IN  Acceptable(layno - 1, From, made) =>
                    /\ Acceptable(layno - 1, From, passes[layno - 1])
                    /\ \A b \in Blocks : made[b] <= passes[layno - 1][b]
=============================================================================
