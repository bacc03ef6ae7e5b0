------------------------- MODULE RateAllocationProofs -------------------------
(***************************************************************************)
(* Theorems about RateAllocation, for every tile, every limit of its layers *)
(* and every length of the search: makelayer stays inside a code-block's    *)
(* passes, a layer for which the search found a good threshold is within    *)
(* its limit as it is written, no higher threshold gives it more, the       *)
(* threshold that the search rejected last does take too much, and where    *)
(* the search tells the slopes apart no threshold that fits gives more.     *)
(***************************************************************************)
EXTENDS RateAllocation, Induction, FiniteSetTheorems, FunctionTheorems, TLAPS

-------------------------------------------------------------------------------
(* Lemmas about jobs and about makelayer. *)

LEMMA JobType ==
    ASSUME job \in Jobs
    PROVE  /\ \A b \in Blocks : Len(job.blocks[b]) \in Nat
           /\ Len(job.limit) \in Nat /\ Len(job.limit) >= 1
           /\ Layers = 1 .. Len(job.limit)
           /\ \A l \in Layers : job.limit[l] \in Nat
<1>1. /\ job.blocks \in Seq(Seq([rate : Nat, dist : Int]))
      /\ job.limit \in Seq(Nat) /\ job.limit # <<>>
  BY RateAssumption
<1>2. \A b \in Blocks : Len(job.blocks[b]) \in Nat
  BY <1>1 DEF Blocks
<1> QED
  BY <1>1, <1>2 DEF Layers

\* The recursion of makelayer over the passes of a code-block has a value for each of
\* them: how many passes are taken once that one was looked at.
LEMMA ReachIs ==
    ASSUME NEW cblk, Len(cblk) \in Nat, NEW from \in 0 .. Len(cblk), NEW t
    PROVE  \E n \in [from .. Len(cblk) -> Int] :
              /\ \A p \in from .. Len(cblk) :
                    /\ n[p] \in from .. p
                    /\ n[p] = IF p > from /\ ~Worth(cblk, n[p - 1], p, t) THEN n[p - 1] ELSE p
              /\ Reach(cblk, from, t) = IF t < 0 THEN Len(cblk) ELSE n[Len(cblk)]
<1> DEFINE T == Len(cblk)
           V == from .. T
           Is(n) == n = [p \in from .. T |->
                          IF p > from /\ ~Worth(cblk, n[p - 1], p, t) THEN n[p - 1] ELSE p]
           h == [p \in V |-> [v \in V |-> IF ~Worth(cblk, v, p, t) THEN v ELSE p]]
<1>1. T \in V /\ from \in V /\ from \in Int /\ T \in Int
  OBVIOUS
<1>2. \A p \in from + 1 .. T : p \in V /\ p > from /\ p # from
  OBVIOUS
<1>3. \E n \in [V -> V] : Is(n)
  <2>1. \A p \in from + 1 .. T : \A v \in V : h[p][v] \in V
    <3> HIDE DEF V
    <3> QED
      BY <1>2
  <2>2. PICK f \in [from .. T -> V] :
           \A p \in from .. T : f[p] = IF p = from THEN from ELSE h[p][f[p - 1]]
    <3>1. StepsIn(V, from, T, h)
      BY <2>1 DEF StepsIn
    <3> HIDE DEF h, V, T
    <3>2. \E f \in [from .. T -> V] : Recurses(f, from, T, from, h)
      BY <1>1, <3>1, IntervalRecursion
    <3> QED
      BY <3>2 DEF Recurses
  <2>3. ASSUME NEW p \in from .. T
        PROVE  f[p] = IF p > from /\ ~Worth(cblk, f[p - 1], p, t) THEN f[p - 1] ELSE p
    <3>1. f[p] = IF p = from THEN from ELSE h[p][f[p - 1]]
      BY <2>2
    <3>2. CASE p = from
      BY <3>1, <3>2
    <3>3. CASE p # from
      <4>1. p > from /\ p - 1 \in V /\ p \in V
        BY <3>3
      <4>2. f[p - 1] \in V
        BY <2>2, <4>1
      <4> QED
        BY <3>1, <3>3, <4>1, <4>2
    <3> QED
      BY <3>2, <3>3
  <2>4. f = [p \in from .. T |-> IF p > from /\ ~Worth(cblk, f[p - 1], p, t) THEN f[p - 1] ELSE p]
    BY <2>2, <2>3
  <2> QED
    BY <2>2, <2>4
<1> DEFINE g == CHOOSE n : Is(n)
<1>4. Is(g)
  BY <1>3
<1> HIDE DEF g
<1>5. \A p \in V : g[p] = IF p > from /\ ~Worth(cblk, g[p - 1], p, t) THEN g[p - 1] ELSE p
  BY <1>4
<1>6. \A p \in V : g[p] \in from .. p
  <2> DEFINE S == {p \in V : g[p] \in from .. p}
  <2>1. from \in S
    BY <1>1, <1>5
  <2>2. \A p \in from .. T - 1 : p \in S => p + 1 \in S
    <3> TAKE p \in from .. T - 1
    <3>1. p + 1 \in V /\ (p + 1) - 1 = p
      OBVIOUS
    <3> QED
      BY <1>5, <3>1
  <2> HIDE DEF S
  <2>3. from .. T \subseteq S
    BY <1>1, <2>1, <2>2, IntervalInduction
  <2> QED
    BY <2>3 DEF S
<1>7. Reach(cblk, from, t) = IF t < 0 THEN T ELSE g[T]
  BY DEF Reach, g
<1>8. g \in [V -> Int]
  <2>1. g = [p \in V |-> g[p]]
    BY <1>4
  <2> QED
    BY <1>6, <2>1
<1> QED
  BY <1>5, <1>6, <1>7, <1>8

\* Whatever the passes are worth, makelayer neither takes a pass back that is in
\* a layer nor goes behind the last (makelayer of rate_alloc.go).
LEMMA ReachBounds ==
    ASSUME NEW cblk, Len(cblk) \in Nat, NEW from \in 0 .. Len(cblk), NEW t
    PROVE  Reach(cblk, from, t) \in from .. Len(cblk)
<1>1. PICK n \in [from .. Len(cblk) -> Int] :
         /\ \A p \in from .. Len(cblk) : n[p] \in from .. p
         /\ Reach(cblk, from, t) = IF t < 0 THEN Len(cblk) ELSE n[Len(cblk)]
  BY ReachIs
<1>2. Len(cblk) \in from .. Len(cblk)
  OBVIOUS
<1> QED
  BY <1>1, <1>2

\* The layers and code-blocks with passes, as Bytes counts them.
Given(l) == {kb \in (1 .. l - 1) \X Blocks : passes[kb[1]][kb[2]] > 0}

\* What a layer comes to is the same as long as the layers before it keep theirs.
LEMMA SameAcceptable ==
    ASSUME UNCHANGED job, NEW l \in Nat, NEW from, NEW made,
           \A k \in 1 .. l - 1 : passes'[k] = passes[k]
    PROVE  Acceptable(l, from, made)' <=> Acceptable(l, from, made)
<1>1. Blocks' = Blocks
  BY DEF Blocks
<1>2. Given(l)' = Given(l)
  BY <1>1 DEF Given
<1>3. Bytes(l, from, made)' = Bytes(l, from, made)
  <2> DEFINE f == [b \in Blocks |-> Rate(job.blocks[b], 0, from[b] + made[b])]
  <2>1. f' = f
    BY <1>1
  <2>2. Total(f)' = Total(f)
    <3> HIDE DEF f
    <3> QED
      BY <2>1 DEF Total
  <2> QED
    BY <1>1, <1>2, <2>1, <2>2 DEF Bytes, Given
<1>4. Achieved(from, made)' = Achieved(from, made)
  <2> DEFINE f == [b \in Blocks |-> Dist(job.blocks[b], 0, from[b] + made[b])]
  <2>1. f' = f
    BY <1>1
  <2>2. Total(f)' = Total(f)
    <3> HIDE DEF f
    <3> QED
      BY <2>1 DEF Total
  <2> QED
    BY <2>1, <2>2 DEF Achieved
<1> QED
  BY <1>3, <1>4 DEF Acceptable

\* A layer that is searched for has a limit.  The last good threshold makes it one
\* within the limit, and what the layer was tried with last is within it if it was
\* found to be.
SearchInv ==
    pc = "search" =>
        /\ job.limit[layno] > 0
        /\ stable > 0 => Acceptable(layno, in, Made(in, stable))
        /\ lastOk => Acceptable(layno, in, passes[layno])

RateInv ==
    /\ job \in Jobs
    /\ pc \in {"layer", "search", "done"}
    /\ layno \in 1 .. Len(job.limit) + 1
    /\ pc # "done" => layno \in Layers
    /\ passes \in [Layers -> [Blocks -> Nat]]
    /\ in \in [Blocks -> Nat]
    /\ \A b \in Blocks : in[b] \in 0 .. Len(job.blocks[b])
    /\ i \in Nat
    /\ lastOk \in BOOLEAN
    /\ SearchInv
    /\ WithinLimit

\* What one more layer is made of.
LEMMA MadeType ==
    ASSUME job \in Jobs, \A b \in Blocks : in[b] \in 0 .. Len(job.blocks[b]), NEW t
    PROVE  /\ Made(in, t) \in [Blocks -> Nat]
           /\ \A b \in Blocks : Reach(job.blocks[b], in[b], t) \in in[b] .. Len(job.blocks[b])
<1>1. \A b \in Blocks : Reach(job.blocks[b], in[b], t) \in in[b] .. Len(job.blocks[b])
  BY JobType, ReachBounds
<1>2. \A b \in Blocks : Reach(job.blocks[b], in[b], t) - in[b] \in Nat
  BY <1>1, JobType
<1> QED
  BY <1>1, <1>2 DEF Made

-------------------------------------------------------------------------------
(* One lemma for each action. *)

LEMMA InitRate == Init => RateInv
<1> SUFFICES ASSUME Init
             PROVE  RateInv
  OBVIOUS
<1>1. job \in Jobs /\ pc = "layer" /\ layno = 1 /\ i = 0 /\ lastOk = FALSE
  BY DEF Init
<1>2. layno \in Layers /\ layno \in 1 .. Len(job.limit) + 1
  BY <1>1, JobType
<1>3. passes \in [Layers -> [Blocks -> Nat]] /\ in \in [Blocks -> Nat]
  BY DEF Init
<1>4. \A b \in Blocks : in[b] \in 0 .. Len(job.blocks[b])
  <2>1. \A b \in Blocks : in[b] = 0
    BY DEF Init
  <2> QED
    BY <1>1, <2>1, JobType
<1>5. SearchInv /\ WithinLimit
  BY <1>1 DEF SearchInv, WithinLimit, Searched
<1> QED
  BY <1>1, <1>2, <1>3, <1>4, <1>5 DEF RateInv

\* makelayer with final set: what it keeps of the types.
LEMMA MakeFinalTypes ==
    ASSUME RateInv, pc # "done", NEW t, MakeFinal(t), UNCHANGED <<job, search>>
    PROVE  /\ layno' \in 1 .. Len(job.limit) + 1
           /\ pc' \in {"layer", "done"} /\ (pc' # "done" => layno' \in Layers)
           /\ passes' \in [Layers -> [Blocks -> Nat]]
           /\ in' \in [Blocks -> Nat]
           /\ \A b \in Blocks : in'[b] \in 0 .. Len(job.blocks[b])
<1>1. /\ job \in Jobs /\ layno \in Layers /\ passes \in [Layers -> [Blocks -> Nat]]
      /\ \A b \in Blocks : in[b] \in 0 .. Len(job.blocks[b])
  BY DEF RateInv
<1>2. /\ Len(job.limit) \in Nat /\ Layers = 1 .. Len(job.limit)
      /\ \A b \in Blocks : Len(job.blocks[b]) \in Nat
  BY <1>1, JobType
<1>3. /\ Made(in, t) \in [Blocks -> Nat]
      /\ \A b \in Blocks : Reach(job.blocks[b], in[b], t) \in in[b] .. Len(job.blocks[b])
  BY <1>1, MadeType
<1>4. /\ passes' = [passes EXCEPT ![layno] = Made(in, t)]
      /\ in' = [b \in Blocks |-> Reach(job.blocks[b], in[b], t)]
      /\ layno' = layno + 1
      /\ pc' = IF layno = Len(job.limit) THEN "done" ELSE "layer"
  BY DEF MakeFinal
<1>5. layno' \in 1 .. Len(job.limit) + 1 /\ (pc' # "done" => layno' \in Layers)
  BY <1>1, <1>2, <1>4
<1>6. \A b \in Blocks : in'[b] \in 0 .. Len(job.blocks[b]) /\ in'[b] \in Nat
  BY <1>1, <1>2, <1>3, <1>4
<1> QED
  BY <1>1, <1>3, <1>4, <1>5, <1>6

LEMMA UnlimitedRate == RateInv /\ Unlimited => RateInv'
<1> SUFFICES ASSUME RateInv, Unlimited
             PROVE  RateInv'
  OBVIOUS
<1>1. /\ pc = "layer" /\ MakeFinal(-1) /\ UNCHANGED <<job, search>>
      /\ job.limit[layno] = 0 /\ layno' = layno + 1 /\ layno \in Nat
  BY JobType DEF Unlimited, MakeFinal, RateInv
<1>2. Blocks' = Blocks /\ Layers' = Layers
  BY <1>1 DEF Blocks, Layers
<1>3. WithinLimit' /\ SearchInv'
  <2>1. layno' - 1 = layno /\ job'.limit[layno' - 1] = 0 /\ pc' # "search"
    BY <1>1 DEF MakeFinal
  <2> QED
    BY <2>1 DEF WithinLimit, SearchInv, Searched
<1> QED
  BY <1>1, <1>2, <1>3, MakeFinalTypes DEF RateInv, search

LEMMA StartSearchRate == RateInv /\ StartSearch => RateInv'
<1> SUFFICES ASSUME RateInv, StartSearch
             PROVE  RateInv'
  OBVIOUS
<1>1. /\ pc = "layer" /\ pc' = "search" /\ i' = 0 /\ stable' = 0 /\ lastOk' = FALSE
      /\ UNCHANGED <<job, layno, passes, in>>
  BY DEF StartSearch
<1>2. Blocks' = Blocks /\ Layers' = Layers
  BY <1>1 DEF Blocks, Layers
<1>3. SearchInv' /\ WithinLimit'
  BY <1>1 DEF StartSearch, SearchInv, WithinLimit, Searched
<1> QED
  BY <1>1, <1>2, <1>3 DEF RateInv

\* What a round calls good is within the limit, though it may not have been tried.
LEMMA GoodIsAcceptable ==
    ASSUME SearchInv, pc = "search", NEW made, Good(made)
    PROVE  Acceptable(layno, in, made)
BY DEF SearchInv, Good, Unchanged

LEMMA RoundRate == RateInv /\ Round => RateInv'
<1> SUFFICES ASSUME RateInv, Round
             PROVE  RateInv'
  OBVIOUS
<1>1. PICK l, f, new : l = layno /\ f = in /\ new = NewThresh
  OBVIOUS
<1> DEFINE made == Made(in, new)
<1>2. /\ pc = "search" /\ UNCHANGED <<job, pc, layno, in>>
      /\ passes' = [passes EXCEPT ![layno] = made]
      /\ lastOk' = (job.strategy = "rate" /\ Good(made))
      /\ IF Good(made) THEN stable' = new ELSE stable' = stable
      /\ i' = i + 1
  BY <1>1 DEF Round
<1>3. /\ job \in Jobs /\ layno \in Layers /\ layno \in Nat
      /\ passes \in [Layers -> [Blocks -> Nat]]
      /\ \A b \in Blocks : in[b] \in 0 .. Len(job.blocks[b])
  BY <1>2, JobType DEF RateInv
<1>4. Blocks' = Blocks /\ Layers' = Layers
  BY <1>2 DEF Blocks, Layers
<1>5. made \in [Blocks -> Nat]
  BY <1>3, MadeType
<1>6. passes' \in [Layers -> [Blocks -> Nat]] /\ passes'[layno] = made
  BY <1>2, <1>3, <1>5
<1>7. \A k \in 1 .. l - 1 : passes'[k] = passes[k]
  <2>1. \A k \in 1 .. l - 1 : k # layno /\ k \in Layers
    BY <1>1, <1>3, JobType
  <2> QED
    BY <1>2, <1>3, <2>1
<1>8. ASSUME NEW m, Acceptable(l, f, m)
      PROVE  Acceptable(l, f, m)'
  <2>1. l \in Nat /\ job' = job
    BY <1>1, <1>2, <1>3
  <2> QED
    BY <1>7, <1>8, <2>1, SameAcceptable
<1>9. Good(made) => Acceptable(l, f, made)
  BY <1>1, <1>2, GoodIsAcceptable DEF RateInv
<1>10. SearchInv'
  <2>1. PICK m : m = made
    OBVIOUS
  <2>2. Good(made) => Acceptable(l, f, m)'
    BY <1>8, <1>9, <2>1
  <2>3. Made(in, new)' = m
    BY <1>2, <1>4, <2>1 DEF Made
  <2>4. ASSUME lastOk'
        PROVE  Acceptable(layno, in, passes[layno])'
    <3>1. Good(made)
      BY <1>2, <2>4
    <3>2. layno' = l /\ in' = f /\ passes'[layno'] = m
      BY <1>1, <1>2, <1>6, <2>1
    <3> QED
      BY <2>2, <3>1, <3>2
  <2>5. ASSUME stable' > 0
        PROVE  Acceptable(layno, in, Made(in, stable))'
    <3>1. CASE Good(made)
      <4>1. Made(in, stable)' = m /\ layno' = l /\ in' = f
        BY <1>1, <1>2, <2>1, <2>3, <3>1
      <4> QED
        BY <2>2, <3>1, <4>1
    <3>2. CASE ~Good(made)
      <4>1. PICK n : n = Made(in, stable)
        OBVIOUS
      <4>2. stable' = stable /\ Acceptable(l, f, n)
        BY <1>1, <1>2, <2>5, <3>2, <4>1 DEF RateInv, SearchInv
      <4>3. Made(in, stable)' = n /\ layno' = l /\ in' = f
        BY <1>1, <1>2, <1>4, <4>1, <4>2 DEF Made
      <4> QED
        BY <1>8, <4>2, <4>3
    <3> QED
      BY <3>1, <3>2
  <2>6. job'.limit[layno'] > 0
    BY <1>2 DEF RateInv, SearchInv
  <2> QED
    BY <2>4, <2>5, <2>6 DEF SearchInv
<1>11. WithinLimit'
  BY <1>2 DEF WithinLimit, Searched
<1> QED
  BY <1>2, <1>3, <1>4, <1>6, <1>10, <1>11 DEF RateInv

\* The layer that is written is behind what the layers before it have.
LEMMA FinishFrom ==
    ASSUME RateInv, Finish
    PROVE  /\ layno' - 1 = layno /\ From' = in
           /\ passes'[layno] = Made(in, GoodThresh)
           /\ \A k \in 1 .. layno - 1 : passes'[k] = passes[k]
<1>1. PICK t : t = GoodThresh
  OBVIOUS
<1>2. /\ pc = "search" /\ MakeFinal(t) /\ UNCHANGED <<job, search>>
  BY <1>1 DEF Finish
<1>3. /\ job \in Jobs /\ layno \in Layers /\ layno \in Nat
      /\ passes \in [Layers -> [Blocks -> Nat]] /\ in \in [Blocks -> Nat]
      /\ \A b \in Blocks : in[b] \in 0 .. Len(job.blocks[b])
  BY <1>2, JobType DEF RateInv
<1>4. Blocks' = Blocks
  BY <1>2 DEF Blocks
<1>5. PICK m : m = Made(in, t)
  OBVIOUS
<1>6. /\ layno' = layno + 1 /\ passes' = [passes EXCEPT ![layno] = m]
      /\ in' = [b \in Blocks |-> Reach(job.blocks[b], in[b], t)]
  BY <1>2, <1>5 DEF MakeFinal
<1>7. layno' - 1 = layno /\ passes'[layno] = m
  BY <1>3, <1>6
<1>8. \A b \in Blocks : in'[b] - m[b] = in[b]
  <2> TAKE b \in Blocks
  <2>1. in'[b] = Reach(job.blocks[b], in[b], t) /\ m[b] = Reach(job.blocks[b], in[b], t) - in[b]
    BY <1>5, <1>6 DEF Made
  <2>2. /\ Reach(job.blocks[b], in[b], t) \in in[b] .. Len(job.blocks[b])
        /\ in[b] \in Nat /\ Len(job.blocks[b]) \in Nat
    BY <1>3, MadeType, JobType
  <2> QED
    BY <2>1, <2>2
<1>9. From' = in
  <2>1. From' = [b \in Blocks |-> in'[b] - m[b]]
    BY <1>4, <1>7 DEF From
  <2>2. in = [b \in Blocks |-> in[b]]
    BY <1>3
  <2> QED
    BY <1>8, <2>1, <2>2
<1>10. \A k \in 1 .. layno - 1 : passes'[k] = passes[k]
  <2>1. \A k \in 1 .. layno - 1 : k # layno /\ k \in Layers
    BY <1>3, JobType
  <2> QED
    BY <1>3, <1>6, <2>1
<1> QED
  BY <1>1, <1>5, <1>7, <1>9, <1>10

LEMMA FinishRate == RateInv /\ Finish => RateInv'
<1> SUFFICES ASSUME RateInv, Finish
             PROVE  RateInv'
  OBVIOUS
<1>1. PICK l, f, t : l = layno /\ f = in /\ t = GoodThresh
  OBVIOUS
<1>2. /\ pc = "search" /\ MakeFinal(t) /\ UNCHANGED <<job, search>>
  BY <1>1 DEF Finish
<1>3. /\ job \in Jobs /\ layno \in Layers /\ layno \in Nat
      /\ passes \in [Layers -> [Blocks -> Nat]] /\ in \in [Blocks -> Nat]
      /\ \A b \in Blocks : in[b] \in 0 .. Len(job.blocks[b])
  BY <1>2, JobType DEF RateInv
<1>4. Blocks' = Blocks /\ Layers' = Layers
  BY <1>2 DEF Blocks, Layers
<1>5. PICK m : m = Made(in, t)
  OBVIOUS
<1>6. pc' # "search"
  BY <1>2 DEF MakeFinal
<1>7. layno' - 1 = l /\ passes'[l] = m
  BY <1>1, <1>5, FinishFrom
<1>8. From' = f
  BY <1>1, FinishFrom
<1>9. WithinLimit'
  <2> SUFFICES ASSUME stable' > 0
               PROVE  Acceptable(layno - 1, From, passes[layno - 1])'
    BY DEF WithinLimit
  <2>1. stable > 0 /\ t = stable
    BY <1>1, <1>2 DEF search, GoodThresh
  <2>2. Acceptable(l, f, m)
    BY <1>1, <1>2, <1>5, <2>1 DEF RateInv, SearchInv
  <2>3. \A k \in 1 .. l - 1 : passes'[k] = passes[k]
    BY <1>1, FinishFrom
  <2>4. Acceptable(l, f, m)'
    BY <1>1, <1>2, <1>3, <2>2, <2>3, SameAcceptable
  <2> QED
    BY <1>7, <1>8, <2>4
<1>10. SearchInv'
  BY <1>6 DEF SearchInv
<1> QED
  BY <1>2, <1>4, <1>9, <1>10, MakeFinalTypes DEF RateInv, search

-------------------------------------------------------------------------------
(* The theorems. *)

LEMMA RateInvariant == Spec => []RateInv
<1>1. RateInv /\ UNCHANGED vars => RateInv'
  <2> SUFFICES ASSUME RateInv, UNCHANGED vars
               PROVE  RateInv'
    OBVIOUS
  <2>1. UNCHANGED <<job, pc, layno, passes, in, i, lo, hi, thresh, stable, lastOk>>
    BY DEF vars, search
  <2>2. Blocks' = Blocks /\ Layers' = Layers /\ Searched' = Searched /\ From' = From
    BY <2>1 DEF Blocks, Layers, Searched, From
  <2>3. (Acceptable(layno, in, passes[layno])' <=> Acceptable(layno, in, passes[layno]))
    BY <2>1, <2>2 DEF Acceptable, Bytes, Achieved, Total
  <2>4. (Acceptable(layno, in, Made(in, stable))' <=> Acceptable(layno, in, Made(in, stable)))
    BY <2>1, <2>2 DEF Acceptable, Bytes, Achieved, Total, Made
  <2>5. (Acceptable(layno - 1, From, passes[layno - 1])' <=> Acceptable(layno - 1, From, passes[layno - 1]))
    BY <2>1, <2>2 DEF Acceptable, Bytes, Achieved, Total
  <2>6. SearchInv' /\ WithinLimit'
    BY <2>1, <2>2, <2>3, <2>4, <2>5 DEF RateInv, SearchInv, WithinLimit
  <2> QED
    BY <2>1, <2>2, <2>6 DEF RateInv
<1>2. RateInv /\ [Next]_vars => RateInv'
  BY <1>1, UnlimitedRate, StartSearchRate, RoundRate, FinishRate DEF Next
<1> QED
  BY InitRate, <1>2, PTL DEF Spec

\* A layer for which the search found a good threshold is within its limit as it is
\* written, though the layer tried last was another one and not every allocation
\* was tried: whatever the passes, the limits and the length of the search
\* (rateallocate and makelayer of rate_alloc.go).
THEOREM LayersWithinLimit == Spec => []WithinLimit
<1>1. RateInv => WithinLimit
  BY DEF RateInv
<1> QED
  BY <1>1, RateInvariant, PTL

-------------------------------------------------------------------------------
(* The passes of a code-block, shared out among the layers.                   *)

\* The layers made so far share out the passes that are in layers: with the passes
\* of each layer, the number that the layers up to it have goes up from none to
\* Numpassesinlayers (makelayer, rate_alloc.go:46).
SharedOut ==
    \E upto \in [0 .. layno - 1 -> [Blocks -> Nat]] :
        /\ \A b \in Blocks : upto[0][b] = 0
        /\ \A k \in 1 .. layno - 1 : \A b \in Blocks :
              upto[k][b] = upto[k - 1][b] + passes[k][b]
        /\ upto[layno - 1] = in

\* A last layer without a limit leaves no pass out.
AllKept ==
    pc = "done" /\ job.limit[Len(job.limit)] = 0 =>
        \A b \in Blocks : in[b] = Len(job.blocks[b])

LEMMA InitShared == Init => SharedOut /\ AllKept
<1> SUFFICES ASSUME Init
             PROVE  SharedOut
  BY DEF Init, AllKept
<1>1. /\ layno = 1 /\ in \in [Blocks -> Nat]
      /\ \A b \in Blocks : in[b] = 0
  BY DEF Init
<1> DEFINE upto == [k \in 0 .. layno - 1 |-> in]
<1>2. /\ upto \in [0 .. layno - 1 -> [Blocks -> Nat]]
      /\ upto[0] = in /\ upto[layno - 1] = in /\ 1 .. layno - 1 = {}
  BY <1>1
<1> HIDE DEF upto
<1> QED
  BY <1>1, <1>2 DEF SharedOut

LEMMA MakeFinalShared ==
    ASSUME RateInv, pc # "done", SharedOut, NEW t, MakeFinal(t), UNCHANGED <<job, search>>
    PROVE  SharedOut'
<1>1. /\ job \in Jobs /\ layno \in Nat /\ layno \in Layers
      /\ passes \in [Layers -> [Blocks -> Nat]] /\ in \in [Blocks -> Nat]
      /\ \A b \in Blocks : in[b] \in 0 .. Len(job.blocks[b])
  BY JobType DEF RateInv
<1>2. Blocks' = Blocks /\ Layers' = Layers /\ Layers = 1 .. Len(job.limit)
  BY <1>1, JobType DEF Blocks, Layers
<1>3. /\ passes' = [passes EXCEPT ![layno] = Made(in, t)]
      /\ in' = [b \in Blocks |-> Reach(job.blocks[b], in[b], t)]
      /\ layno' = layno + 1
  BY DEF MakeFinal
<1>4. /\ \A b \in Blocks : Reach(job.blocks[b], in[b], t) \in in[b] .. Len(job.blocks[b])
      /\ \A b \in Blocks : in[b] \in Nat
  BY <1>1, MadeType, JobType
<1>5. in' \in [Blocks -> Nat] /\ \A b \in Blocks : in'[b] = in[b] + passes'[layno][b]
  <2>1. passes'[layno] = Made(in, t)
    BY <1>1, <1>3
  <2>2. \A b \in Blocks : Made(in, t)[b] = Reach(job.blocks[b], in[b], t) - in[b]
    BY DEF Made
  <2> QED
    BY <1>3, <1>4, <2>1, <2>2
<1>6. PICK upto \in [0 .. layno - 1 -> [Blocks -> Nat]] :
        /\ \A b \in Blocks : upto[0][b] = 0
        /\ \A k \in 1 .. layno - 1 : \A b \in Blocks :
              upto[k][b] = upto[k - 1][b] + passes[k][b]
        /\ upto[layno - 1] = in
  BY DEF SharedOut
<1> DEFINE more == [k \in 0 .. layno |-> IF k = layno THEN in' ELSE upto[k]]
<1>7. /\ more \in [0 .. layno -> [Blocks -> Nat]]
      /\ more[layno] = in'
      /\ \A k \in 0 .. layno - 1 : more[k] = upto[k]
  BY <1>1, <1>5, <1>6
<1>8. ASSUME NEW k \in 1 .. layno, NEW b \in Blocks
      PROVE  more[k][b] = more[k - 1][b] + passes'[k][b]
  <2>1. CASE k = layno
    <3>1. more[k] = in' /\ more[k - 1] = in
      BY <1>1, <1>6, <1>7, <2>1
    <3> QED
      BY <1>5, <2>1, <3>1
  <2>2. CASE k # layno
    <3>1. k \in 1 .. layno - 1 /\ k - 1 \in 0 .. layno - 1 /\ k \in 0 .. layno - 1 /\ k \in Layers
      BY <1>1, <1>2, <2>2
    <3>2. passes'[k] = passes[k]
      BY <1>1, <1>3, <2>2, <3>1
    <3> QED
      BY <1>6, <1>7, <3>1, <3>2
  <2> QED
    BY <2>1, <2>2
<1>9. more[0] = upto[0]
  <2>1. 0 \in 0 .. layno - 1
    BY <1>1, <1>2
  <2> QED
    BY <1>7, <2>1
<1>10. layno' - 1 = layno
  BY <1>1, <1>3
<1> HIDE DEF more
<1> QED
  BY <1>2, <1>6, <1>7, <1>8, <1>9, <1>10 DEF SharedOut

LEMMA StepShared == RateInv /\ SharedOut /\ AllKept /\ [Next]_vars => SharedOut' /\ AllKept'
<1> SUFFICES ASSUME RateInv, SharedOut, AllKept, [Next]_vars
             PROVE  SharedOut' /\ AllKept'
  OBVIOUS
<1>1. ASSUME UNCHANGED <<job, layno, in>>, pc' # "done",
             \A k \in 1 .. layno - 1 : passes'[k] = passes[k]
      PROVE  SharedOut' /\ AllKept'
  BY <1>1 DEF SharedOut, AllKept, Blocks
<1>2. CASE Unlimited
  <2>1. /\ pc # "done" /\ job \in Jobs /\ layno \in Layers
        /\ MakeFinal(-1) /\ UNCHANGED <<job, search>>
    BY <1>2 DEF Unlimited, RateInv
  <2>2. SharedOut'
    BY <2>1, MakeFinalShared
  <2>3. \A b \in Blocks : in'[b] = Len(job.blocks[b])
    BY <2>1 DEF MakeFinal, Reach
  <2> QED
    BY <2>1, <2>2, <2>3 DEF AllKept, Blocks
<1>3. CASE StartSearch
  BY <1>1, <1>3 DEF StartSearch
<1>4. CASE Round
  <2>1. /\ UNCHANGED <<job, layno, in>> /\ pc' # "done" /\ layno \in Layers /\ job \in Jobs
        /\ passes' = [passes EXCEPT ![layno] = Made(in, NewThresh)]
        /\ passes \in [Layers -> [Blocks -> Nat]]
    BY <1>4 DEF Round, RateInv
  <2>2. \A k \in 1 .. layno - 1 : passes'[k] = passes[k]
    <3>1. Layers = 1 .. Len(job.limit) /\ Len(job.limit) \in Nat /\ layno \in 1 .. Len(job.limit)
      BY <2>1, JobType
    <3>2. \A k \in 1 .. layno - 1 : k # layno /\ k \in Layers
      BY <3>1
    <3> QED
      BY <2>1, <3>2
  <2> QED
    BY <1>1, <2>1, <2>2
<1>5. CASE Finish
  <2>1. PICK t : t = GoodThresh
    OBVIOUS
  <2>2. pc # "done" /\ MakeFinal(t) /\ UNCHANGED <<job, search>> /\ job \in Jobs
    BY <1>5, <2>1 DEF Finish, RateInv
  <2>3. SharedOut'
    BY <2>2, MakeFinalShared
  <2>4. layno \in Layers /\ job.limit[layno] \in Nat
    BY <1>5, JobType DEF Finish, RateInv
  <2>5. AllKept'
    <3>1. pc' = "done" => layno = Len(job.limit)
      BY <2>2 DEF MakeFinal
    <3>2. job.limit[layno] # 0
      BY <1>5, <2>4 DEF Finish, RateInv, SearchInv
    <3> QED
      BY <2>2, <3>1, <3>2 DEF AllKept
  <2> QED
    BY <2>3, <2>5
<1>6. CASE UNCHANGED vars
  BY <1>6 DEF SharedOut, AllKept, Blocks, vars
<1> QED
  BY <1>2, <1>3, <1>4, <1>5, <1>6 DEF Next

\* Every pass that is in a layer is in one layer only, and none is between two: the
\* packets of the layers, one behind the other, have the passes of each code-block
\* in order; with a last layer that has no limit they have them all (makelayer,
\* rate_alloc.go:46).
THEOREM PassesSharedOut == Spec => [](SharedOut /\ AllKept)
BY InitShared, StepShared, RateInvariant, PTL DEF Spec

-------------------------------------------------------------------------------
(* What the search comes down to.  A lower threshold takes as many passes of   *)
(* each code-block or more, so that no threshold above the one that a layer is *)
(* written with gives any of them more.                                        *)

\* A pass that is worth its bytes at a threshold, where one that is left out is not, is
\* worth more than that one at every lower threshold.
LEMMA WorthMore ==
    ASSUME NEW s \in Nat, NEW t \in Int, NEW u \in Int, t <= u,
           NEW ra \in Int, NEW rb \in Int, NEW rp \in Int, ra <= rp,
           NEW da \in Int, NEW db \in Int, NEW dp \in Int,
           u * (rp - rb) <= s * (dp - db), ~(u * (ra - rb) <= s * (da - db))
    PROVE  t * (rp - ra) <= s * (dp - da) /\ (rp = ra => dp # da)
<1>1. PICK x \in Nat, y \in Int, w \in Int : x = rp - ra /\ y = ra - rb /\ w = u * x
  OBVIOUS
<1>2. u * (x + y) = u * x + u * y
  BY <1>1
<1>3. PICK d \in Int, e \in Int : d = dp - da /\ e = da - db
  OBVIOUS
<1>4. s * (d + e) = s * d + s * e
  BY <1>3
<1>5. rp - rb = x + y /\ dp - db = d + e
  BY <1>1, <1>3
<1>6. u * x < s * d
  <2>1. PICK ux \in Int, uy \in Int, sd \in Int, se \in Int :
           ux = u * x /\ uy = u * y /\ sd = s * d /\ se = s * e
    BY <1>1, <1>3
  <2>2. ux + uy <= sd + se /\ ~(uy <= se)
    BY <1>1, <1>2, <1>3, <1>4, <1>5, <2>1
  <2> QED
    BY <2>1, <2>2
<1>7. t * x <= u * x
  BY <1>1
<1>8. x = 0 => d # 0
  <2>1. u * 0 = 0 /\ s * 0 = 0
    OBVIOUS
  <2> QED
    BY <1>6, <2>1
<1>9. t * x <= s * d
  <2>1. PICK tx \in Int, ux \in Int, sd \in Int : tx = t * x /\ ux = u * x /\ sd = s * d
    BY <1>1, <1>3
  <2> QED
    BY <1>6, <1>7, <2>1
<1>10. rp = ra => dp # da
  BY <1>1, <1>3, <1>8
<1> QED
  BY <1>1, <1>3, <1>9, <1>10

\* At a lower threshold makelayer takes as many passes of a code-block, or more.
LEMMA LowerReach ==
    ASSUME NEW cblk, Len(cblk) \in Nat, NEW from \in 0 .. Len(cblk),
           \A p \in 1 .. Len(cblk) : cblk[p].rate \in Nat /\ cblk[p].dist \in Int,
           \A p, q \in 1 .. Len(cblk) : p <= q => cblk[p].rate <= cblk[q].rate,
           NEW t \in Int, NEW u \in Int, t <= u
    PROVE  Reach(cblk, from, u) <= Reach(cblk, from, t)
<1> DEFINE T == Len(cblk)
           R(k) == At(cblk, k).rate
           D(k) == At(cblk, k).dist
<1>1. PICK g \in [from .. T -> Int] :
         /\ \A p \in from .. T :
               /\ g[p] \in from .. p
               /\ g[p] = IF p > from /\ ~Worth(cblk, g[p - 1], p, t) THEN g[p - 1] ELSE p
         /\ Reach(cblk, from, t) = IF t < 0 THEN T ELSE g[T]
  BY ReachIs
<1>2. PICK h \in [from .. T -> Int] :
         /\ \A p \in from .. T :
               /\ h[p] \in from .. p
               /\ h[p] = IF p > from /\ ~Worth(cblk, h[p - 1], p, u) THEN h[p - 1] ELSE p
         /\ Reach(cblk, from, u) = IF u < 0 THEN T ELSE h[T]
  BY ReachIs
<1>3. Scale \in Nat
  BY RateAssumption
<1>4. \A k \in 0 .. T : R(k) \in Nat /\ D(k) \in Int
  BY DEF At
<1>5. \A j, k \in 0 .. T : j <= k => R(j) <= R(k)
  BY DEF At
<1>6. \A n, p, v : Worth(cblk, n, p, v) <=> IF R(p) - R(n) = 0 THEN D(p) - D(n) # 0
                                            ELSE v * (R(p) - R(n)) <= Scale * (D(p) - D(n))
  BY DEF Worth, Rate, Dist
<1>r. PICK rr \in [0 .. T -> Nat] :
         /\ \A k \in 0 .. T : rr[k] = R(k)
         /\ \A j, k \in 0 .. T : j <= k => rr[j] <= rr[k]
  <2> DEFINE f == [k \in 0 .. T |-> R(k)]
  <2>1. f \in [0 .. T -> Nat]
    BY <1>4
  <2>2. \A j, k \in 0 .. T : j <= k => f[j] <= f[k]
    <3> TAKE j, k \in 0 .. T
    <3>1. f[j] = R(j) /\ f[k] = R(k)
      OBVIOUS
    <3> HIDE DEF R
    <3> QED
      BY <1>5, <3>1
  <2>3. \A k \in 0 .. T : f[k] = R(k)
    OBVIOUS
  <2> HIDE DEF f
  <2> QED
    BY <2>1, <2>2, <2>3
<1>d. PICK dd \in [0 .. T -> Int] : \A k \in 0 .. T : dd[k] = D(k)
  <2>1. [k \in 0 .. T |-> D(k)] \in [0 .. T -> Int]
    BY <1>4
  <2> QED
    BY <2>1
<1> HIDE DEF R, D
<1> DEFINE Over(a, b) == b < a /\ rr[b] < rr[a] /\ ~(u * (rr[a] - rr[b]) <= Scale * (dd[a] - dd[b]))
           S == {p \in from .. T : g[p] = h[p] \/ Over(g[p], h[p])}
<1>7. from <= T => from \in S
  BY <1>1, <1>2
<1>8. ASSUME NEW p \in from .. T - 1, p \in S PROVE p + 1 \in S
  <2>1. PICK q \in from .. T : q = p + 1 /\ q > from /\ q - 1 = p /\ p < q
    BY <1>8
  <2>2. PICK a \in from .. p, b \in from .. p : a = g[p] /\ b = h[p]
    BY <1>1, <1>2
  <2>3. /\ g[q] = IF Worth(cblk, a, q, t) THEN q ELSE a
        /\ h[q] = IF Worth(cblk, b, q, u) THEN q ELSE b
    BY <1>1, <1>2, <2>1, <2>2
  <2>4. a \in 0 .. T /\ b \in 0 .. T /\ q \in 0 .. T /\ a < q /\ b < q /\ a <= q /\ b <= q
    BY <2>1
  <2>5. PICK ra \in Nat, rb \in Nat, rq \in Nat, da \in Int, db \in Int, dq \in Int :
           /\ ra = rr[a] /\ rb = rr[b] /\ rq = rr[q] /\ da = dd[a] /\ db = dd[b] /\ dq = dd[q]
           /\ ra <= rq /\ rb <= rq
    <3>1. /\ rr[a] \in Nat /\ rr[b] \in Nat /\ rr[q] \in Nat
          /\ dd[a] \in Int /\ dd[b] \in Int /\ dd[q] \in Int
      BY <2>4
    <3>2. rr[a] <= rr[q] /\ rr[b] <= rr[q]
      <4> QED
        BY <1>r, <2>4
    <3> QED
      BY <3>1, <3>2
  <2>6. /\ Worth(cblk, a, q, t) <=> IF rq - ra = 0 THEN dq - da # 0
                                    ELSE t * (rq - ra) <= Scale * (dq - da)
        /\ Worth(cblk, b, q, u) <=> IF rq - rb = 0 THEN dq - db # 0
                                    ELSE u * (rq - rb) <= Scale * (dq - db)
    <3>1. /\ ra = R(a) /\ rb = R(b) /\ rq = R(q) /\ da = D(a) /\ db = D(b) /\ dq = D(q)
      BY <1>r, <1>d, <2>4, <2>5
    <3> QED
      BY <1>6, <3>1
  <2>7. a = b \/ (b < a /\ rb < ra /\ ~(u * (ra - rb) <= Scale * (da - db)))
    BY <1>8, <2>2, <2>5
  \* What is worth its bytes at the higher threshold is at the lower one.
  <2>8. Worth(cblk, b, q, u) => Worth(cblk, a, q, t)
    <3> SUFFICES ASSUME Worth(cblk, b, q, u) PROVE Worth(cblk, a, q, t)
      OBVIOUS
    <3>1. CASE a = b
      <4>1. t * (rq - ra) <= u * (rq - ra)
        <5>1. PICK x \in Nat : x = rq - ra
          BY <2>5
        <5>2. t * x <= u * x
          OBVIOUS
        <5> QED
          BY <5>1, <5>2
      <4>2. PICK v \in Int, w \in Int, z \in Int :
               v = t * (rq - ra) /\ w = u * (rq - ra) /\ z = Scale * (dq - da)
        BY <1>3
      <4>3. ra = rb /\ da = db
        BY <2>5, <3>1
      <4>4. CASE rq - ra = 0
        BY <2>6, <4>3, <4>4
      <4>5. CASE rq - ra # 0
        <5>1. w <= z
          BY <2>6, <4>2, <4>3, <4>5
        <5>2. v <= z
          BY <4>1, <4>2, <5>1
        <5> QED
          BY <2>6, <4>2, <4>5, <5>2
      <4> QED
        BY <4>4, <4>5
    <3>2. CASE b < a /\ rb < ra /\ ~(u * (ra - rb) <= Scale * (da - db))
      <4>1. rq - rb # 0
        BY <2>5, <3>2
      <4>2. u * (rq - rb) <= Scale * (dq - db)
        BY <2>6, <4>1
      <4>3. t * (rq - ra) <= Scale * (dq - da) /\ (rq = ra => dq # da)
        <5>1. /\ Scale \in Nat /\ t \in Int /\ u \in Int /\ t <= u
              /\ ra \in Int /\ rb \in Int /\ rq \in Int /\ ra <= rq
              /\ da \in Int /\ db \in Int /\ dq \in Int
          BY <1>3, <2>5
        <5>2. ~(u * (ra - rb) <= Scale * (da - db))
          BY <3>2
        <5> QED
          BY <4>2, <5>1, <5>2, WorthMore, Zenon
      <4>4. (rq - ra = 0 => rq = ra) /\ (dq - da = 0 => dq = da)
        OBVIOUS
      <4> QED
        BY <2>6, <4>3, <4>4
    <3> QED
      BY <2>7, <3>1, <3>2
  \* What only the lower one takes is not worth its bytes at the higher one.
  <2>9. ASSUME Worth(cblk, a, q, t), ~Worth(cblk, b, q, u)
        PROVE  rb < rq /\ ~(u * (rq - rb) <= Scale * (dq - db))
    <3>1. rq - rb # 0
      <4>1. CASE a = b
        <5>1. ra = rb /\ da = db
          BY <2>5, <4>1
        <5> QED
          BY <2>6, <2>9, <5>1
      <4>2. CASE rb < ra
        BY <2>5, <4>2
      <4> QED
        BY <2>7, <4>1, <4>2
    <3>2. ~(u * (rq - rb) <= Scale * (dq - db))
      BY <2>6, <2>9, <3>1
    <3>3. rb < rq
      BY <2>5, <3>1
    <3> QED
      BY <3>2, <3>3
  <2>10. g[q] = h[q] \/ Over(g[q], h[q])
    <3>1. CASE Worth(cblk, b, q, u)
      BY <2>3, <2>8, <3>1
    <3>2. CASE ~Worth(cblk, b, q, u) /\ Worth(cblk, a, q, t)
      BY <2>3, <2>4, <2>5, <2>9, <3>2
    <3>3. CASE ~Worth(cblk, b, q, u) /\ ~Worth(cblk, a, q, t)
      BY <1>8, <2>2, <2>3, <3>3
    <3> QED
      BY <3>1, <3>2, <3>3
  <2> QED
    BY <2>1, <2>10
<1>9a. from \in Int /\ T \in Int /\ from <= T
  OBVIOUS
<1>9. T \in S
  <2>1. \A p \in from .. T - 1 : p \in S => p + 1 \in S
    BY <1>8, Zenon
  <2>2. T \in from .. T
    BY <1>9a
  <2> HIDE DEF S, T
  <2>3. from .. T \subseteq S
    BY <1>7, <1>9a, <2>1, IntervalInduction
  <2> QED
    BY <2>2, <2>3
<1>10. h[T] <= g[T] /\ h[T] <= T /\ T \in Int
  <2>1. h[T] \in from .. T /\ g[T] \in from .. T
    BY <1>1, <1>2
  <2> QED
    BY <1>9, <2>1
<1>11. t < 0 \/ ~(u < 0)
  OBVIOUS
<1> QED
  BY <1>1, <1>2, <1>10, <1>11

\* A finite set of numbers that is not empty has a least and a greatest.
LEMMA FiniteBounds ==
    ASSUME NEW S, IsFiniteSet(S), S # {}, S \subseteq Int
    PROVE  Min(S) \in S /\ Max(S) \in S
<1>1. PICK n \in Nat : ExistsSurjection(1 .. n, S)
  BY FS_NatSurjection
<1>2. PICK f \in [1 .. n -> S] : \A y \in S : \E k \in 1 .. n : f[k] = y
  BY <1>1 DEF ExistsSurjection, Surjection
<1>3. n \in 1 .. n /\ 1 \in Int /\ n \in Int
  <2>1. PICK y \in S : TRUE
    OBVIOUS
  <2>2. PICK k \in 1 .. n : f[k] = y
    BY <1>2, <2>1
  <2> QED
    BY <2>2
<1> DEFINE Q == {k \in 1 .. n : \E l, m \in 1 .. k : \A j \in 1 .. k : f[l] <= f[j] /\ f[j] <= f[m]}
<1>4. 1 \in Q
  <2>1. 1 \in 1 .. n /\ f[1] \in Int /\ 1 \in 1 .. 1
    <3>1. 1 \in 1 .. n /\ 1 \in 1 .. 1
      BY <1>3
    <3>2. f[1] \in S
      BY <3>1
    <3> QED
      BY <3>1, <3>2
  <2>2. \A j \in 1 .. 1 : f[1] <= f[j] /\ f[j] <= f[1]
    BY <2>1
  <2>3. \E l, m \in 1 .. 1 : \A j \in 1 .. 1 : f[l] <= f[j] /\ f[j] <= f[m]
    BY <2>1, <2>2, Zenon
  <2> QED
    BY <2>1, <2>3, Zenon
<1>5. ASSUME NEW k \in 1 .. n - 1, k \in Q PROVE k + 1 \in Q
  <2>1. PICK l \in 1 .. k, m \in 1 .. k : \A j \in 1 .. k : f[l] <= f[j] /\ f[j] <= f[m]
    BY <1>5
  <2>2. /\ k + 1 \in 1 .. n /\ k + 1 \in 1 .. k + 1
        /\ 1 .. k \subseteq 1 .. k + 1 /\ 1 .. k + 1 \subseteq 1 .. n
        /\ \A j \in 1 .. k + 1 : j \in 1 .. k \/ j = k + 1
    OBVIOUS
  <2>3. \A j \in 1 .. k + 1 : f[j] \in Int
    BY <1>2, <2>2
  <2>4. PICK ll \in 1 .. k + 1 : \A j \in 1 .. k + 1 : f[ll] <= f[j]
    <3>1. CASE f[l] <= f[k + 1]
      BY <2>1, <2>2, <3>1
    <3>2. CASE ~(f[l] <= f[k + 1])
      <4>1. \A j \in 1 .. k + 1 : f[k + 1] <= f[j]
        BY <2>1, <2>2, <2>3, <3>2
      <4> QED
        BY <2>2, <4>1
    <3> QED
      BY <3>1, <3>2
  <2>5. PICK mm \in 1 .. k + 1 : \A j \in 1 .. k + 1 : f[j] <= f[mm]
    <3>1. CASE f[k + 1] <= f[m]
      BY <2>1, <2>2, <3>1
    <3>2. CASE ~(f[k + 1] <= f[m])
      <4>1. \A j \in 1 .. k + 1 : f[j] <= f[k + 1]
        BY <2>1, <2>2, <2>3, <3>2
      <4> QED
        BY <2>2, <4>1
    <3> QED
      BY <3>1, <3>2
  <2> QED
    BY <2>2, <2>4, <2>5
<1>6. n \in Q
  <2> HIDE DEF Q
  <2>1. 1 .. n \subseteq Q
    BY <1>3, <1>4, <1>5, IntervalInduction
  <2> QED
    BY <1>3, <2>1
<1>7. PICK l \in 1 .. n, m \in 1 .. n : \A j \in 1 .. n : f[l] <= f[j] /\ f[j] <= f[m]
  BY <1>6
<1>8. \E x \in S : \A y \in S : x <= y
  BY <1>2, <1>7
<1>9. \E x \in S : \A y \in S : x >= y
  <2>1. f[m] \in S /\ \A y \in S : f[m] >= y
    BY <1>2, <1>7
  <2> QED
    BY <2>1
<1> QED
  BY <1>8, <1>9 DEF Min, Max

\* What the passes of a job are.
LEMMA PassType ==
    ASSUME job \in Jobs, NEW b \in Blocks
    PROVE  /\ DOMAIN job.blocks[b] = 1 .. Len(job.blocks[b]) /\ Len(job.blocks[b]) \in Nat
           /\ \A p \in 1 .. Len(job.blocks[b]) :
                 job.blocks[b][p].rate \in Nat /\ job.blocks[b][p].dist \in Int
           /\ \A p, q \in 1 .. Len(job.blocks[b]) :
                 p <= q => job.blocks[b][p].rate <= job.blocks[b][q].rate
<1> DEFINE P == [rate : Nat, dist : Int]
<1>1. /\ job.blocks \in Seq(Seq(P))
      /\ \A c \in DOMAIN job.blocks : \A p, q \in DOMAIN job.blocks[c] :
            p <= q => job.blocks[c][p].rate <= job.blocks[c][q].rate
  BY RateAssumption
<1>2. job.blocks[b] \in Seq(P)
  <2> HIDE DEF P
  <2> QED
    BY <1>1 DEF Blocks
<1>3. DOMAIN job.blocks[b] = 1 .. Len(job.blocks[b]) /\ Len(job.blocks[b]) \in Nat
  <2> HIDE DEF P
  <2> QED
    BY <1>2
<1>4. \A p \in 1 .. Len(job.blocks[b]) : job.blocks[b][p] \in P
  <2> HIDE DEF P
  <2> QED
    BY <1>2
<1> QED
  BY <1>1, <1>3, <1>4 DEF Blocks

LEMMA SlopesType ==
    ASSUME job \in Jobs
    PROVE  Slopes \subseteq Int /\ Slopes # {} /\ IsFiniteSet(Slopes)
<1> DEFINE Costly(b) == {q \in DOMAIN job.blocks[b] : Rate(job.blocks[b], q - 1, q) > 0}
           Slope(b, p) == (Scale * Dist(job.blocks[b], p - 1, p)) \div Rate(job.blocks[b], p - 1, p)
           Of(b) == {Slope(b, p) : p \in Costly(b)}
<1>1. Slopes = UNION {Of(b) : b \in Blocks}
  BY DEF Slopes
<1>2. ASSUME NEW b \in Blocks
      PROVE  \A p \in 0 .. Len(job.blocks[b]) :
                At(job.blocks[b], p).rate \in Nat /\ At(job.blocks[b], p).dist \in Int
  BY PassType DEF At
<1>3. ASSUME NEW b \in Blocks, NEW p \in Costly(b)
      PROVE  Slope(b, p) \in Int
  <2>1. /\ p \in 1 .. Len(job.blocks[b])
        /\ p - 1 \in 0 .. Len(job.blocks[b]) /\ p \in 0 .. Len(job.blocks[b])
    <3>1. Len(job.blocks[b]) \in Nat /\ p \in DOMAIN job.blocks[b] /\ DOMAIN job.blocks[b] = 1 .. Len(job.blocks[b])
      BY PassType
    <3> HIDE DEF Costly
    <3> QED
      BY <3>1
  <2>2. PICK r \in Int, d \in Int :
           r = Rate(job.blocks[b], p - 1, p) /\ d = Dist(job.blocks[b], p - 1, p) /\ r > 0
    BY <1>2, <2>1 DEF Rate, Dist
  <2>3. PICK s \in Int : s = Scale * d
    BY RateAssumption
  <2>4. s \div r \in Int
    BY <2>2
  <2> QED
    BY <2>2, <2>3, <2>4
<1>4. ASSUME NEW b \in Blocks
      PROVE  IsFiniteSet(Of(b))
  <2>1. IsFiniteSet(Costly(b))
    <3>1. DOMAIN job.blocks[b] = 1 .. Len(job.blocks[b]) /\ Len(job.blocks[b]) \in Int
      BY PassType
    <3>2. Costly(b) \subseteq 1 .. Len(job.blocks[b])
      BY <3>1, Zenon
    <3>3. IsFiniteSet(1 .. Len(job.blocks[b]))
      <4>1. PICK n \in Int : n = Len(job.blocks[b])
        BY <3>1
      <4>2. 1 \in Int /\ IsFiniteSet(1 .. n)
        BY FS_Interval
      <4> QED
        BY <4>1, <4>2
    <3> QED
      BY <3>2, <3>3, FS_Subset, Zenon
  <2> DEFINE C == Costly(b)
             O == Of(b)
             f == [p \in C |-> Slope(b, p)]
  <2>2. f \in Surjection(C, O)
    <3> HIDE DEF Costly, Slope
    <3>1. f \in [C -> O] /\ \A y \in O : \E p \in C : y = Slope(b, p)
      BY Zenon
    <3> QED
      BY <3>1 DEF Surjection
  <2> HIDE DEF f, C, O
  <2>3. IsFiniteSet(C)
    BY <2>1 DEF C
  <2>4. IsFiniteSet(O)
    BY <2>2, <2>3, FS_Surjection
  <2> QED
    BY <2>4 DEF O
<1>5. IsFiniteSet({Of(b) : b \in Blocks})
  <2> HIDE DEF Of
  <2> DEFINE O == {Of(b) : b \in Blocks}
             f == [b \in Blocks |-> Of(b)]
  <2>1. f \in Surjection(Blocks, O)
    BY DEF Surjection
  <2>2. IsFiniteSet(Blocks)
    <3>1. Len(job.blocks) \in Nat /\ Blocks = 1 .. Len(job.blocks)
      BY RateAssumption DEF Blocks
    <3> QED
      BY <3>1, FS_Interval
  <2> HIDE DEF f, O
  <2>3. IsFiniteSet(O)
    BY <2>1, <2>2, FS_Surjection
  <2> QED
    BY <2>3 DEF O
<1>6. IsFiniteSet(Slopes)
  <2> HIDE DEF Of
  <2> QED
    BY <1>1, <1>4, <1>5, FS_UNION
<1>7. Slopes # {}
  <2> SUFFICES ASSUME \A b \in Blocks : Costly(b) = {}
               PROVE  FALSE
    BY <1>1
  <2>1. PICK b \in Blocks : \E p \in DOMAIN job.blocks[b] : job.blocks[b][p].rate > 0
    BY RateAssumption DEF Blocks
  <2> HIDE DEF Slope, Of
  <2>2. PICK c, T : c = job.blocks[b] /\ T = Len(c) /\ T \in Nat /\ DOMAIN c = 1 .. T
    BY PassType
  <2> DEFINE Z == {p \in 0 .. T : At(c, p).rate = 0}
  <2>3. 0 \in Z
    BY <2>2 DEF At
  <2>4. ASSUME NEW p \in 0 .. T - 1, p \in Z PROVE p + 1 \in Z
    <3>1. p + 1 \in 1 .. T /\ (p + 1) - 1 = p /\ p + 1 \in 0 .. T
      BY <2>2
    <3>2. ~(Rate(c, (p + 1) - 1, p + 1) > 0)
      <4>1. p + 1 \in DOMAIN job.blocks[b] /\ p + 1 \notin Costly(b)
        BY <2>2, <3>1
      <4> QED
        BY <2>2, <4>1
    <3>3. At(c, p + 1).rate \in Nat
      BY <1>2, <2>2, <3>1
    <3>4. At(c, p).rate = 0
      BY <2>4
    <3> QED
      BY <3>1, <3>2, <3>3, <3>4 DEF Rate
  <2>5. 0 .. T \subseteq Z
    <3>1. 0 \in Int /\ T \in Int
      BY <2>2
    <3> HIDE DEF Z
    <3> QED
      BY <2>3, <2>4, <3>1, IntervalInduction
  <2>6. PICK p \in 1 .. T : c[p].rate > 0
    BY <2>1, <2>2
  <2>7. At(c, p).rate = 0
    BY <2>5
  <2> QED
    BY <2>6, <2>7 DEF At
<1> QED
  BY <1>1, <1>3, <1>6, <1>7

\* The search starts between two numbers.
LEMMA EndsType == ASSUME job \in Jobs PROVE Least \in Int /\ Greatest \in Int
<1>1. Min(Slopes) \in Int /\ Max(Slopes) \in Int
  BY SlopesType, FiniteBounds
<1> QED
  BY <1>1 DEF Least, Greatest

\* The search is between a threshold that takes too much, unless it is the least
\* slope, and the last good one; the layer is written with that one.
BracketInv ==
    /\ lo \in Int /\ hi \in Int /\ thresh \in Int /\ stable \in Int
    /\ pc = "search" =>
          /\ lo = Least \/ ~Acceptable(layno, in, Made(in, lo))
          /\ stable # 0 => stable = hi
          /\ i # 0 /\ job.strategy = "rate" /\ ~lastOk => ~Acceptable(layno, in, passes[layno])
    /\ Searched =>
          /\ \A b \in Blocks : From[b] \in 0 .. Len(job.blocks[b])
          /\ passes[layno - 1] = Made(From, GoodThresh)
          /\ lo = Least \/ ~Acceptable(layno - 1, From, Made(From, lo))
          /\ stable # 0 => stable = hi

\* The layer made last has the most passes that fit, as far as the search tells: its
\* threshold is one end of what the search has come down to, no threshold above it
\* gives any code-block more, and the other end is the least slope or takes too much
\* (rateallocate and makelayer of rate_alloc.go).
Bracketed ==
    Searched =>
        /\ \A t \in Int : GoodThresh <= t =>
              \A b \in Blocks : Made(From, t)[b] <= passes[layno - 1][b]
        /\ lo = Least \/ ~Acceptable(layno - 1, From, Made(From, lo))
        /\ stable # 0 => stable = hi

\* What a round does not call good does not fit.
LEMMA BadIsRejected ==
    ASSUME BracketInv, pc = "search", NEW made, ~Good(made)
    PROVE  ~Acceptable(layno, in, made)
BY DEF BracketInv, Good, Unchanged

LEMMA RoundBracket == RateInv /\ BracketInv /\ Round => BracketInv'
<1> SUFFICES ASSUME RateInv, BracketInv, Round
             PROVE  BracketInv'
  OBVIOUS
<1>1. PICK l, f, new : l = layno /\ f = in /\ new = NewThresh
  OBVIOUS
<1>2. PICK m : m = Made(in, new)
  OBVIOUS
<1>3. /\ pc = "search" /\ UNCHANGED <<job, pc, layno, in>>
      /\ passes' = [passes EXCEPT ![layno] = m]
      /\ lastOk' = (job.strategy = "rate" /\ Good(m))
      /\ IF Good(m) THEN hi' = new /\ stable' = new /\ lo' = lo
         ELSE lo' = new /\ UNCHANGED <<hi, stable>>
      /\ thresh' = new
  BY <1>1, <1>2 DEF Round
<1>4. /\ l \in Nat /\ passes'[l] = m
      /\ \A k \in 1 .. l - 1 : passes'[k] = passes[k]
  <2>1. /\ layno \in Layers /\ passes \in [Layers -> [Blocks -> Nat]]
        /\ Layers = 1 .. Len(job.limit) /\ Len(job.limit) \in Nat /\ layno \in Nat
    <3>1. job \in Jobs /\ layno \in Layers /\ passes \in [Layers -> [Blocks -> Nat]]
      BY <1>3 DEF RateInv
    <3>2. Layers = 1 .. Len(job.limit) /\ Len(job.limit) \in Nat
      BY <3>1, JobType
    <3> QED
      BY <3>1, <3>2
  <2>2. \A k \in 1 .. layno - 1 : k # layno /\ k \in Layers
    BY <2>1
  <2>3. passes'[layno] = m /\ \A k \in 1 .. layno - 1 : passes'[k] = passes[k]
    BY <1>3, <2>1, <2>2
  <2> QED
    BY <1>1, <2>1, <2>3
<1>5. \A n : Acceptable(l, f, n)' <=> Acceptable(l, f, n)
  BY <1>3, <1>4, SameAcceptable
<1>6. new \in Int
  BY <1>1 DEF NewThresh, BracketInv
<1>7. lo' \in Int /\ hi' \in Int /\ thresh' \in Int /\ stable' \in Int
  BY <1>3, <1>6 DEF BracketInv
<1>8. ~Good(m) => ~Acceptable(l, f, m)
  BY <1>1, <1>3, BadIsRejected
<1>9. lo' = Least' \/ ~Acceptable(layno, in, Made(in, lo))'
  <2>1. PICK old : old = Made(in, lo)
    OBVIOUS
  <2>2. Least' = Least /\ layno' = l /\ in' = f
    BY <1>1, <1>3 DEF Least, Slopes, Blocks
  <2>3. CASE Good(m)
    <3>1. Made(in, lo)' = old /\ lo' = lo
      BY <1>3, <2>1, <2>3 DEF Made, Blocks
    <3>2. lo = Least \/ ~Acceptable(l, f, old)
      BY <1>1, <1>3, <2>1 DEF BracketInv
    <3>3. CASE lo = Least
      BY <2>2, <3>1, <3>3
    <3>4. CASE ~Acceptable(l, f, old)
      <4>1. ~Acceptable(l, f, old)'
        BY <1>5, <3>4
      <4> QED
        BY <2>2, <3>1, <4>1
    <3> QED
      BY <3>2, <3>3, <3>4
  <2>4. CASE ~Good(m)
    <3>1. Made(in, lo)' = m
      BY <1>2, <1>3, <2>4 DEF Made, Blocks
    <3>2. ~Acceptable(l, f, m)'
      BY <1>5, <1>8, <2>4
    <3> QED
      BY <2>2, <3>1, <3>2
  <2> QED
    BY <2>3, <2>4
<1>10. stable' # 0 => stable' = hi'
  BY <1>3 DEF BracketInv
<1>11. ASSUME job'.strategy = "rate", ~lastOk'
       PROVE  ~Acceptable(layno, in, passes[layno])'
  <2>1. ~Good(m)
    BY <1>3, <1>11
  <2>2. ~Acceptable(l, f, m)'
    BY <1>5, <1>8, <2>1
  <2>3. layno' = l /\ in' = f /\ passes'[layno'] = m
    BY <1>1, <1>3, <1>4
  <2> QED
    BY <2>2, <2>3
<1>12. ~Searched'
  BY <1>3 DEF Searched
<1> QED
  BY <1>7, <1>9, <1>10, <1>11, <1>12 DEF BracketInv

LEMMA FinishBracket == RateInv /\ BracketInv /\ Finish => BracketInv'
<1> SUFFICES ASSUME RateInv, BracketInv, Finish
             PROVE  BracketInv'
  OBVIOUS
<1>1. PICK l, f, t : l = layno /\ f = in /\ t = GoodThresh
  OBVIOUS
<1>2. /\ pc = "search" /\ pc' # "search" /\ UNCHANGED <<job, lo, hi, thresh, stable>>
      /\ l \in Nat /\ \A b \in Blocks : f[b] \in 0 .. Len(job.blocks[b])
  BY <1>1, JobType DEF Finish, MakeFinal, search, RateInv
<1>3. layno' - 1 = l /\ From' = f /\ passes'[l] = Made(f, t)
  BY <1>1, FinishFrom
<1>4. Blocks' = Blocks /\ Least' = Least /\ GoodThresh' = t
  BY <1>1, <1>2 DEF Blocks, Least, Slopes, GoodThresh
<1>5. passes'[layno' - 1] = Made(From, GoodThresh)'
  <2>1. Made(From, GoodThresh)' = Made(f, t)
    BY <1>2, <1>3, <1>4 DEF Made
  <2> QED
    BY <1>3, <2>1
<1>6. lo' = Least' \/ ~Acceptable(layno - 1, From, Made(From, lo))'
  <2>1. PICK m : m = Made(f, lo)
    OBVIOUS
  <2>2. lo = Least \/ ~Acceptable(l, f, m)
    BY <1>1, <1>2, <2>1 DEF BracketInv
  <2>3. Acceptable(l, f, m)' <=> Acceptable(l, f, m)
    BY <1>1, <1>2, FinishFrom, SameAcceptable
  <2>4. Made(From, lo)' = m
    BY <1>2, <1>3, <1>4, <2>1 DEF Made
  <2>5. CASE lo = Least
    BY <1>2, <1>4, <2>5
  <2>6. CASE ~Acceptable(l, f, m)
    <3>1. ~Acceptable(l, f, m)'
      BY <2>3, <2>6
    <3> QED
      BY <1>3, <2>4, <3>1
  <2> QED
    BY <2>2, <2>5, <2>6
<1>7. \A b \in Blocks' : From'[b] \in 0 .. Len(job'.blocks[b])
  BY <1>2, <1>3, <1>4
<1> QED
  BY <1>2, <1>5, <1>6, <1>7 DEF BracketInv

LEMMA StepBracket == RateInv /\ BracketInv /\ [Next]_vars => BracketInv'
<1> SUFFICES ASSUME RateInv, BracketInv, [Next]_vars
             PROVE  BracketInv'
  OBVIOUS
<1>1. CASE Unlimited
  <2>1. /\ layno' = layno + 1 /\ layno \in Nat /\ job.limit[layno] = 0 /\ pc' # "search"
        /\ UNCHANGED <<job, lo, hi, thresh, stable>>
    BY <1>1, JobType DEF Unlimited, MakeFinal, search, RateInv
  <2>2. ~Searched'
    BY <2>1 DEF Searched
  <2> QED
    BY <2>1, <2>2 DEF BracketInv
<1>2. CASE StartSearch
  <2>1. /\ job \in Jobs /\ UNCHANGED job /\ pc' = "search"
        /\ i' = 0 /\ lo' = Least /\ hi' = Greatest /\ thresh' = 0 /\ stable' = 0
    BY <1>2 DEF StartSearch, RateInv
  <2>2. lo' = Least'
    BY <2>1 DEF Least, Slopes, Blocks
  <2>3. lo' \in Int /\ hi' \in Int /\ thresh' \in Int /\ stable' \in Int
    BY <2>1, EndsType
  <2>4. ~Searched'
    BY <2>1 DEF Searched
  <2> QED
    BY <2>1, <2>2, <2>3, <2>4 DEF BracketInv
<1>3. CASE UNCHANGED vars
  <2>1. UNCHANGED <<job, pc, layno, passes, in, i, lo, hi, thresh, stable, lastOk>>
    BY <1>3 DEF vars, search
  <2>2. /\ Searched' = Searched /\ From' = From /\ Least' = Least /\ GoodThresh' = GoodThresh
        /\ Blocks' = Blocks
    BY <2>1 DEF Searched, From, Least, Slopes, Blocks, GoodThresh
  <2>3. (lo = Least \/ ~Acceptable(layno, in, Made(in, lo)))'
           <=> (lo = Least \/ ~Acceptable(layno, in, Made(in, lo)))
    BY <2>1, <2>2 DEF Acceptable, Bytes, Achieved, Total, Made
  <2>4. (lo = Least \/ ~Acceptable(layno - 1, From, Made(From, lo)))'
           <=> (lo = Least \/ ~Acceptable(layno - 1, From, Made(From, lo)))
    BY <2>1, <2>2 DEF Acceptable, Bytes, Achieved, Total, Made
  <2>5. Acceptable(layno, in, passes[layno])' <=> Acceptable(layno, in, passes[layno])
    BY <2>1, <2>2 DEF Acceptable, Bytes, Achieved, Total
  <2>6. Made(From, GoodThresh)' = Made(From, GoodThresh)
    BY <2>1, <2>2 DEF Made
  <2> QED
    BY <2>1, <2>2, <2>3, <2>4, <2>5, <2>6 DEF BracketInv
<1> QED
  BY <1>1, <1>2, <1>3, RoundBracket, FinishBracket DEF Next

\* A layer is written with an end of what its search came down to (rateallocate of
\* rate_alloc.go): whatever the passes, the limits and the length of the search.
THEOREM SearchBracketed == Spec => []Bracketed
<1>1. Init => BracketInv
  BY DEF Init, BracketInv, Searched
<1>2. RateInv /\ BracketInv => Bracketed
  <2> SUFFICES ASSUME RateInv, BracketInv, Searched,
                      NEW t \in Int, GoodThresh <= t, NEW b \in Blocks
               PROVE  Made(From, t)[b] <= passes[layno - 1][b]
    BY DEF BracketInv, Bracketed
  <2>1. PICK c, n, g : c = job.blocks[b] /\ n = From[b] /\ g = GoodThresh
    OBVIOUS
  <2>2. g \in Int /\ g <= t /\ n \in 0 .. Len(c) /\ job \in Jobs
    BY <2>1 DEF BracketInv, GoodThresh, RateInv
  <2>3. /\ Len(c) \in Nat
        /\ \A p \in 1 .. Len(c) : c[p].rate \in Nat /\ c[p].dist \in Int
        /\ \A p, q \in 1 .. Len(c) : p <= q => c[p].rate <= c[q].rate
    BY <2>1, <2>2, PassType
  <2>4. Reach(c, n, t) <= Reach(c, n, g)
    BY <2>2, <2>3, LowerReach
  <2>5. Reach(c, n, t) \in Int /\ Reach(c, n, g) \in Int /\ n \in Int
    BY <2>2, <2>3, ReachBounds
  <2>6. passes[layno - 1] = Made(From, g)
    BY <2>1 DEF BracketInv
  <2>7. Made(From, t)[b] = Reach(c, n, t) - n /\ Made(From, g)[b] = Reach(c, n, g) - n
    BY <2>1 DEF Made
  <2> QED
    BY <2>4, <2>5, <2>6, <2>7
<1> QED
  BY <1>1, <1>2, StepBracket, RateInvariant, PTL DEF Spec

-------------------------------------------------------------------------------
(* The bytes and the distortion of the layers.  A higher threshold takes no    *)
(* more passes, and so what fits at a threshold fits at a higher one.          *)

\* The sum over the code-blocks is made one by one.
LEMMA TotalIs ==
    ASSUME job \in Jobs, NEW f \in [Blocks -> Int]
    PROVE  \E n \in [0 .. Len(job.blocks) -> Int] :
              /\ \A b \in 0 .. Len(job.blocks) : n[b] = IF b = 0 THEN 0 ELSE n[b - 1] + f[b]
              /\ Total(f) = n[Len(job.blocks)]
<1>1. PICK T \in Nat : T = Len(job.blocks) /\ Blocks = 1 .. T
  BY RateAssumption DEF Blocks
<1> DEFINE Is(n) == n = [b \in 0 .. T |-> IF b = 0 THEN 0 ELSE n[b - 1] + f[b]]
           h == [b \in 0 .. T |-> [v \in Int |-> v + f[b]]]
<1>2. \E n \in [0 .. T -> Int] : Is(n)
  <2>1. \A b \in 0 + 1 .. T : b \in Blocks /\ b \in 0 .. T /\ b # 0
    BY <1>1
  <2>2. \A b \in 0 + 1 .. T : \A v \in Int : h[b][v] \in Int
    BY <2>1
  <2>3. \E n \in [0 .. T -> Int] : Recurses(n, 0, T, 0, h)
    <3>1. StepsIn(Int, 0, T, h)
      BY <2>2 DEF StepsIn
    <3>2. 0 \in Int /\ T \in Int
      OBVIOUS
    <3> HIDE DEF h
    <3> QED
      BY <3>1, <3>2, IntervalRecursion
  <2>4. PICK n \in [0 .. T -> Int] : \A b \in 0 .. T : n[b] = IF b = 0 THEN 0 ELSE h[b][n[b - 1]]
    BY <2>3 DEF Recurses
  <2>5. ASSUME NEW b \in 0 .. T
        PROVE  n[b] = IF b = 0 THEN 0 ELSE n[b - 1] + f[b]
    <3>1. CASE b = 0
      BY <2>4, <3>1
    <3>2. CASE b # 0
      <4>1. b - 1 \in 0 .. T
        BY <3>2
      <4>2. n[b - 1] \in Int
        BY <4>1
      <4> QED
        BY <2>4, <3>2, <4>2
    <3> QED
      BY <3>1, <3>2
  <2>6. n = [b \in 0 .. T |-> IF b = 0 THEN 0 ELSE n[b - 1] + f[b]]
    BY <2>5
  <2> QED
    BY <2>6
<1> DEFINE g == CHOOSE n : Is(n)
<1>3. Is(g)
  BY <1>2
<1>4. Total(f) = g[T]
  BY <1>1 DEF Total, g
<1> HIDE DEF g
<1>5. \A b \in 0 .. T : g[b] = IF b = 0 THEN 0 ELSE g[b - 1] + f[b]
  BY <1>3
<1>6. \A b \in 0 .. T : g[b] \in Int
  <2> DEFINE S == {b \in 0 .. T : g[b] \in Int}
  <2>1. 0 \in S
    BY <1>5
  <2>2. ASSUME NEW b \in 0 .. T - 1, b \in S PROVE b + 1 \in S
    <3>1. b + 1 \in 0 .. T /\ b + 1 # 0 /\ (b + 1) - 1 = b /\ b + 1 \in Blocks
      BY <1>1
    <3> QED
      BY <1>5, <2>2, <3>1
  <2>3. 0 .. T \subseteq S
    <3> HIDE DEF S
    <3> QED
      BY <2>1, <2>2, IntervalInduction
  <2> QED
    BY <2>3
<1>7. g \in [0 .. T -> Int]
  BY <1>3, <1>6
<1> QED
  BY <1>1, <1>4, <1>5, <1>7

\* A sum of no larger parts is no larger.
LEMMA TotalLess ==
    ASSUME job \in Jobs, NEW f \in [Blocks -> Int], NEW g \in [Blocks -> Int],
           \A b \in Blocks : f[b] <= g[b]
    PROVE  Total(f) \in Int /\ Total(g) \in Int /\ Total(f) <= Total(g)
<1>1. PICK T \in Nat : T = Len(job.blocks) /\ Blocks = 1 .. T
  BY RateAssumption DEF Blocks
<1>2. PICK m \in [0 .. T -> Int] :
         /\ \A b \in 0 .. T : m[b] = IF b = 0 THEN 0 ELSE m[b - 1] + f[b]
         /\ Total(f) = m[T]
  BY <1>1, TotalIs
<1>3. PICK n \in [0 .. T -> Int] :
         /\ \A b \in 0 .. T : n[b] = IF b = 0 THEN 0 ELSE n[b - 1] + g[b]
         /\ Total(g) = n[T]
  BY <1>1, TotalIs
<1> DEFINE S == {b \in 0 .. T : m[b] <= n[b]}
<1>4. 0 \in S
  BY <1>2, <1>3
<1>5. ASSUME NEW b \in 0 .. T - 1, b \in S PROVE b + 1 \in S
  <2>1. b + 1 \in 0 .. T /\ b + 1 # 0 /\ (b + 1) - 1 = b /\ b + 1 \in Blocks /\ b \in 0 .. T
    BY <1>1
  <2>2. m[b + 1] = m[b] + f[b + 1] /\ n[b + 1] = n[b] + g[b + 1]
    <3>1. m[b + 1] = m[b] + f[b + 1]
      BY <1>2, <2>1
    <3>2. n[b + 1] = n[b] + g[b + 1]
      BY <1>3, <2>1
    <3> QED
      BY <3>1, <3>2
  <2>3. PICK v \in Int, w \in Int, x \in Int, y \in Int :
           v = m[b] /\ w = n[b] /\ x = f[b + 1] /\ y = g[b + 1] /\ v <= w /\ x <= y
    <3>1. m[b] \in Int /\ n[b] \in Int /\ m[b] <= n[b]
      BY <1>5, <2>1
    <3>2. f[b + 1] \in Int /\ g[b + 1] \in Int /\ f[b + 1] <= g[b + 1]
      BY <2>1
    <3> QED
      BY <3>1, <3>2
  <2>4. m[b + 1] <= n[b + 1]
    BY <2>2, <2>3
  <2> QED
    BY <2>1, <2>4
<1>6. 0 .. T \subseteq S
  <2>1. 0 \in Int /\ T \in Int
    OBVIOUS
  <2> HIDE DEF S
  <2> QED
    BY <1>4, <1>5, <2>1, IntervalInduction
<1>7. T \in S /\ m[T] \in Int /\ n[T] \in Int
  BY <1>6
<1> QED
  BY <1>2, <1>3, <1>7

\* Two thresholds tell the same of all passes.
Alike(cblk, t, u) ==
    /\ t < 0 <=> u < 0
    /\ \A p \in 1 .. Len(cblk) : \A n \in 0 .. p - 1 : Worth(cblk, n, p, t) <=> Worth(cblk, n, p, u)

\* makelayer takes the same passes at two thresholds that tell the same of them.
LEMMA SameReach ==
    ASSUME NEW cblk, Len(cblk) \in Nat, NEW from \in 0 .. Len(cblk), NEW t \in Int, NEW u \in Int, Alike(cblk, t, u)
    PROVE  Reach(cblk, from, t) = Reach(cblk, from, u)
<1> DEFINE T == Len(cblk)
<1>1. PICK g \in [from .. T -> Int] :
         /\ \A p \in from .. T :
               /\ g[p] \in from .. p
               /\ g[p] = IF p > from /\ ~Worth(cblk, g[p - 1], p, t) THEN g[p - 1] ELSE p
         /\ Reach(cblk, from, t) = IF t < 0 THEN T ELSE g[T]
  BY ReachIs
<1>2. PICK h \in [from .. T -> Int] :
         /\ \A p \in from .. T :
               /\ h[p] \in from .. p
               /\ h[p] = IF p > from /\ ~Worth(cblk, h[p - 1], p, u) THEN h[p - 1] ELSE p
         /\ Reach(cblk, from, u) = IF u < 0 THEN T ELSE h[T]
  BY ReachIs
<1> DEFINE S == {p \in from .. T : g[p] = h[p]}
<1>3. from <= T => from \in S
  BY <1>1, <1>2
<1>4. ASSUME NEW p \in from .. T - 1, p \in S PROVE p + 1 \in S
  <2>1. PICK q \in from .. T : q = p + 1 /\ q > from /\ q - 1 = p
    BY <1>4
  <2>2. PICK a \in from .. p : a = g[p] /\ a = h[p]
    BY <1>1, <1>4
  <2>3. q \in 1 .. T /\ a \in 0 .. q - 1
    BY <2>1
  <2>4. Worth(cblk, a, q, t) <=> Worth(cblk, a, q, u)
    BY <2>3, Zenon DEF Alike
  <2>5. /\ g[q] = IF ~Worth(cblk, g[p], q, t) THEN g[p] ELSE q
        /\ h[q] = IF ~Worth(cblk, h[p], q, u) THEN h[p] ELSE q
    BY <1>1, <1>2, <2>1
  <2>6. g[q] = h[q]
    BY <2>2, <2>4, <2>5
  <2> QED
    BY <2>1, <2>6
<1>5. from .. T \subseteq S
  <2>1. from \in Int /\ T \in Int
    OBVIOUS
  <2> HIDE DEF S
  <2> QED
    BY <1>3, <1>4, <2>1, IntervalInduction
<1>6. g[T] = h[T]
  BY <1>5
<1> QED
  BY <1>1, <1>2, <1>6 DEF Alike

\* The passes taken at a threshold, and at a lower one.
LEMMA LowerTakes ==
    ASSUME job \in Jobs, NEW b \in Blocks, NEW n \in 0 .. Len(job.blocks[b]),
           NEW t \in Int, NEW u \in Int, t <= u
    PROVE  /\ Reach(job.blocks[b], n, t) \in n .. Len(job.blocks[b])
           /\ Reach(job.blocks[b], n, u) \in n .. Len(job.blocks[b])
           /\ Reach(job.blocks[b], n, u) <= Reach(job.blocks[b], n, t)
<1>1. PICK c : c = job.blocks[b]
  OBVIOUS
<1>2. /\ Len(c) \in Nat /\ n \in 0 .. Len(c)
      /\ \A p \in 1 .. Len(c) : c[p].rate \in Nat /\ c[p].dist \in Int
      /\ \A p, q \in 1 .. Len(c) : p <= q => c[p].rate <= c[q].rate
  BY <1>1, PassType
<1>3. Reach(c, n, u) <= Reach(c, n, t)
  BY <1>2, LowerReach
<1>4. Reach(c, n, t) \in n .. Len(c) /\ Reach(c, n, u) \in n .. Len(c)
  BY <1>2, ReachBounds
<1> QED
  BY <1>1, <1>3, <1>4

\* More passes of a code-block have no fewer bytes.
LEMMA RateGrows ==
    ASSUME job \in Jobs, NEW b \in Blocks, NEW m \in 0 .. Len(job.blocks[b]), NEW n \in m .. Len(job.blocks[b])
    PROVE  /\ Rate(job.blocks[b], 0, m) \in Int /\ Rate(job.blocks[b], 0, n) \in Int
           /\ Rate(job.blocks[b], 0, m) <= Rate(job.blocks[b], 0, n)
<1>1. PICK c, T : c = job.blocks[b] /\ T = Len(c)
  OBVIOUS
<1>2. /\ T \in Nat /\ m \in 0 .. T /\ n \in m .. T
      /\ \A p \in 1 .. T : c[p].rate \in Nat
      /\ \A p, q \in 1 .. T : p <= q => c[p].rate <= c[q].rate
  BY <1>1, PassType
<1>3. n \in 0 .. T /\ m <= n
  BY <1>2
<1>4. At(c, 0).rate = 0 /\ (m # 0 => At(c, m) = c[m]) /\ (n # 0 => At(c, n) = c[n])
  BY DEF At
<1>5. CASE m = 0
  <2>1. At(c, n).rate \in Nat
    BY <1>2, <1>3, <1>4
  <2>2. At(c, m).rate = 0 /\ At(c, 0).rate = 0
    BY <1>4, <1>5
  <2> QED
    BY <1>1, <2>1, <2>2 DEF Rate
<1>6. CASE m # 0
  <2>1. m \in 1 .. T /\ n \in 1 .. T
    BY <1>2, <1>3, <1>6
  <2>2. c[m].rate \in Nat /\ c[n].rate \in Nat /\ c[m].rate <= c[n].rate
    BY <1>2, <1>3, <2>1
  <2>3. At(c, m) = c[m] /\ At(c, n) = c[n] /\ At(c, 0).rate = 0
    <3>1. n # 0
      BY <2>1
    <3> QED
      BY <1>4, <1>6, <3>1
  <2> QED
    BY <1>1, <2>2, <2>3 DEF Rate
<1> QED
  BY <1>5, <1>6

\* No pass of a code-block adds distortion.
Gainful(c) ==
    \A p \in 1 .. Len(c) : /\ c[p].dist >= 0
                           /\ \A q \in p .. Len(c) : c[p].dist <= c[q].dist

\* More passes of such a code-block take no less distortion away.
LEMMA DistGrows ==
    ASSUME job \in Jobs, NEW b \in Blocks, Gainful(job.blocks[b]),
           NEW m \in 0 .. Len(job.blocks[b]), NEW n \in m .. Len(job.blocks[b])
    PROVE  /\ Dist(job.blocks[b], 0, m) \in Int /\ Dist(job.blocks[b], 0, n) \in Int
           /\ Dist(job.blocks[b], 0, m) <= Dist(job.blocks[b], 0, n)
<1>1. PICK c, T : c = job.blocks[b] /\ T = Len(c)
  OBVIOUS
<1>2. /\ T \in Nat /\ m \in 0 .. T /\ n \in m .. T
      /\ \A p \in 1 .. T : c[p].dist \in Int /\ c[p].dist >= 0
      /\ \A p \in 1 .. T : \A q \in p .. T : c[p].dist <= c[q].dist
  BY <1>1, PassType DEF Gainful
<1>3. n \in 0 .. T /\ m <= n
  BY <1>2
<1>4. At(c, 0).dist = 0 /\ (m # 0 => At(c, m) = c[m]) /\ (n # 0 => At(c, n) = c[n])
  BY DEF At
<1>5. CASE m = 0
  <2>1. At(c, n).dist \in Int /\ At(c, n).dist >= 0
    BY <1>2, <1>3, <1>4
  <2>2. At(c, m).dist = 0 /\ At(c, 0).dist = 0
    BY <1>4, <1>5
  <2> QED
    BY <1>1, <2>1, <2>2 DEF Dist
<1>6. CASE m # 0
  <2>1. m \in 1 .. T /\ n \in m .. T /\ n \in 1 .. T /\ n # 0
    BY <1>2, <1>3, <1>6
  <2>2. c[m].dist \in Int /\ c[n].dist \in Int /\ c[m].dist <= c[n].dist
    BY <1>2, <2>1
  <2>3. At(c, m) = c[m] /\ At(c, n) = c[n] /\ At(c, 0).dist = 0
    <3>1. n # 0
      BY <2>1
    <3> QED
      BY <1>4, <1>6, <3>1
  <2> QED
    BY <1>1, <2>2, <2>3 DEF Dist
<1> QED
  BY <1>5, <1>6

\* In the strategy "quality" no pass adds distortion.
AllGainful == job.strategy = "quality" => \A b \in Blocks : Gainful(job.blocks[b])

\* What the packets come to at a threshold, and at a lower one.
LEMMA LowerBytes ==
    ASSUME job \in Jobs, NEW l \in Nat, NEW f, \A b \in Blocks : f[b] \in 0 .. Len(job.blocks[b]),
           NEW t \in Int, NEW u \in Int, t <= u
    PROVE  /\ Bytes(l, f, Made(f, t)) \in Int /\ Bytes(l, f, Made(f, u)) \in Int
           /\ Bytes(l, f, Made(f, u)) <= Bytes(l, f, Made(f, t))
<1> DEFINE Size(v) == [b \in Blocks |-> Rate(job.blocks[b], 0, f[b] + Made(f, v)[b])]
           Some(v) == {b \in Blocks : Made(f, v)[b] > 0}
<1>1. ASSUME NEW b \in Blocks
      PROVE  /\ f[b] + Made(f, t)[b] = Reach(job.blocks[b], f[b], t)
             /\ f[b] + Made(f, u)[b] = Reach(job.blocks[b], f[b], u)
             /\ Made(f, t)[b] \in Int /\ Made(f, u)[b] \in Int /\ Made(f, u)[b] <= Made(f, t)[b]
             /\ Reach(job.blocks[b], f[b], t) \in 0 .. Len(job.blocks[b])
             /\ Reach(job.blocks[b], f[b], u) \in 0 .. Len(job.blocks[b])
             /\ Reach(job.blocks[b], f[b], t) \in Reach(job.blocks[b], f[b], u) .. Len(job.blocks[b])
  <2>1. PICK n \in Nat, T \in Nat : n = f[b] /\ T = Len(job.blocks[b]) /\ n \in 0 .. T
    BY JobType
  <2>2. PICK x \in n .. T, y \in n .. T :
           x = Reach(job.blocks[b], n, t) /\ y = Reach(job.blocks[b], n, u) /\ y <= x
    BY <2>1, LowerTakes
  <2>3. Made(f, t)[b] = x - n /\ Made(f, u)[b] = y - n
    BY <2>1, <2>2 DEF Made
  <2> QED
    BY <2>1, <2>2, <2>3
<1>2. /\ Size(t) \in [Blocks -> Int] /\ Size(u) \in [Blocks -> Int]
      /\ \A b \in Blocks : Size(u)[b] <= Size(t)[b]
  <2>1. ASSUME NEW b \in Blocks
        PROVE  Size(t)[b] \in Int /\ Size(u)[b] \in Int /\ Size(u)[b] <= Size(t)[b]
    BY <1>1, <2>1, RateGrows
  <2> QED
    BY <2>1
<1>3. Total(Size(t)) \in Int /\ Total(Size(u)) \in Int /\ Total(Size(u)) <= Total(Size(t))
  <2> HIDE DEF Size
  <2> QED
    BY <1>2, TotalLess
<1>4. IsFiniteSet(Blocks)
  <2>1. PICK n \in Nat : Blocks = 1 .. n
    BY RateAssumption DEF Blocks
  <2> QED
    BY <2>1, FS_Interval
<1>5. /\ Cardinality(Some(t)) \in Nat /\ Cardinality(Some(u)) \in Nat
      /\ Cardinality(Some(u)) <= Cardinality(Some(t))
  <2>1. Some(u) \subseteq Some(t) /\ Some(t) \subseteq Blocks /\ Some(u) \subseteq Blocks
    BY <1>1
  <2> HIDE DEF Some
  <2>2. IsFiniteSet(Some(t)) /\ IsFiniteSet(Some(u))
    BY <1>4, <2>1, FS_Subset
  <2> QED
    BY <2>1, <2>2, FS_Subset, FS_CardinalityType
<1>6. Cardinality(Given(l)) \in Nat
  <2>1. IsFiniteSet(1 .. l - 1)
    <3>1. PICK k \in Int : k = l - 1
      OBVIOUS
    <3>2. IsFiniteSet(1 .. k)
      BY FS_Interval
    <3> QED
      BY <3>1, <3>2
  <2>2. IsFiniteSet((1 .. l - 1) \X Blocks)
    BY <1>4, <2>1, FS_Product
  <2>3. Given(l) \subseteq (1 .. l - 1) \X Blocks
    BY DEF Given
  <2> QED
    BY <2>2, <2>3, FS_Subset, FS_CardinalityType
<1>7. \A v : Bytes(l, f, Made(f, v)) = l + Total(Size(v)) + Cardinality(Some(v)) + Cardinality(Given(l))
  BY DEF Bytes, Given
<1> HIDE DEF Size, Some
<1> QED
  BY <1>3, <1>5, <1>6, <1>7

\* What the layers take away at a threshold, and at a lower one.
LEMMA LowerAchieved ==
    ASSUME job \in Jobs, job.strategy = "quality", AllGainful,
           NEW f, \A b \in Blocks : f[b] \in 0 .. Len(job.blocks[b]),
           NEW t \in Int, NEW u \in Int, t <= u
    PROVE  /\ Achieved(f, Made(f, t)) \in Int /\ Achieved(f, Made(f, u)) \in Int
           /\ Achieved(f, Made(f, u)) <= Achieved(f, Made(f, t))
<1> DEFINE Gain(v) == [b \in Blocks |-> Dist(job.blocks[b], 0, f[b] + Made(f, v)[b])]
<1>1. ASSUME NEW b \in Blocks
      PROVE  /\ f[b] + Made(f, t)[b] = Reach(job.blocks[b], f[b], t)
             /\ f[b] + Made(f, u)[b] = Reach(job.blocks[b], f[b], u)
             /\ Reach(job.blocks[b], f[b], u) \in 0 .. Len(job.blocks[b])
             /\ Reach(job.blocks[b], f[b], t) \in Reach(job.blocks[b], f[b], u) .. Len(job.blocks[b])
  <2>1. PICK n \in Nat, T \in Nat : n = f[b] /\ T = Len(job.blocks[b]) /\ n \in 0 .. T
    BY JobType
  <2>2. PICK x \in n .. T, y \in n .. T :
           x = Reach(job.blocks[b], n, t) /\ y = Reach(job.blocks[b], n, u) /\ y <= x
    BY <2>1, LowerTakes
  <2>3. Made(f, t)[b] = x - n /\ Made(f, u)[b] = y - n
    BY <2>1, <2>2 DEF Made
  <2> QED
    BY <2>1, <2>2, <2>3
<1>2. /\ Gain(t) \in [Blocks -> Int] /\ Gain(u) \in [Blocks -> Int]
      /\ \A b \in Blocks : Gain(u)[b] <= Gain(t)[b]
  <2>1. ASSUME NEW b \in Blocks
        PROVE  Gain(t)[b] \in Int /\ Gain(u)[b] \in Int /\ Gain(u)[b] <= Gain(t)[b]
    <3>1. Gainful(job.blocks[b])
      BY DEF AllGainful
    <3> QED
      BY <1>1, <3>1, DistGrows
  <2> QED
    BY <2>1
<1>3. Total(Gain(t)) \in Int /\ Total(Gain(u)) \in Int /\ Total(Gain(u)) <= Total(Gain(t))
  <2> HIDE DEF Gain
  <2> QED
    BY <1>2, TotalLess
<1> QED
  BY <1>3 DEF Achieved

\* What fits at a threshold fits at a higher one.
LEMMA HigherFits ==
    ASSUME job \in Jobs, AllGainful, NEW l \in Layers,
           NEW f, \A b \in Blocks : f[b] \in 0 .. Len(job.blocks[b]),
           NEW t \in Int, NEW u \in Int, t <= u, Acceptable(l, f, Made(f, t))
    PROVE  Acceptable(l, f, Made(f, u))
<1>1. l \in Nat /\ job.limit[l] \in Nat /\ job.strategy \in {"rate", "quality"}
  BY JobType, RateAssumption
<1>2. CASE job.strategy = "rate"
  <2>1. /\ Bytes(l, f, Made(f, t)) \in Int /\ Bytes(l, f, Made(f, u)) \in Int
        /\ Bytes(l, f, Made(f, u)) <= Bytes(l, f, Made(f, t))
    BY <1>1, LowerBytes
  <2> QED
    BY <1>1, <1>2, <2>1 DEF Acceptable
<1>3. CASE job.strategy = "quality"
  <2>1. /\ Achieved(f, Made(f, t)) \in Int /\ Achieved(f, Made(f, u)) \in Int
        /\ Achieved(f, Made(f, u)) <= Achieved(f, Made(f, t))
    BY <1>3, LowerAchieved
  <2> QED
    BY <1>1, <1>3, <2>1 DEF Acceptable
<1> QED
  BY <1>1, <1>2, <1>3

-------------------------------------------------------------------------------
(* The course of the search.  It keeps the least threshold found to fit and    *)
(* one below it that does not, and halves what is between them.                *)

\* What is worth its bytes just below the greatest slope is worth them there.
Steep(c) ==
    \A p \in 1 .. Len(c) : \A n \in 0 .. p - 1 :
        (Greatest - 1) * Rate(c, n, p) <= Scale * Dist(c, n, p) =>
            Greatest * Rate(c, n, p) <= Scale * Dist(c, n, p)

\* The search can tell the thresholds of the job apart: none is negative, slopes that differ
\* from the greatest do so by more than a unit, and the rounds are enough.
ToldApart ==
    /\ Least >= 0 /\ Greatest < 200000 /\ Greatest - Least < 2^Rounds
    /\ \A b \in Blocks : Steep(job.blocks[b])
    /\ AllGainful

\* The layer being made has room for what it gets at a threshold.
Fits(t) == Acceptable(layno, in, Made(in, t))

\* The search has thresholds that do not fit below lo and those that do from hi on, unless
\* it has not tried them, and it has halved what is between them in each round.
CloseInv ==
    pc = "search" =>
        /\ Least <= lo /\ lo <= hi /\ hi <= Greatest
        /\ i <= Rounds
        /\ (stable = 0 /\ hi = Greatest) \/ (stable = hi /\ Fits(hi))
        /\ ~Fits(lo) \/ (lo = Least /\ (hi - lo) * 2^i <= Greatest - Least)
        /\ (hi - lo - 1) * 2^i <= Greatest - Least
        /\ i = 0 => thresh = 0 /\ stable = 0 /\ lo = Least /\ hi = Greatest
        /\ i # 0 => (thresh = lo /\ ~Fits(lo)) \/ (thresh = hi /\ stable = hi /\ Fits(hi))

\* Half as much, for twice as long.
LEMMA Halved ==
    ASSUME NEW x \in Int, NEW y \in Int, NEW k \in Nat, NEW d \in Int, 2 * x <= y, y * k <= d
    PROVE  x * (k + k) <= d
<1>1. PICK z \in Int : z = 2 * x
  OBVIOUS
<1>2. z * k <= y * k
  <2>1. PICK e \in Nat : y = z + e
    <3>1. y - z \in Nat
      BY <1>1
    <3> QED
      BY <3>1
  <2>2. y * k = z * k + e * k /\ e * k >= 0
    BY <2>1
  <2>3. PICK p \in Int, q \in Int, r \in Int : p = y * k /\ q = z * k /\ r = e * k
    OBVIOUS
  <2> QED
    BY <2>2, <2>3
<1>3. x * (k + k) = z * k
  BY <1>1
<1>4. PICK p \in Int, q \in Int : p = y * k /\ q = z * k
  OBVIOUS
<1> QED
  BY <1>2, <1>3, <1>4

\* What is less than 1 when multiplied.
LEMMA NoneLeft ==
    ASSUME NEW x \in Int, NEW k \in Nat, NEW d \in Int, x * k <= d, d < k
    PROVE  x <= 0
<1> SUFFICES ASSUME x >= 1 PROVE FALSE
  OBVIOUS
<1>1. PICK e \in Nat : x = e + 1
  <2>1. x - 1 \in Nat
    OBVIOUS
  <2> QED
    BY <2>1
<1>2. x * k = e * k + k /\ e * k >= 0
  BY <1>1
<1>3. PICK p \in Int, q \in Int : p = x * k /\ q = e * k
  OBVIOUS
<1> QED
  BY <1>2, <1>3

\* The middle.
LEMMA Middle ==
    ASSUME NEW a \in Int, NEW b \in Int, a <= b
    PROVE  /\ (a + b) \div 2 \in Int /\ a <= (a + b) \div 2 /\ (a + b) \div 2 <= b
           /\ 2 * ((a + b) \div 2 - a) <= b - a /\ 2 * (b - (a + b) \div 2 - 1) <= b - a - 1
           /\ (a + b) \div 2 = b => a = b
           /\ (a + b) \div 2 = a => b <= a + 1
OBVIOUS

\* Just below the greatest slope makelayer takes the same.
LEMMA SameAtTop ==
    ASSUME job \in Jobs, ToldApart, Greatest >= 1,
           NEW f, \A b \in Blocks : f[b] \in 0 .. Len(job.blocks[b])
    PROVE  Made(f, Greatest) = Made(f, Greatest - 1)
<1>1. PICK g \in Int : g = Greatest /\ g >= 1
  BY EndsType
<1>2. ASSUME NEW b \in Blocks
      PROVE  Reach(job.blocks[b], f[b], g) = Reach(job.blocks[b], f[b], g - 1)
  <2>1. PICK c : c = job.blocks[b]
    OBVIOUS
  <2>2. /\ Len(c) \in Nat /\ f[b] \in 0 .. Len(c)
        /\ \A p \in 1 .. Len(c) : c[p].rate \in Nat /\ c[p].dist \in Int
        /\ \A p, q \in 1 .. Len(c) : p <= q => c[p].rate <= c[q].rate
        /\ Steep(c)
    BY <2>1, PassType DEF ToldApart
  <2>3. ASSUME NEW p \in 1 .. Len(c), NEW n \in 0 .. p - 1
        PROVE  Worth(c, n, p, g) <=> Worth(c, n, p, g - 1)
    <3>1. PICK r \in Nat, d \in Int : r = Rate(c, n, p) /\ d = Dist(c, n, p)
      <4>1. At(c, p) = c[p] /\ (n = 0 => At(c, n) = [rate |-> 0, dist |-> 0]) /\ (n # 0 => At(c, n) = c[n])
        BY <2>2 DEF At
      <4>2. p \in Nat /\ n \in Nat /\ n <= p /\ (n # 0 => n \in 1 .. Len(c))
        BY <2>2
      <4>3. c[p].rate \in Nat /\ c[p].dist \in Int
        BY <2>2
      <4>4. /\ At(c, n).rate \in Nat /\ At(c, n).dist \in Int /\ At(c, n).rate <= c[p].rate
        <5>1. CASE n = 0
          BY <4>1, <4>3, <5>1
        <5>2. CASE n # 0
          BY <2>2, <4>1, <4>2, <5>2
        <5> QED
          BY <5>1, <5>2
      <4>5. Rate(c, n, p) \in Nat /\ Dist(c, n, p) \in Int
        BY <4>1, <4>3, <4>4 DEF Rate, Dist
      <4> QED
        BY <4>5
    <3>2. (g - 1) * r <= Scale * d => g * r <= Scale * d
      BY <1>1, <2>2, <3>1 DEF Steep
    <3>3. g * r <= Scale * d => (g - 1) * r <= Scale * d
      <4>1. (g - 1) * r = g * r - r
        OBVIOUS
      <4>2. PICK x \in Int, y \in Int : x = g * r /\ y = Scale * d
        BY RateAssumption
      <4> QED
        BY <4>1, <4>2
    <3> QED
      BY <3>1, <3>2, <3>3 DEF Worth
  <2>4. g \in Int /\ g - 1 \in Int /\ Alike(c, g, g - 1)
    BY <1>1, <2>3 DEF Alike
  <2> QED
    BY <2>1, <2>2, <2>4, SameReach
<1> QED
  BY <1>1, <1>2 DEF Made

\* When the search ends, nothing that fits is better than what the layer gets.
LEMMA Ended ==
    ASSUME RateInv, BracketInv, ToldApart, CloseInv, pc = "search", Settled,
           NEW t \in Least .. Greatest, Fits(t)
    PROVE  Fits(GoodThresh) /\ (GoodThresh <= t \/ Made(in, t) = Made(in, GoodThresh))
<1>1. /\ job \in Jobs /\ layno \in Layers /\ \A b \in Blocks : in[b] \in 0 .. Len(job.blocks[b])
      /\ i \in Nat /\ Rounds \in Nat \ {0} /\ AllGainful
  BY RateAssumption DEF RateInv, ToldApart
<1>2. PICK low \in Int, high \in Int, l \in Int, h \in Int, th \in Int, st \in Int :
         low = Least /\ high = Greatest /\ l = lo /\ h = hi /\ th = thresh /\ st = stable
  BY <1>1, EndsType DEF BracketInv
<1>3. /\ low <= l /\ l <= h /\ h <= high
      /\ (st = 0 /\ h = high) \/ (st = h /\ Fits(h))
      /\ ~Fits(l) \/ (l = low /\ (h - l) * 2^i <= high - low)
      /\ (h - l - 1) * 2^i <= high - low
      /\ i = 0 => th = 0 /\ st = 0 /\ l = low /\ h = high
      /\ i # 0 => (th = l /\ ~Fits(l)) \/ (th = h /\ st = h /\ Fits(h))
  BY <1>2 DEF CloseInv
<1>4. low >= 0 /\ high < 200000 /\ high - low < 2^Rounds /\ t \in Int /\ low <= t /\ t <= high
  BY <1>2 DEF ToldApart
<1>5. ASSUME NEW u \in Int, t <= u PROVE Fits(u)
  BY <1>1, <1>5, HigherFits DEF Fits
<1>6. l <= t \/ Fits(l)
  BY <1>5
<1>7. t = high /\ high >= 1 => Made(in, t) = Made(in, high - 1)
  BY <1>1, <1>2, SameAtTop
<1>8. high >= 1 /\ Fits(high) => Fits(high - 1)
  BY <1>1, <1>2, SameAtTop DEF Fits
<1>9. GoodThresh = IF st = 0 THEN th ELSE st
  BY <1>2 DEF GoodThresh
<1>10. th >= 0 /\ th < 200000
  BY <1>3, <1>4
<1>11. i = Rounds \/ (l + h) \div 2 = th
  <2> SUFFICES ASSUME i # Rounds PROVE (l + h) \div 2 = th
    OBVIOUS
  <2>1. PICK m \in Int : m = (l + h) \div 2
    OBVIOUS
  <2>2. 200000 * (IF m > th THEN m - th ELSE th - m) <= th
    BY <1>2, <2>1 DEF Settled, Distance, NewThresh
  <2> QED
    BY <1>10, <2>1, <2>2
\* What is left between the two ends.
<1>12. CASE i # 0
  <2>1. h = l \/ (h = l + 1 /\ ~Fits(l))
    <3>1. CASE i = Rounds
      <4>1. PICK k \in Nat : k = 2^i /\ high - low < k
        BY <1>1, <1>4, <3>1, PowerPositive
      <4>2. h - l - 1 <= 0
        BY <1>3, <4>1, NoneLeft
      <4>3. l = low /\ (h - l) * 2^i <= high - low => h - l <= 0
        BY <4>1, NoneLeft
      <4> QED
        BY <1>3, <4>2, <4>3
    <3>2. CASE (l + h) \div 2 = th
      BY <1>3, <1>12, <3>2, Middle
    <3> QED
      BY <1>11, <3>1, <3>2
  <2>2. CASE Fits(h) /\ st = h
    <3>1. GoodThresh = h
      <4>1. CASE st # 0
        BY <1>9, <2>2, <4>1
      <4>2. CASE st = 0
        <5>1. h = 0 /\ l = h
          BY <1>3, <1>4, <2>2, <4>2
        <5> QED
          BY <1>3, <1>9, <1>12, <4>2, <5>1
      <4> QED
        BY <4>1, <4>2
    <3>2. h <= t
      BY <1>3, <1>4, <1>5, <2>1, <2>2
    <3> QED
      BY <2>2, <3>1, <3>2
  <2>3. CASE ~(Fits(h) /\ st = h)
    <3>1. st = 0 /\ h = high /\ th = l /\ ~Fits(l) /\ GoodThresh = l
      BY <1>3, <1>9, <1>12, <2>3
    <3>2. ~(l <= t /\ t <= l)
      BY <3>1
    <3>3. t = high /\ h = l + 1 /\ high >= 1
      BY <1>3, <1>4, <1>5, <2>1, <3>1
    <3>4. Fits(high - 1) /\ high - 1 = l
      BY <1>5, <1>8, <3>1, <3>3
    <3> QED
      BY <3>1, <3>4
  <2> QED
    BY <2>2, <2>3
<1>13. CASE i = 0
  <2>1. (low + high) \div 2 = 0 /\ GoodThresh = 0
    <3>1. th = 0 /\ st = 0 /\ l = low /\ h = high /\ i # Rounds
      BY <1>1, <1>3, <1>13
    <3> QED
      BY <1>9, <1>11, <3>1
  <2>2. low = 0 /\ high <= 1
    BY <1>3, <1>4, <2>1, Middle
  <2>3. t = 0 \/ (t = high /\ high = 1)
    BY <1>4, <2>2
  <2>4. CASE t = 0
    BY <2>1, <2>4
  <2>5. CASE t = high /\ high = 1
    <3>1. high - 1 = 0
      BY <2>5
    <3> QED
      BY <1>7, <1>8, <2>1, <2>5, <3>1
  <2> QED
    BY <2>3, <2>4, <2>5
<1> QED
  BY <1>12, <1>13

\* While a layer is searched for, what fits does not change.
LEMMA SameFits ==
    ASSUME RateInv, Round, NEW t
    PROVE  Fits(t)' <=> Fits(t)
<1>1. PICK l, f, m : l = layno /\ f = in /\ m = Made(in, t)
  OBVIOUS
<1>2. /\ UNCHANGED <<job, layno, in>> /\ Layers = 1 .. Len(job.limit) /\ Len(job.limit) \in Nat /\ layno \in Layers
      /\ passes' = [passes EXCEPT ![layno] = Made(in, NewThresh)] /\ passes \in [Layers -> [Blocks -> Nat]]
  BY JobType DEF Round, RateInv
<1>3. \A k \in 1 .. l - 1 : passes'[k] = passes[k]
  <2>1. \A k \in 1 .. layno - 1 : k # layno /\ k \in Layers
    BY <1>2
  <2> QED
    BY <1>1, <1>2, <2>1
<1>4. l \in Nat /\ UNCHANGED job
  BY <1>1, <1>2
<1>5. Acceptable(l, f, m)' <=> Acceptable(l, f, m)
  BY <1>3, <1>4, SameAcceptable
<1>6. Made(in, t)' = m /\ layno' = l /\ in' = f
  BY <1>1, <1>2 DEF Made, Blocks
<1> QED
  BY <1>1, <1>5, <1>6 DEF Fits

\* A search begins with nothing tried.
LEMMA StartClose ==
    ASSUME RateInv, ToldApart, Least <= Greatest, StartSearch
    PROVE  CloseInv'
<1>1. /\ UNCHANGED job /\ i' = 0 /\ lo' = Least /\ hi' = Greatest /\ thresh' = 0 /\ stable' = 0
  BY DEF StartSearch
<1>2. PICK low \in Int, high \in Int : low = Least /\ high = Greatest /\ low <= high
  BY EndsType DEF RateInv
<1>3. Least' = low /\ Greatest' = high /\ Rounds \in Nat
  BY <1>1, <1>2, RateAssumption DEF Least, Greatest, Slopes, Blocks
<1>4. (high - low) * 2^0 <= high - low /\ (high - low - 1) * 2^0 <= high - low
  <2>1. 2^0 = 1
    OBVIOUS
  <2>2. PICK d \in Int : d = high - low
    OBVIOUS
  <2> QED
    BY <2>1, <2>2
<1> QED
  BY <1>1, <1>2, <1>3, <1>4 DEF CloseInv

\* A round halves what is between the ends.
LEMMA RoundClose ==
    ASSUME RateInv, BracketInv, CloseInv, Least <= Greatest, Round
    PROVE  CloseInv'
<1>1. /\ pc = "search" /\ UNCHANGED <<job, pc, layno, in>> /\ ~Settled
      /\ i' = i + 1 /\ thresh' = NewThresh
      /\ IF Good(Made(in, NewThresh)) THEN hi' = NewThresh /\ stable' = NewThresh /\ lo' = lo
         ELSE lo' = NewThresh /\ UNCHANGED <<hi, stable>>
  BY DEF Round
<1>2. PICK low \in Int, high \in Int, l \in Int, h \in Int, st \in Int, new \in Int, k \in Nat :
         /\ low = Least /\ high = Greatest /\ l = lo /\ h = hi /\ st = stable /\ k = 2^i
         /\ new = (l + h) \div 2
  <2>1. Least \in Int /\ Greatest \in Int /\ lo \in Int /\ hi \in Int /\ stable \in Int
    BY EndsType DEF RateInv, BracketInv
  <2>2. 2^i \in Nat
    BY PowerPositive DEF RateInv
  <2>3. (lo + hi) \div 2 \in Int
    BY <2>1
  <2> QED
    BY <2>1, <2>2, <2>3
<1>3. /\ low <= l /\ l <= h /\ h <= high
      /\ (st = 0 /\ h = high) \/ (st = h /\ Fits(h))
      /\ ~Fits(l) \/ (l = low /\ (h - l) * k <= high - low)
      /\ (h - l - 1) * k <= high - low
      /\ i \in Nat /\ i <= Rounds /\ Rounds \in Nat /\ i # Rounds
  BY <1>1, <1>2, RateAssumption DEF CloseInv, RateInv, Settled
<1>4. NewThresh = new
  BY <1>2 DEF NewThresh
<1>5. /\ Good(Made(in, new)) => Fits(new)
      /\ ~Good(Made(in, new)) => ~Fits(new)
  BY <1>1, GoodIsAcceptable, BadIsRejected DEF Fits, RateInv
<1>6. Least' = low /\ Greatest' = high
  BY <1>1, <1>2 DEF Least, Greatest, Slopes, Blocks
<1>7. i' \in Nat /\ i' # 0 /\ i' <= Rounds /\ thresh' = new
  BY <1>1, <1>3, <1>4
<1>8. 2^(i') = k + k
  BY <1>1, <1>2, <1>3, PowerDoubles
<1>9. \A u : Fits(u)' <=> Fits(u)
  BY SameFits
<1>10. /\ l <= new /\ new <= h /\ 2 * (new - l) <= h - l /\ 2 * (h - new - 1) <= h - l - 1
  BY <1>2, <1>3, Middle
<1>11. CASE Good(Made(in, new))
  <2>1. hi' = new /\ stable' = new /\ lo' = l
    BY <1>1, <1>2, <1>4, <1>11
  <2>2. Fits(hi)' <=> Fits(new)
    <3>1. Fits(hi)' <=> Fits(new)'
      BY <2>1 DEF Fits, Made
    <3> QED
      BY <1>9, <3>1
  <2>3. Fits(lo)' <=> Fits(l)
    <3>1. Fits(lo)' <=> Fits(l)'
      BY <2>1 DEF Fits, Made
    <3> QED
      BY <1>9, <3>1
  <2>4. l = low /\ (h - l) * k <= high - low => (new - l) * (k + k) <= high - low
    <3>1. new - l \in Int /\ h - l \in Int /\ high - low \in Int
      OBVIOUS
    <3> QED
      BY <1>10, <3>1, Halved
  <2>5. (new - l - 1) * (k + k) <= high - low
    <3>1. 2 * (new - l - 1) <= h - l - 1
      BY <1>10
    <3>2. new - l - 1 \in Int /\ h - l - 1 \in Int /\ high - low \in Int
      OBVIOUS
    <3> QED
      BY <1>3, <3>1, <3>2, Halved
  <2>6. (Least <= lo /\ lo <= hi /\ hi <= Greatest /\ i <= Rounds)'
    BY <1>3, <1>6, <1>7, <1>10, <2>1
  <2>7. stable' = hi' /\ Fits(hi)' /\ thresh' = hi' /\ i' # 0
    BY <1>5, <1>7, <1>11, <2>1, <2>2
  <2>8. CASE ~Fits(l)
    <3>1. ~Fits(lo)'
      BY <2>3, <2>8
    <3>2. ((hi - lo - 1) * 2^i <= Greatest - Least)'
      BY <1>6, <1>8, <2>1, <2>5
    <3> QED
      BY <2>6, <2>7, <3>1, <3>2 DEF CloseInv
  <2>9. CASE l = low /\ (h - l) * k <= high - low
    <3>1. (lo = Least /\ (hi - lo) * 2^i <= Greatest - Least)'
      BY <1>6, <1>8, <2>1, <2>4, <2>9
    <3>2. ((hi - lo - 1) * 2^i <= Greatest - Least)'
      BY <1>6, <1>8, <2>1, <2>5
    <3> QED
      BY <2>6, <2>7, <3>1, <3>2 DEF CloseInv
  <2> QED
    BY <1>3, <2>8, <2>9
<1>12. CASE ~Good(Made(in, new))
  <2>1. lo' = new /\ stable' = st /\ hi' = h
    BY <1>1, <1>2, <1>4, <1>12
  <2>2. Fits(lo)' <=> Fits(new)
    <3>1. Fits(lo)' <=> Fits(new)'
      BY <2>1 DEF Fits, Made
    <3> QED
      BY <1>9, <3>1
  <2>3. Fits(hi)' <=> Fits(h)
    <3>1. Fits(hi)' <=> Fits(h)'
      BY <2>1 DEF Fits, Made
    <3> QED
      BY <1>9, <3>1
  <2>4. (h - new - 1) * (k + k) <= high - low
    <3>1. h - new - 1 \in Int /\ h - l - 1 \in Int /\ high - low \in Int
      OBVIOUS
    <3> QED
      BY <1>3, <1>10, <3>1, Halved
  <2>5. (Least <= lo /\ lo <= hi /\ hi <= Greatest /\ i <= Rounds)'
    BY <1>3, <1>6, <1>7, <1>10, <2>1
  <2>6. thresh' = lo' /\ ~Fits(lo)' /\ i' # 0
    BY <1>5, <1>7, <1>12, <2>1, <2>2
  <2>7. ((hi - lo - 1) * 2^i <= Greatest - Least)'
    BY <1>6, <1>8, <2>1, <2>4
  <2>8. (stable = 0 /\ hi = Greatest)' \/ (stable = hi /\ Fits(hi))'
    <3>1. CASE st = 0 /\ h = high
      BY <1>6, <2>1, <3>1
    <3>2. CASE st = h /\ Fits(h)
      <4>1. Fits(hi)'
        BY <2>3, <3>2
      <4> QED
        BY <2>1, <3>2, <4>1
    <3> QED
      BY <1>3, <3>1, <3>2
  <2> QED
    BY <2>5, <2>6, <2>7, <2>8 DEF CloseInv
<1> QED
  BY <1>11, <1>12

\* The layer that is written.
LEMMA FinishNothingBetter ==
    ASSUME RateInv, BracketInv, ToldApart, Least <= Greatest => CloseInv, Finish
    PROVE  NothingBetter'
<1>1. PICK l, f, g : l = layno /\ f = in /\ g = GoodThresh
  OBVIOUS
<1>2. /\ pc = "search" /\ Settled /\ UNCHANGED <<job, search>> /\ job \in Jobs
      /\ l \in Layers /\ l \in Nat /\ \A b \in Blocks : f[b] \in 0 .. Len(job.blocks[b])
  BY <1>1, JobType DEF Finish, MakeFinal, RateInv
<1>3. layno' - 1 = l /\ From' = f /\ passes'[l] = Made(f, g)
  BY <1>1, FinishFrom
<1>4. \A m : Acceptable(l, f, m)' <=> Acceptable(l, f, m)
  BY <1>1, <1>2, FinishFrom, SameAcceptable
<1>5. Blocks' = Blocks /\ Least' = Least /\ Greatest' = Greatest /\ Least \in Int /\ Greatest \in Int /\ g \in Int
  BY <1>1, <1>2, EndsType DEF Blocks, Least, Greatest, Slopes, GoodThresh, BracketInv
<1>6. ASSUME NEW t \in Least .. Greatest, Acceptable(l, f, Made(f, t))
      PROVE  /\ Acceptable(l, f, Made(f, g))
             /\ \A b \in Blocks : Made(f, t)[b] <= Made(f, g)[b]
  <2>1. Least <= Greatest
    BY <1>5
  <2>2. Fits(g) /\ (g <= t \/ Made(f, t) = Made(f, g))
    <3>1. Fits(t)
      BY <1>1, <1>6 DEF Fits
    <3> QED
      BY <1>1, <1>2, <2>1, <3>1, Ended
  <2>3. ASSUME NEW b \in Blocks PROVE Made(f, t)[b] <= Made(f, g)[b]
    <3>1. PICK n \in Nat, T \in Nat : n = f[b] /\ T = Len(job.blocks[b]) /\ n \in 0 .. T
      BY <1>2, JobType
    <3>2. /\ Reach(job.blocks[b], n, t) \in n .. T /\ Reach(job.blocks[b], n, g) \in n .. T
          /\ g <= t => Reach(job.blocks[b], n, t) <= Reach(job.blocks[b], n, g)
      <4>1. t \in Int
        BY <1>5
      <4>2. Len(job.blocks[b]) \in Nat /\ n \in 0 .. Len(job.blocks[b])
        BY <3>1
      <4>3. Reach(job.blocks[b], n, t) \in n .. T /\ Reach(job.blocks[b], n, g) \in n .. T
        BY <3>1, <4>2, ReachBounds
      <4>4. g <= t => Reach(job.blocks[b], n, t) <= Reach(job.blocks[b], n, g)
        BY <1>2, <1>5, <4>1, <4>2, LowerTakes
      <4> QED
        BY <4>3, <4>4
    <3>3. Made(f, t)[b] = Reach(job.blocks[b], n, t) - n /\ Made(f, g)[b] = Reach(job.blocks[b], n, g) - n
      BY <3>1 DEF Made
    <3> QED
      BY <2>2, <3>1, <3>2, <3>3
  <2> QED
    BY <1>1, <2>2, <2>3 DEF Fits
<1>7. \A t : Made(From, t)' = Made(f, t)
  BY <1>2, <1>3, <1>5 DEF Made
<1> SUFFICES ASSUME NEW t \in Least' .. Greatest', Acceptable(layno - 1, From, Made(From, t))'
             PROVE  /\ Acceptable(layno - 1, From, passes[layno - 1])'
                    /\ \A b \in Blocks' : Made(From, t)'[b] <= passes'[layno' - 1][b]
  BY DEF NothingBetter
<1>8. PICK m, n : m = Made(f, t) /\ n = Made(f, g)
  OBVIOUS
<1>9. Made(From, t)' = m /\ t \in Least .. Greatest
  BY <1>5, <1>7, <1>8
<1>10. Acceptable(l, f, m)'
  BY <1>3, <1>9
<1>11. Acceptable(l, f, m)
  BY <1>4, <1>10
<1>12. Acceptable(l, f, n) /\ \A b \in Blocks : m[b] <= n[b]
  BY <1>6, <1>8, <1>9, <1>11
<1>13. Acceptable(l, f, n)'
  BY <1>4, <1>12
<1>14. passes'[layno' - 1] = n
  BY <1>3, <1>8
<1>15. Acceptable(layno - 1, From, passes[layno - 1])'
  BY <1>3, <1>13, <1>14
<1> QED
  BY <1>5, <1>9, <1>12, <1>14, <1>15

\* Where the search can tell the thresholds apart it keeps to its course, and leaves nothing
\* better behind.
CloseBetter == ToldApart => (Least <= Greatest => CloseInv) /\ NothingBetter

LEMMA StepClose ==
    ASSUME RateInv, BracketInv, CloseBetter, [Next]_vars
    PROVE  CloseBetter'
<1> SUFFICES ASSUME ToldApart'
             PROVE  (Least' <= Greatest' => CloseInv') /\ NothingBetter'
  BY DEF CloseBetter
<1>1. UNCHANGED job
  BY DEF Next, Unlimited, StartSearch, Round, Finish, vars
<1>2. Least' = Least /\ Greatest' = Greatest /\ Blocks' = Blocks
  BY <1>1 DEF Least, Greatest, Slopes, Blocks
<1>3. ToldApart
  <2>1. AllGainful' <=> AllGainful
    BY <1>1, <1>2 DEF AllGainful
  <2>2. \A b \in Blocks : Steep(job.blocks[b])' <=> Steep(job.blocks[b])
    BY <1>1, <1>2 DEF Steep
  <2> QED
    BY <1>1, <1>2, <2>1, <2>2 DEF ToldApart
<1>4. (Least <= Greatest => CloseInv) /\ NothingBetter
  BY <1>3 DEF CloseBetter
<1>5. CASE Unlimited
  <2>1. /\ layno' = layno + 1 /\ layno \in Nat /\ job.limit[layno] = 0 /\ pc' # "search"
    BY <1>5, JobType DEF Unlimited, MakeFinal, RateInv
  <2>2. ~Searched'
    BY <1>1, <2>1 DEF Searched
  <2> QED
    BY <2>1, <2>2 DEF CloseInv, NothingBetter
<1>6. CASE StartSearch
  <2>1. ~Searched'
    BY <1>6 DEF StartSearch, Searched
  <2> QED
    BY <1>2, <1>3, <1>6, <2>1, StartClose DEF NothingBetter
<1>7. CASE Round
  <2>1. ~Searched'
    BY <1>7 DEF Round, Searched
  <2> QED
    BY <1>2, <1>4, <1>7, <2>1, RoundClose DEF NothingBetter
<1>8. CASE Finish
  <2>1. pc' # "search"
    BY <1>8 DEF Finish, MakeFinal
  <2>2. NothingBetter'
    BY <1>3, <1>4, <1>8, FinishNothingBetter
  <2> QED
    BY <2>1, <2>2 DEF CloseInv
<1>9. CASE UNCHANGED vars
  <2>1. UNCHANGED <<job, pc, layno, passes, in, i, lo, hi, thresh, stable, lastOk>>
    BY <1>9 DEF vars, search
  <2>2. Searched' = Searched /\ From' = From
    BY <2>1, <1>2 DEF Searched, From
  <2>3. \A t : Fits(t)' <=> Fits(t)
    BY <2>1, <1>2 DEF Fits, Acceptable, Bytes, Achieved, Total, Made
  <2>4. CloseInv' <=> CloseInv
    <3>1. (Fits(lo)' <=> Fits(lo)) /\ (Fits(hi)' <=> Fits(hi))
      <4>1. (Fits(lo)' <=> Fits(lo))
        BY <2>1, <1>2 DEF Fits, Acceptable, Bytes, Achieved, Total, Made
      <4>2. (Fits(hi)' <=> Fits(hi))
        BY <2>1, <1>2 DEF Fits, Acceptable, Bytes, Achieved, Total, Made
      <4> QED
        BY <4>1, <4>2
    <3> QED
      BY <1>2, <2>1, <3>1 DEF CloseInv
  <2>5. NothingBetter' <=> NothingBetter
    <3>1. \A t : Made(From, t)' = Made(From, t)
      BY <1>2, <2>1, <2>2 DEF Made
    <3>2. \A m : Acceptable(layno - 1, From, m)' <=> Acceptable(layno - 1, From, m)
      BY <1>2, <2>1, <2>2 DEF Acceptable, Bytes, Achieved, Total
    <3>3. Acceptable(layno - 1, From, passes[layno - 1])' <=> Acceptable(layno - 1, From, passes[layno - 1])
      BY <1>2, <2>1, <2>2 DEF Acceptable, Bytes, Achieved, Total
    <3>4. \A t : Acceptable(layno - 1, From, Made(From, t))' <=> Acceptable(layno - 1, From, Made(From, t))
      BY <1>2, <2>1, <2>2 DEF Acceptable, Bytes, Achieved, Total, Made
    <3> QED
      BY <1>2, <2>1, <2>2, <3>1, <3>3, <3>4 DEF NothingBetter
  <2> QED
    BY <1>2, <1>4, <2>4, <2>5
<1> QED
  BY <1>5, <1>6, <1>7, <1>8, <1>9 DEF Next

\* Where the search can tell the thresholds apart, a layer is written with the most passes that
\* fit: no threshold fits that gives a code-block one more (rateallocate of rate_alloc.go).
THEOREM LayersHoldTheMost == Spec => [](ToldApart => NothingBetter)
<1>1. Init => BracketInv /\ CloseBetter
  BY DEF Init, BracketInv, CloseBetter, CloseInv, NothingBetter, Searched
<1>2. CloseBetter => (ToldApart => NothingBetter)
  BY DEF CloseBetter
<1> QED
  BY <1>1, <1>2, StepBracket, StepClose, RateInvariant, PTL DEF Spec
===============================================================================
