----------------------------- MODULE T1PoolProofs -----------------------------
(***************************************************************************)
(* Theorems about the tier-1 worker pool, for every number of code-blocks,  *)
(* every number of goroutines and every set of failing blocks.              *)
(***************************************************************************)
EXTENDS T1Pool, TLAPS

USE BoundsAssumption

\* The type of every variable is an invariant of the pool.
THEOREM TypeCorrect == Spec => []TypeOK
<1>1. Init => TypeOK
  BY DEF Init, TypeOK, Jobs, Workers, Sequential, Spawned, PoolSize
<1>2. TypeOK /\ [Next]_vars => TypeOK'
  <2> SUFFICES ASSUME TypeOK, [Next]_vars PROVE TypeOK'
    OBVIOUS
  <2> USE DEF TypeOK, Jobs, Workers, params
  <2>1. CASE SeqDecode
    BY <2>1 DEF SeqDecode
  <2>2. CASE SeqReturn
    BY <2>2 DEF SeqReturn
  <2>3. CASE Join
    BY <2>3 DEF Join
  <2>4. ASSUME NEW w \in Workers, Claim(w) PROVE TypeOK'
    BY <2>4 DEF Claim
  <2>5. ASSUME NEW w \in Workers, Check(w) PROVE TypeOK'
    BY <2>5 DEF Check
  <2>6. ASSUME NEW w \in Workers, Message(w) PROVE TypeOK'
    BY <2>6 DEF Message
  <2>7. ASSUME NEW w \in Workers, CallbackReturns(w) PROVE TypeOK'
    BY <2>7 DEF CallbackReturns
  <2>8. ASSUME NEW w \in Workers, Decode(w) PROVE TypeOK'
    BY <2>8 DEF Decode
  <2>9. ASSUME NEW w \in Workers, Report(w) PROVE TypeOK'
    BY <2>9 DEF Report
  <2>10. CASE UNCHANGED vars
    BY <2>10 DEF vars
  <2> QED
    BY <2>1, <2>2, <2>3, <2>4, <2>5, <2>6, <2>7, <2>8, <2>9, <2>10
       DEF Next, Caller, Step
<1> QED
  BY <1>1, <1>2, PTL DEF Spec

\* The invariant holds when runT1Jobs starts.
LEMMA PoolInvInit == Init => PoolInv
<1> SUFFICES ASSUME Init PROVE PoolInv
  OBVIOUS
<1> USE DEF Init, Jobs, Workers, Sequential, Spawned, PoolSize
<1>1. LatchInv
  BY DEF LatchInv
<1>2. CallerInv
  BY DEF CallerInv
<1>3. SequentialInv
  BY DEF SequentialInv
<1>4. SerialCallbacks
  BY DEF SerialCallbacks
<1>5. ClaimInv
  BY DEF ClaimInv, Busy
<1>6. SettledInv
  BY DEF SettledInv
<1> QED
  BY <1>1, <1>2, <1>3, <1>4, <1>5, <1>6 DEF PoolInv

\* The steps of the caller: the sequential loop and the join.
LEMMA CallerKeepsPoolInv == TypeOK /\ PoolInv /\ Caller => PoolInv'
<1> SUFFICES ASSUME TypeOK, PoolInv, Caller PROVE PoolInv'
  OBVIOUS
<1> USE DEF TypeOK, Jobs, Workers, params, Sequential, Spawned, PoolSize
<1>1. CASE SeqDecode
  <2> USE <1>1 DEF SeqDecode, PoolInv
  <2>1. LatchInv'
    BY DEF LatchInv
  <2>2. CallerInv'
    BY DEF CallerInv, Spawned, PoolSize, Sequential
  <2>3. SequentialInv'
    <3>1. CASE next \in fails
      BY <3>1 DEF SequentialInv
    <3>2. CASE next \notin fails
      BY <3>2 DEF SequentialInv
    <3> QED
      BY <3>1, <3>2
  <2>4. SerialCallbacks'
    BY DEF SerialCallbacks
  <2>5. ClaimInv' /\ SettledInv'
    BY DEF ClaimInv, SettledInv, CallerInv, Busy
  <2> QED
    BY <2>1, <2>2, <2>3, <2>4, <2>5
<1>2. CASE SeqReturn
  BY <1>2 DEF SeqReturn, Sequential, PoolSize, Spawned, PoolInv, LatchInv, CallerInv, SequentialInv,
              SerialCallbacks, ClaimInv, SettledInv, Busy
<1>3. CASE Join
  <2> USE <1>3 DEF Join, PoolInv, CallerInv, Sequential, PoolSize, Spawned
  <2>1. \A w \in Workers : pc[w] = "done" /\ pc'[w] = pc[w]
    BY DEF TypeOK
  <2>2. LatchInv' /\ CallerInv'
    BY <2>1 DEF LatchInv
  <2>3. SequentialInv' /\ SerialCallbacks' /\ ClaimInv' /\ SettledInv'
    BY <2>1 DEF SequentialInv, SerialCallbacks, ClaimInv, SettledInv, Busy
  <2> QED
    BY <2>2, <2>3
<1> QED
  BY <1>1, <1>2, <1>3 DEF Caller

\* Each step of a worker: first what it does to the program counters and claims
\* (everyone else's stay as they are), then the parts of the invariant.
LEMMA ClaimKeepsPoolInv ==
  ASSUME NEW w \in Workers, TypeOK, PoolInv, Claim(w)
  PROVE  PoolInv'
<1>1. /\ \A v \in Workers \ {w} : pc'[v] = pc[v] /\ idx'[v] = idx[v]
      /\ pc'[w] = IF next >= nJobs THEN "done" ELSE "check"
      /\ idx'[w] = next
      /\ pc'[0] = pc[0]
  BY DEF Claim, TypeOK, Workers
<1>2. pc[0] = "wait" /\ ret = Running
  BY DEF Claim, PoolInv, CallerInv
<1> USE <1>1, <1>2 DEF TypeOK, PoolInv, Jobs
<1>3. LatchInv'
  BY DEF Claim, params, LatchInv, ClaimInv, Busy
<1>4. CallerInv'
  BY DEF Claim, params, CallerInv, Sequential, PoolSize, Spawned
<1>5. SequentialInv'
  BY DEF SequentialInv
<1>6. SerialCallbacks'
  BY DEF Claim, SerialCallbacks, Workers
<1>7. ClaimInv'
  BY DEF Claim, params, ClaimInv, SettledInv, Busy
<1>8. SettledInv'
  <2>1. \A j \in out' : j < next'
    BY DEF Claim, SettledInv, ClaimInv, Busy
  <2>2. ASSUME NEW j \in Jobs', j < next' PROVE Settled(j)'
    <3>1. CASE j = next
      BY <2>2, <3>1 DEF Claim, params, Settled, Busy, LatchInv
    <3>2. CASE j # next
      <4>1. j \in Jobs /\ j < next
        BY <2>2, <3>2 DEF Claim, params
      <4>2. Settled(j)
        BY <4>1 DEF SettledInv
      <4> QED
        BY <4>1, <4>2 DEF Claim, params, Settled, Busy
    <3> QED
      BY <3>1, <3>2
  <2>3. \A v \in Spawned' : pc'[v] = "done" => next' >= nJobs' \/ firstErrIdx' < next'
    BY DEF Claim, params, SettledInv, Spawned, PoolSize, LatchInv, ClaimInv, Busy
  <2> QED
    BY <2>1, <2>2, <2>3 DEF SettledInv
<1> QED
  BY <1>3, <1>4, <1>5, <1>6, <1>7, <1>8

LEMMA CheckKeepsPoolInv ==
  ASSUME NEW w \in Workers, TypeOK, PoolInv, Check(w)
  PROVE  PoolInv'
<1>1. /\ \A v \in Workers \ {w} : pc'[v] = pc[v] /\ idx'[v] = idx[v]
      /\ pc'[w] = IF idx[w] > firstErrIdx THEN "done" ELSE "decode"
      /\ idx'[w] = idx[w]
      /\ pc'[0] = pc[0]
  BY DEF Check, TypeOK, Workers
<1>2. pc[0] = "wait" /\ ret = Running
  BY DEF Check, PoolInv, CallerInv
<1> USE <1>1, <1>2 DEF TypeOK, PoolInv, Jobs
<1>3. LatchInv'
  BY DEF Check, params, LatchInv, ClaimInv, Busy
<1>4. CallerInv'
  BY DEF Check, params, CallerInv, Sequential, PoolSize, Spawned
<1>5. SequentialInv'
  BY DEF SequentialInv
<1>6. SerialCallbacks'
  BY DEF Check, SerialCallbacks, Workers
<1>7. ClaimInv'
  BY DEF Check, params, ClaimInv, Busy
<1>8. SettledInv'
  <2>1. \A j \in out' : j < next'
    BY DEF Check, SettledInv, ClaimInv, Busy
  <2>2. ASSUME NEW j \in Jobs', j < next' PROVE Settled(j)'
    BY <2>2 DEF Check, params, SettledInv, Settled, Busy, LatchInv
  <2>3. \A v \in Spawned' : pc'[v] = "done" => next' >= nJobs' \/ firstErrIdx' < next'
    BY DEF Check, params, SettledInv, Spawned, PoolSize, LatchInv, ClaimInv, Busy
  <2> QED
    BY <2>1, <2>2, <2>3 DEF SettledInv
<1> QED
  BY <1>3, <1>4, <1>5, <1>6, <1>7, <1>8

LEMMA MessageKeepsPoolInv ==
  ASSUME NEW w \in Workers, TypeOK, PoolInv, Message(w)
  PROVE  PoolInv'
<1>1. /\ \A v \in Workers \ {w} : pc'[v] = pc[v] /\ idx'[v] = idx[v]
      /\ pc'[w] = "callback"
      /\ idx'[w] = idx[w]
      /\ pc'[0] = pc[0]
  BY DEF Message, TypeOK, Workers
<1>2. pc[0] = "wait" /\ ret = Running
  BY DEF Message, PoolInv, CallerInv
<1> USE <1>1, <1>2 DEF TypeOK, PoolInv, Jobs
<1>3. LatchInv'
  BY DEF Message, params, LatchInv, ClaimInv, Busy
<1>4. CallerInv'
  BY DEF Message, params, CallerInv, Sequential, PoolSize, Spawned
<1>5. SequentialInv'
  BY DEF SequentialInv
<1>6. SerialCallbacks'
  BY DEF Message, SerialCallbacks, Workers
<1>7. ClaimInv'
  BY DEF Message, params, ClaimInv, Busy
<1>8. SettledInv'
  <2>1. \A j \in out' : j < next'
    BY DEF Message, SettledInv, ClaimInv, Busy
  <2>2. ASSUME NEW j \in Jobs', j < next' PROVE Settled(j)'
    BY <2>2 DEF Message, params, SettledInv, Settled, Busy, LatchInv
  <2>3. \A v \in Spawned' : pc'[v] = "done" => next' >= nJobs' \/ firstErrIdx' < next'
    BY DEF Message, params, SettledInv, Spawned, PoolSize, LatchInv, ClaimInv, Busy
  <2> QED
    BY <2>1, <2>2, <2>3 DEF SettledInv
<1> QED
  BY <1>3, <1>4, <1>5, <1>6, <1>7, <1>8

LEMMA CallbackReturnsKeepsPoolInv ==
  ASSUME NEW w \in Workers, TypeOK, PoolInv, CallbackReturns(w)
  PROVE  PoolInv'
<1>1. /\ \A v \in Workers \ {w} : pc'[v] = pc[v] /\ idx'[v] = idx[v]
      /\ pc'[w] = "warned"
      /\ idx'[w] = idx[w]
      /\ pc'[0] = pc[0]
  BY DEF CallbackReturns, TypeOK, Workers
<1>2. pc[0] = "wait" /\ ret = Running
  BY DEF CallbackReturns, PoolInv, CallerInv
<1> USE <1>1, <1>2 DEF TypeOK, PoolInv, Jobs
<1>3. LatchInv'
  BY DEF CallbackReturns, params, LatchInv, ClaimInv, Busy
<1>4. CallerInv'
  BY DEF CallbackReturns, params, CallerInv, Sequential, PoolSize, Spawned
<1>5. SequentialInv'
  BY DEF SequentialInv
<1>6. SerialCallbacks'
  BY DEF CallbackReturns, SerialCallbacks, Workers
<1>7. ClaimInv'
  BY DEF CallbackReturns, params, ClaimInv, Busy
<1>8. SettledInv'
  <2>1. \A j \in out' : j < next'
    BY DEF CallbackReturns, SettledInv, ClaimInv, Busy
  <2>2. ASSUME NEW j \in Jobs', j < next' PROVE Settled(j)'
    BY <2>2 DEF CallbackReturns, params, SettledInv, Settled, Busy, LatchInv
  <2>3. \A v \in Spawned' : pc'[v] = "done" => next' >= nJobs' \/ firstErrIdx' < next'
    BY DEF CallbackReturns, params, SettledInv, Spawned, PoolSize, LatchInv, ClaimInv, Busy
  <2> QED
    BY <2>1, <2>2, <2>3 DEF SettledInv
<1> QED
  BY <1>3, <1>4, <1>5, <1>6, <1>7, <1>8

LEMMA DecodeKeepsPoolInv ==
  ASSUME NEW w \in Workers, TypeOK, PoolInv, Decode(w)
  PROVE  PoolInv'
<1>1. /\ \A v \in Workers \ {w} : pc'[v] = pc[v] /\ idx'[v] = idx[v]
      /\ pc'[w] = IF idx[w] \in fails THEN "report" ELSE "claim"
      /\ idx'[w] = idx[w]
      /\ pc'[0] = pc[0]
  BY DEF Decode, TypeOK, Workers
<1>2. pc[0] = "wait" /\ ret = Running
  BY DEF Decode, PoolInv, CallerInv
<1> USE <1>1, <1>2 DEF TypeOK, PoolInv, Jobs
<1>3. LatchInv'
  BY DEF Decode, params, LatchInv, ClaimInv, Busy
<1>4. CallerInv'
  BY DEF Decode, params, CallerInv, Sequential, PoolSize, Spawned
<1>5. SequentialInv'
  BY DEF SequentialInv
<1>6. SerialCallbacks'
  BY DEF Decode, SerialCallbacks, Workers
<1>7. ClaimInv'
  BY DEF Decode, params, ClaimInv, Busy
<1>8. SettledInv'
  <2>1. \A j \in out' : j < next'
    BY DEF Decode, SettledInv, ClaimInv, Busy
  <2>2. ASSUME NEW j \in Jobs', j < next' PROVE Settled(j)'
    BY <2>2 DEF Decode, params, SettledInv, Settled, Busy, LatchInv
  <2>3. \A v \in Spawned' : pc'[v] = "done" => next' >= nJobs' \/ firstErrIdx' < next'
    BY DEF Decode, params, SettledInv, Spawned, PoolSize, LatchInv, ClaimInv, Busy
  <2> QED
    BY <2>1, <2>2, <2>3 DEF SettledInv
<1> QED
  BY <1>3, <1>4, <1>5, <1>6, <1>7, <1>8

LEMMA ReportKeepsPoolInv ==
  ASSUME NEW w \in Workers, TypeOK, PoolInv, Report(w)
  PROVE  PoolInv'
<1>1. /\ \A v \in Workers \ {w} : pc'[v] = pc[v] /\ idx'[v] = idx[v]
      /\ pc'[w] = "claim"
      /\ idx'[w] = idx[w]
      /\ pc'[0] = pc[0]
  BY DEF Report, TypeOK, Workers
<1>2. pc[0] = "wait" /\ ret = Running
  BY DEF Report, PoolInv, CallerInv
<1> USE <1>1, <1>2 DEF TypeOK, PoolInv, Jobs
<1>3. LatchInv'
  BY DEF Report, params, LatchInv, ClaimInv, Busy
<1>4. CallerInv'
  BY DEF Report, params, CallerInv, Sequential, PoolSize, Spawned
<1>5. SequentialInv'
  BY DEF SequentialInv
<1>6. SerialCallbacks'
  BY DEF Report, SerialCallbacks, Workers
<1>7. ClaimInv'
  BY DEF Report, params, ClaimInv, Busy
<1>8. SettledInv'
  <2>1. \A j \in out' : j < next'
    BY DEF Report, SettledInv, ClaimInv, Busy
  <2>2. ASSUME NEW j \in Jobs', j < next' PROVE Settled(j)'
    <3>1. j \in Jobs /\ j \in Int /\ next' = next /\ out' = out /\ fails' = fails
      BY DEF Report, params
    <3>2. /\ firstErrIdx' \in Int /\ firstErrIdx \in Int
          /\ firstErrIdx' <= firstErrIdx /\ firstErrIdx' <= idx[w]
      BY DEF Report, LatchInv
    <3>3. CASE j = idx[w]
      BY <3>1, <3>2, <3>3 DEF Report, ClaimInv, Busy, Settled
    <3>4. CASE j # idx[w]
      <4>1. Settled(j)
        BY <2>2, <3>1 DEF SettledInv
      <4>2. CASE \E v \in Busy : idx[v] = j
        BY <3>4, <4>2 DEF Busy, Settled
      <4>3. CASE j \in out /\ (j \in fails => firstErrIdx <= j)
        BY <3>1, <3>2, <4>3 DEF Settled
      <4>4. CASE firstErrIdx < j
        BY <3>1, <3>2, <4>4 DEF Settled
      <4> QED
        BY <4>1, <4>2, <4>3, <4>4 DEF Settled
    <3> QED
      BY <3>3, <3>4
  <2>3. \A v \in Spawned' : pc'[v] = "done" => next' >= nJobs' \/ firstErrIdx' < next'
    BY DEF Report, params, SettledInv, Spawned, PoolSize, LatchInv, ClaimInv, Busy
  <2> QED
    BY <2>1, <2>2, <2>3 DEF SettledInv
<1> QED
  BY <1>3, <1>4, <1>5, <1>6, <1>7, <1>8

\* The conjunction of what runT1Jobs relies on holds in every reachable state.
THEOREM PoolInvariant == Spec => []PoolInv
<1>1. TypeOK /\ PoolInv /\ [Next]_vars => PoolInv'
  <2> SUFFICES ASSUME TypeOK, PoolInv, [Next]_vars PROVE PoolInv'
    OBVIOUS
  <2>1. CASE Caller
    BY <2>1, CallerKeepsPoolInv
  <2>2. ASSUME NEW w \in Workers, Step(w) PROVE PoolInv'
    BY <2>2, ClaimKeepsPoolInv, CheckKeepsPoolInv, MessageKeepsPoolInv,
       CallbackReturnsKeepsPoolInv, DecodeKeepsPoolInv, ReportKeepsPoolInv DEF Step
  <2>3. CASE UNCHANGED vars
    BY <2>3 DEF vars, PoolInv, LatchInv, CallerInv, SequentialInv, Sequential,
       PoolSize, SerialCallbacks, ClaimInv, SettledInv, Settled, Busy, Spawned, Jobs
  <2> QED
    BY <2>1, <2>2, <2>3 DEF Next
<1> QED
  BY <1>1, PoolInvInit, TypeCorrect, PTL DEF Spec

\* No two goroutines work on one code-block, and none on a decoded one.
THEOREM PoolDisjointBlocks == Spec => []DisjointBlocks
<1>1. TypeOK /\ PoolInv => DisjointBlocks
  BY DEF TypeOK, PoolInv, ClaimInv, DisjointBlocks, Busy, InBlock
<1> QED
  BY <1>1, TypeCorrect, PoolInvariant, PTL

\* The user's event handlers never run in two goroutines at once.
THEOREM PoolSerialCallbacks == Spec => []SerialCallbacks
<1>1. PoolInv => SerialCallbacks
  BY DEF PoolInv
<1> QED
  BY <1>1, PoolInvariant, PTL

-------------------------------------------------------------------------------
\* When the last goroutine has returned, the latch is the outcome of the
\* sequential loop and every block before it has been decoded.
LEMMA JoinOutcome ==
  ASSUME TypeOK, PoolInv, Join
  PROVE  /\ Contract!IsOutcome(firstErrIdx)
         /\ Contract!Covered(firstErrIdx)
<1> USE DEF TypeOK, PoolInv, Jobs
<1>1. pc[0] = "wait" /\ Busy = {}
  BY DEF Join, CallerInv, Busy
<1>2. PICK w \in Spawned : pc[w] = "done"
  BY <1>1 DEF Join, CallerInv, Sequential, PoolSize, Spawned, Workers
<1>3. next >= nJobs \/ firstErrIdx < next
  BY <1>1, <1>2 DEF SettledInv
<1>4. ASSUME NEW j \in Jobs, j <= firstErrIdx
      PROVE  j \in out /\ (j \in fails => firstErrIdx <= j)
  <2>1. j < next
    BY <1>3, <1>4 DEF LatchInv
  <2>2. Settled(j)
    BY <1>1, <2>1 DEF SettledInv
  <2> QED
    BY <1>1, <1>4, <2>2 DEF Settled, LatchInv
<1>5. \A f \in fails : firstErrIdx <= f
  BY <1>4 DEF LatchInv
<1> QED
  BY <1>4, <1>5 DEF LatchInv, Contract!IsOutcome, Contract!Covered, Contract!Jobs

\* The pool implements the contract of runT1Jobs: in every interleaving of any
\* number of goroutines, each block is decoded at most once and the error
\* returned is the one the sequential loop would have returned.
THEOREM PoolImplementsContract == Spec => ImplementsContract
<1>1. Init => Contract!Init
  BY DEF Init, Contract!Init, Jobs, Contract!Jobs
<1>2. TypeOK /\ PoolInv /\ [Next]_vars => [Contract!Next]_(Contract!vars)
  <2> SUFFICES ASSUME TypeOK, PoolInv, [Next]_vars
               PROVE  [Contract!Next]_(Contract!vars)
    OBVIOUS
  <2> USE DEF Contract!vars, params
  <2>1. CASE SeqDecode
    <3>1. Contract!Decode(next) /\ next \in Contract!Jobs
      BY <2>1 DEF SeqDecode, Contract!Decode, Contract!Jobs, TypeOK, PoolInv,
         CallerInv, SequentialInv
    <3> QED
      BY <3>1 DEF Contract!Next
  <2>2. CASE SeqReturn
    <3> DEFINE r == IF pc[0] = "failed" THEN next ELSE nJobs
    <3>1. r \in 0 .. nJobs /\ Contract!IsOutcome(r)
      BY <2>2 DEF SeqReturn, TypeOK, PoolInv, SequentialInv, Jobs, Contract!IsOutcome
    <3>2. Contract!Covered(r)
      BY <2>2 DEF SeqReturn, TypeOK, PoolInv, SequentialInv, Jobs,
         Contract!Covered, Contract!Jobs
    <3>3. Contract!Return(r)
      BY <2>2, <3>1, <3>2 DEF SeqReturn, PoolInv, CallerInv, Contract!Return
    <3> QED
      BY <3>1, <3>3 DEF Contract!Next
  <2>3. CASE Join
    <3>1. Contract!Return(firstErrIdx)
      BY <2>3, JoinOutcome DEF Join, PoolInv, CallerInv, Contract!Return
    <3>2. firstErrIdx \in 0 .. nJobs
      BY DEF TypeOK, PoolInv, LatchInv, Jobs
    <3> QED
      BY <3>1, <3>2 DEF Contract!Next
  <2>4. ASSUME NEW w \in Workers, Decode(w) PROVE Contract!Next
    <3>1. Contract!Decode(idx[w]) /\ idx[w] \in Contract!Jobs
      BY <2>4 DEF Decode, Contract!Decode, Contract!Jobs, Jobs, PoolInv, CallerInv,
         ClaimInv, Busy
    <3> QED
      BY <3>1 DEF Contract!Next
  <2>5. ASSUME NEW w \in Workers, Step(w), ~Decode(w) PROVE UNCHANGED Contract!vars
    BY <2>5 DEF Step, Claim, Check, Message, CallbackReturns, Report
  <2>6. CASE UNCHANGED vars
    BY <2>6 DEF vars
  <2> QED
    BY <2>1, <2>2, <2>3, <2>4, <2>5, <2>6 DEF Next, Caller
<1> QED
  BY <1>1, <1>2, TypeCorrect, PoolInvariant, PTL
     DEF Spec, ImplementsContract, Contract!Spec

===============================================================================
