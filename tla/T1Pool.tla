-------------------------------- MODULE T1Pool --------------------------------
(***************************************************************************)
(* The tier-1 worker pool of internal/tcd/t1.go: (t *TCD).runT1Jobs fans    *)
(* the code-blocks of a tile over up to NumThreads goroutines.  The workers *)
(* share an atomic job counter (next), the first-error latch                *)
(* (firstErrIdx, firstErr) guarded by the mutex mu, and the caller's event  *)
(* handlers, which lockingManager wraps in the same mutex.                  *)
(*                                                                          *)
(* A worker's program counter:                                              *)
(*   "claim"    about to do atomic.AddInt64(&next, 1)                       *)
(*   "check"    about to read firstErrIdx under mu                          *)
(*   "decode"   in t1DecodeBlock                                            *)
(*   "callback" in an event handler called from t1DecodeBlock, mu held      *)
(*   "warned"   back in t1DecodeBlock, after that handler                   *)
(*   "report"   t1DecodeBlock failed, about to update the latch under mu    *)
(*   "done"     the goroutine has returned                                  *)
(* Process 0 is the caller: it runs the loop itself when one worker is      *)
(* enough ("seq", "failed"), or waits for the goroutines ("wait"), and then *)
(* it has "returned".                                                       *)
(***************************************************************************)
EXTENDS Integers, FiniteSets

CONSTANTS
    MaxJobs,        \* bound on len(jobs)
    MaxThreads,     \* bound on t.NumThreads
    Running         \* ret before runT1Jobs has returned

ASSUME BoundsAssumption ==
    /\ MaxJobs \in Nat
    /\ MaxThreads \in Nat \ {0}
    /\ Running \notin Nat

VARIABLES
    nJobs,          \* len(jobs)
    threads,        \* t.NumThreads
    fails,          \* the jobs whose t1DecodeBlock returns an error
    next,           \* the atomic counter
    firstErrIdx,    \* the latch: an index of a failed job, or len(jobs)
    mu,             \* the holder of the mutex during a callback, or 0
    pc, idx,        \* of each worker: program counter and claimed job
    out,            \* the jobs t1DecodeBlock has run on to the end
    ret             \* what runT1Jobs returned: an index, nJobs for nil

params == <<nJobs, threads, fails>>
vars == <<nJobs, threads, fails, next, firstErrIdx, mu, pc, idx, out, ret>>

Workers == 1 .. MaxThreads
Jobs == 0 .. nJobs - 1

\* n: t.NumThreads clamped to 1 .. len(jobs) (n < 1 becomes 1 first).
PoolSize == IF threads > nJobs THEN nJobs ELSE threads

Sequential == PoolSize <= 1
Spawned == {w \in Workers : w <= PoolSize}

Init ==
    /\ nJobs \in 0 .. MaxJobs
    /\ threads \in 0 .. MaxThreads
    /\ fails \in SUBSET Jobs
    /\ next = 0
    /\ firstErrIdx = nJobs
    /\ mu = 0
    /\ pc = [w \in 0 .. MaxThreads |->
                IF w = 0 THEN (IF Sequential THEN "seq" ELSE "wait")
                ELSE IF ~Sequential /\ w \in Spawned THEN "claim" ELSE "done"]
    /\ idx = [w \in Workers |-> 0]
    /\ out = {}
    /\ ret = Running

-------------------------------------------------------------------------------
\* n <= 1: the caller decodes block after block and stops at the first error.

SeqDecode ==
    /\ pc[0] = "seq"
    /\ next < nJobs
    /\ out' = out \union {next}
    /\ IF next \in fails
         THEN /\ pc' = [pc EXCEPT ![0] = "failed"]
              /\ UNCHANGED next
         ELSE /\ next' = next + 1
              /\ UNCHANGED pc
    /\ UNCHANGED <<params, firstErrIdx, mu, idx, ret>>

\* return err at the first failure, return nil after the last block
SeqReturn ==
    /\ \/ pc[0] = "failed"
       \/ pc[0] = "seq" /\ next >= nJobs
    /\ ret' = IF pc[0] = "failed" THEN next ELSE nJobs
    /\ pc' = [pc EXCEPT ![0] = "returned"]
    /\ UNCHANGED <<params, next, firstErrIdx, mu, idx, out>>

-------------------------------------------------------------------------------
\* The goroutines.

\* Mutant: a counter that is loaded and stored without being atomic, so that an
\* increment can be lost.
ClaimNotAtomic(w) ==
    /\ pc[w] = "claim"
    /\ idx' = [idx EXCEPT ![w] = next]
    /\ next' \in {next, next + 1}
    /\ pc' = [pc EXCEPT ![w] = IF next >= nJobs THEN "done" ELSE "check"]
    /\ UNCHANGED <<params, firstErrIdx, mu, out, ret>>

\* idx := int(atomic.AddInt64(&next, 1)) - 1; if idx >= len(jobs) return
Claim(w) ==
    /\ pc[w] = "claim"
    /\ idx' = [idx EXCEPT ![w] = next]
    /\ next' = next + 1
    /\ pc' = [pc EXCEPT ![w] = IF next >= nJobs THEN "done" ELSE "check"]
    /\ UNCHANGED <<params, firstErrIdx, mu, out, ret>>

\* Under mu: stop := idx > firstErrIdx; if stop return
Check(w) ==
    /\ pc[w] = "check"
    /\ mu = 0
    /\ pc' = [pc EXCEPT ![w] = IF idx[w] > firstErrIdx THEN "done" ELSE "decode"]
    /\ UNCHANGED <<params, next, firstErrIdx, mu, idx, out, ret>>

\* Mutant: handlers that are not wrapped by lockingManager.
MessageUnlocked(w) ==
    /\ pc[w] = "decode"
    /\ mu' = w
    /\ pc' = [pc EXCEPT ![w] = "callback"]
    /\ UNCHANGED <<params, next, firstErrIdx, idx, out, ret>>

\* t1DecodeBlock reports through the wrapped handler, which takes mu and keeps
\* it while the user's callback runs.  One message for each block is enough to
\* interleave the callback with everything else.
Message(w) ==
    /\ pc[w] = "decode"
    /\ mu = 0
    /\ mu' = w
    /\ pc' = [pc EXCEPT ![w] = "callback"]
    /\ UNCHANGED <<params, next, firstErrIdx, idx, out, ret>>

\* Mutant: the wrapper forgets to release mu.
CallbackKeepsLock(w) ==
    /\ pc[w] = "callback"
    /\ pc' = [pc EXCEPT ![w] = "warned"]
    /\ UNCHANGED <<params, next, firstErrIdx, mu, idx, out, ret>>

CallbackReturns(w) ==
    /\ pc[w] = "callback"
    /\ mu' = 0
    /\ pc' = [pc EXCEPT ![w] = "warned"]
    /\ UNCHANGED <<params, next, firstErrIdx, idx, out, ret>>

\* t1DecodeBlock ends.  mu is not held here.
Decode(w) ==
    /\ pc[w] \in {"decode", "warned"}
    /\ out' = out \union {idx[w]}
    /\ pc' = [pc EXCEPT ![w] = IF idx[w] \in fails THEN "report" ELSE "claim"]
    /\ UNCHANGED <<params, next, firstErrIdx, mu, idx, ret>>

\* Mutant: the last error to arrive wins.
ReportLast(w) ==
    /\ pc[w] = "report"
    /\ mu = 0
    /\ firstErrIdx' = idx[w]
    /\ pc' = [pc EXCEPT ![w] = "claim"]
    /\ UNCHANGED <<params, next, mu, idx, out, ret>>

\* Under mu: if idx < firstErrIdx { firstErrIdx = idx; firstErr = err }
Report(w) ==
    /\ pc[w] = "report"
    /\ mu = 0
    /\ firstErrIdx' = IF idx[w] < firstErrIdx THEN idx[w] ELSE firstErrIdx
    /\ pc' = [pc EXCEPT ![w] = "claim"]
    /\ UNCHANGED <<params, next, mu, idx, out, ret>>

\* wg.Wait(); return firstErr
Join ==
    /\ pc[0] = "wait"
    /\ \A w \in Spawned : pc[w] = "done"
    /\ ret' = firstErrIdx
    /\ pc' = [pc EXCEPT ![0] = "returned"]
    /\ UNCHANGED <<params, next, firstErrIdx, mu, idx, out>>

Step(w) == \/ Claim(w)
           \/ Check(w)
           \/ Message(w)
           \/ CallbackReturns(w)
           \/ Decode(w)
           \/ Report(w)

Caller == SeqDecode \/ SeqReturn \/ Join

Next == Caller \/ \E w \in Workers : Step(w)

Spec == Init /\ [][Next]_vars

\* The Go scheduler runs every runnable goroutine, and sync.Mutex hands the lock
\* to a waiter after at most a millisecond (starvation mode), so a worker that
\* waits for mu gets it even when others take it again and again.
Fairness ==
    /\ WF_vars(Caller)
    /\ \A w \in Workers : /\ WF_vars(Claim(w) \/ CallbackReturns(w) \/ Decode(w))
                          /\ SF_vars(Check(w))
                          /\ SF_vars(Report(w))

FairSpec == Spec /\ Fairness

-------------------------------------------------------------------------------
Busy == {w \in Workers : pc[w] \in {"check", "decode", "callback", "warned", "report"}}
InBlock == {w \in Workers : pc[w] \in {"decode", "callback", "warned"}}

\* Every variable has its type.
TypeOK ==
    /\ nJobs \in 0 .. MaxJobs
    /\ threads \in 0 .. MaxThreads
    /\ fails \in SUBSET Jobs
    /\ next \in Nat
    /\ firstErrIdx \in Nat
    /\ mu \in 0 .. MaxThreads
    /\ pc \in [0 .. MaxThreads -> {"seq", "failed", "wait", "returned", "claim",
                            "check", "decode", "callback", "warned", "report", "done"}]
    /\ idx \in [Workers -> Nat]
    /\ out \in SUBSET Nat
    /\ ret \in Nat \union {Running}

\* Two goroutines are never in t1DecodeBlock on one code-block, and none is
\* there on a block that has already been decoded: each output region of
\* tilec.Data is written once, by one goroutine ("every job writes to a
\* disjoint output region").
DisjointBlocks ==
    \A w \in InBlock :
        /\ idx[w] \in Jobs \ out
        /\ \A v \in InBlock \ {w} : idx[v] # idx[w]

\* At most one goroutine is in the user's event callback, and while it is there
\* it is the holder of mu ("so concurrent warnings/errors don't race the user
\* callback").
SerialCallbacks ==
    \A w \in Workers : pc[w] = "callback" <=> mu = w

\* What a claimed job has come to: still in the hands of a worker, decoded (and
\* then its failure, if any, is in the latch), or given up because a job before
\* it had failed.
Settled(j) ==
    \/ \E w \in Busy : idx[w] = j
    \/ j \in out /\ (j \in fails => firstErrIdx <= j)
    \/ firstErrIdx < j

\* The latch names a job that failed, or none.
LatchInv == /\ firstErrIdx \in fails \union {nJobs}
            /\ out \subseteq Jobs

\* The caller is in one of its own states, the workers in theirs, and workers
\* run only while the caller waits for them.
CallerInv ==
    /\ pc[0] \in {"seq", "failed", "wait", "returned"}
    /\ \A w \in Workers : pc[w] \notin {"seq", "failed", "wait", "returned"}
    /\ \A w \in Workers \ Spawned : pc[w] = "done"
    /\ pc[0] = "wait" => ~Sequential
    /\ pc[0] # "wait" => \A w \in Workers : pc[w] = "done"
    /\ (ret = Running) <=> (pc[0] # "returned")

\* The sequential loop has decoded exactly the blocks before next.
SequentialInv ==
    /\ pc[0] = "seq" => /\ next <= nJobs
                        /\ out = 0 .. next - 1
                        /\ fails \intersect out = {}
    /\ pc[0] = "failed" => /\ next \in fails
                           /\ out = 0 .. next
                           /\ fails \intersect (0 .. next - 1) = {}

\* A claimed job has one worker, which decodes it once.
ClaimInv ==
    \A w \in Busy : /\ idx[w] < next
                    /\ idx[w] \in Jobs
                    /\ IF pc[w] = "report" THEN idx[w] \in fails \intersect out
                                           ELSE idx[w] \notin out
                    /\ \A v \in Busy \ {w} : idx[v] # idx[w]

\* No claimed job is lost, and a goroutine returns only when the counter has
\* passed the end of the list or the latch.
SettledInv ==
    pc[0] = "wait" =>
        /\ \A j \in out : j < next
        /\ \A j \in Jobs : j < next => Settled(j)
        /\ \A w \in Spawned : pc[w] = "done" =>
               next >= nJobs \/ firstErrIdx < next

\* The inductive strengthening of the pool's safety properties.
PoolInv == /\ LatchInv
           /\ CallerInv
           /\ SequentialInv
           /\ SerialCallbacks
           /\ ClaimInv
           /\ SettledInv

Contract == INSTANCE T1Contract

\* Whatever the interleaving, the pool is an implementation of the sequential
\* contract: no block twice, and the error of the lowest failing job.
ImplementsContract == Contract!Spec

\* runT1Jobs returns: no schedule of the workers, the latch and the callbacks
\* keeps wg.Wait from ending.
Terminates == <>(ret # Running)

===============================================================================
