------------------------------ MODULE T1Contract ------------------------------
(***************************************************************************)
(* What (t *TCD).runT1Jobs promises its caller, whatever the number of      *)
(* goroutines: it decodes each code-block of the job list at most once, and *)
(* it returns the outcome of the sequential loop.  The comment above the    *)
(* function says "the result is identical to the sequential decode" and     *)
(* "the error of the lowest-indexed failing job wins".                      *)
(***************************************************************************)
EXTENDS Integers, FiniteSets

CONSTANT Running        \* the value of ret while runT1Jobs has not returned

VARIABLES
    nJobs,      \* len(jobs)
    fails,      \* the jobs whose t1DecodeBlock returns an error
    out,        \* the jobs t1DecodeBlock has been run on
    ret         \* Running, nJobs for a nil error, or the index of the error

vars == <<nJobs, fails, out, ret>>

Jobs == 0 .. nJobs - 1

\* The outcome of the sequential loop: the first failing job, or nil.
IsOutcome(r) ==
    /\ r \in fails \union {nJobs}
    /\ \A f \in fails : r <= f

\* What must have been decoded before the outcome r may be reported: every
\* block the sequential loop would have decoded.
Covered(r) == \A j \in Jobs : j <= r => j \in out

Init ==
    /\ nJobs \in Nat
    /\ fails \in SUBSET Jobs
    /\ out = {}
    /\ ret = Running

Decode(j) ==
    /\ ret = Running
    /\ j \notin out
    /\ out' = out \union {j}
    /\ UNCHANGED <<nJobs, fails, ret>>

Return(r) ==
    /\ ret = Running
    /\ IsOutcome(r)
    /\ Covered(r)
    /\ ret' = r
    /\ UNCHANGED <<nJobs, fails, out>>

Next == \/ \E j \in Jobs : Decode(j)
        \/ \E r \in 0 .. nJobs : Return(r)

Spec == Init /\ [][Next]_vars

===============================================================================
