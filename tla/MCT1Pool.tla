------------------------------- MODULE MCT1Pool -------------------------------
(***************************************************************************)
(* The worker pool on small job lists.  Every length up to MCMaxJobs, every *)
(* number of threads up to MCMaxThreads and every set of failing blocks is  *)
(* an initial state, so one run covers the sequential path, pools larger    *)
(* and smaller than the job list, and every pattern of errors.              *)
(***************************************************************************)
EXTENDS T1Pool

MCMaxJobs == 3
MCMaxThreads == 3

===============================================================================
