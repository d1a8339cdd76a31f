------------------------------- MODULE MCJobs -------------------------------
(* Jobs on a small instance.                                                 *)
EXTENDS Jobs, TLC

WorkerSymmetry == Permutations(Workers)
Symmetry == WorkerSymmetry \cup Permutations(Moments)

\* "Nothing would be more than five minutes late", crashes included: a job
\* that is queued ends, one way or the other (jobs/drain/route.ts).
EveryJobEnds == \A j \in Job : status[j] = "pending" ~> status[j] \in Ended
=============================================================================
