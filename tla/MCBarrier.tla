------------------------------- MODULE MCBarrier -------------------------------
(* Small instances of the workspace for TLC. *)
EXTENDS MaintenanceBarrier, TLC

CONSTANTS j1, j2

\* Jobs j1 and j2 compete for a target; any other job has one of its own.
JobTargets == [j \in Jobs |-> IF j \in {j1, j2} THEN "t1" ELSE "t2"]

JobSymmetry == Permutations(Procs) \cup Permutations(Workers)
=============================================================================
