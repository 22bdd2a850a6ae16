------------------------------- MODULE MCLedger -------------------------------
(* The spend ledger and the processes that use it, with no maintenance:    *)
(* the barrier's own steps are the subject of MCBarrier.                   *)
EXTENDS MaintenanceBarrier, TLC

CONSTANTS a1, a2, o1, o2

NoJobs == [j \in Jobs |-> "none"]

LedgerOnly ==
  \/ LedgerNext /\ UNCHANGED jobVars
  \/ \E p \in Procs : Start(p) \/ Stop(p)

LedgerSpec == Init /\ [][LedgerOnly]_vars

Symmetry ==
  Permutations(Procs) \cup Permutations({a1, a2}) \cup Permutations({o1, o2})
=============================================================================
