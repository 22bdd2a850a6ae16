----------------------------- MODULE AtomicUpgrade -----------------------------
(***************************************************************************)
(* What a schema upgrade promises to whoever opens the workspace: the old  *)
(* pair of databases, the new pair, or a refusal - never a mixture, and    *)
(* never the old pair again once the new one has been decided.             *)
(***************************************************************************)
VARIABLES
  face,     \* what opening the workspace finds: "old", "blocked" or "new"
  decided   \* the upgrade has passed its commit point

upgradeVars == <<face, decided>>

Init == face = "old" /\ decided = FALSE

Block   == face # "blocked" /\ face' = "blocked" /\ UNCHANGED decided
Decide  == face = "blocked" /\ decided' = TRUE /\ UNCHANGED face
Unblock == face = "blocked" /\ face' = (IF decided THEN "new" ELSE "old")
                            /\ UNCHANGED decided

Next == Block \/ Decide \/ Unblock

Safety == Init /\ [][Next]_upgradeVars

\* A blocked workspace is eventually opened again.
Spec == Safety /\ []<>(face # "blocked")
=============================================================================
