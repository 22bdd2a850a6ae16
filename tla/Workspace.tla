------------------------------ MODULE Workspace ------------------------------
(***************************************************************************)
(* What every component of a workspace shares: the operating-system        *)
(* processes that open it (app/workspace/locks.py), the persisted          *)
(* maintenance flag (table maintenance_state) and the crash-released OS    *)
(* lock .maintenance.lock (app/maintenance/barrier.py).                    *)
(*                                                                         *)
(* A process is identified by the token process_owner() creates for it:    *)
(* one life, never reused.  Its token lock is held exactly while the       *)
(* process is up, so owner_alive() is a test of `proc'.                    *)
(***************************************************************************)
CONSTANTS
  Procs,       \* process tokens ("proc:<uuid>")
  NoProc,      \* SQL NULL in an owner column, and "nobody holds the lock"
  LegacyOwner  \* an owner written by a release that had no process tokens

ASSUME OwnersAssumption ==
  /\ NoProc \notin Procs
  /\ LegacyOwner \notin Procs
  /\ NoProc # LegacyOwner

VARIABLES
  proc,    \* proc[p]: "new" (not started), "up", or "down" (exited or crashed)
  flag,    \* maintenance_state.active, persisted
  holder,  \* the process whose barrier holds .maintenance.lock, or NoProc
  phase    \* how far that process is in enter() / leave()

workspaceVars == <<proc, flag, holder, phase>>

Owners == Procs \cup {NoProc, LegacyOwner}

Phases == {"idle", "acquired", "recovered", "active", "leaving"}

WorkspaceTypeOK ==
  /\ proc \in [Procs -> {"new", "up", "down"}]
  /\ flag \in BOOLEAN
  /\ holder \in Procs \cup {NoProc}
  /\ phase \in Phases

(***************************************************************************)
(* owner_alive() is True, False or None; the code tests "is False"         *)
(* (a known dead owner) and "is None" (no recoverable ownership: NULL or   *)
(* a legacy value).                                                        *)
(***************************************************************************)
OwnerAlive(o) == o \in Procs /\ proc[o] = "up"
OwnerDead(o)  == o \in Procs /\ proc[o] # "up"
OwnerUnknown(o) == o \notin Procs

(***************************************************************************)
(* maintenance_active(): the flag counts only while a live process holds   *)
(* the lock.  A caller that is let through clears a stale flag in its own  *)
(* transaction; a caller that then raises rolls the clearing back.         *)
(***************************************************************************)
MaintenanceActive == flag /\ holder # NoProc

\* Mutant: any flag is taken for a stale one.
FlagIsAlwaysStale == flag' = FALSE

NotUnderMaintenance ==
  /\ ~MaintenanceActive
  /\ flag' = FALSE
=============================================================================
