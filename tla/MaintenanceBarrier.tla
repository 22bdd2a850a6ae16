-------------------------- MODULE MaintenanceBarrier --------------------------
(***************************************************************************)
(* The workspace as its processes see it: the job table, the spend ledger  *)
(* and the maintenance barrier (app/maintenance/barrier.py) that backup,   *)
(* retention and migration raise around their database snapshots.          *)
(*                                                                         *)
(* enter() is four steps, each visible to the other processes: take the OS *)
(* lock, recover interrupted jobs, then in one transaction refuse or raise *)
(* the flag; leave() is two, clear the flag and release the lock.  A crash *)
(* between any two releases the lock and leaves the flag as it is.         *)
(***************************************************************************)
EXTENDS JobService, UsageLedger

vars == <<workspaceVars, jobVars, ledgerVars>>

TypeOK ==
  /\ WorkspaceTypeOK
  /\ JobTypeOK
  /\ LedgerTypeOK

Init ==
  /\ proc = [p \in Procs |-> "new"]
  /\ flag \in BOOLEAN
  /\ holder = NoProc
  /\ phase = "idle"
  /\ flag => LegacyJobs = {} /\ LegacyAttempts = {}
  /\ JobInit
  /\ LedgerInit

-----------------------------------------------------------------------------
\* process_owner: the first use of the workspace takes the token's lock.
Start(p) ==
  /\ proc[p] = "new"
  /\ proc' = [proc EXCEPT ![p] = "up"]
  /\ UNCHANGED <<flag, holder, phase, jobVars, ledgerVars>>

\* Exit or crash: the OS drops the token's lock and the maintenance lock.
Stop(p) ==
  /\ proc[p] = "up"
  /\ proc' = [proc EXCEPT ![p] = "down"]
  /\ IF holder = p
     THEN holder' = NoProc /\ phase' = "idle"
     ELSE UNCHANGED <<holder, phase>>
  /\ UNCHANGED <<flag, jobVars, ledgerVars>>

-----------------------------------------------------------------------------
AtPhase(p, ph) == proc[p] = "up" /\ holder = p /\ phase = ph

AcquireLock(p) ==
  /\ proc[p] = "up"
  /\ holder = NoProc
  /\ holder' = p
  /\ phase' = "acquired"
  /\ UNCHANGED <<proc, flag, jobVars, ledgerVars>>

RecoverBeforeEntry(p) ==
  /\ AtPhase(p, "acquired")
  /\ job' = Recovered
  /\ phase' = "recovered"
  /\ UNCHANGED <<proc, flag, holder, used, ledgerVars>>

JobsBlock == \E j \in Jobs : job[j].state \in BlockingStates
CallsBlock == TakenSlots(RecoveredSlots) # {}

\* Mutant: the flag is raised on the strength of the recovery alone.
RaiseFlagWithoutChecking(p) ==
  /\ AtPhase(p, "recovered")
  /\ ~CallsBlock
  /\ log' = RecoveredLog
  /\ slot' = RecoveredSlots
  /\ flag' = TRUE
  /\ phase' = "active"
  /\ UNCHANGED <<proc, holder, jobVars, month>>

RaiseFlag(p) ==
  /\ AtPhase(p, "recovered")
  /\ ~JobsBlock
  /\ ~CallsBlock
  /\ log' = RecoveredLog
  /\ slot' = RecoveredSlots
  /\ flag' = TRUE
  /\ phase' = "active"
  /\ UNCHANGED <<proc, holder, jobVars, month>>

\* "Pause or finish active jobs" / "Finish active provider calls": the
\* transaction is rolled back and the lock released.
RefuseEntry(p) ==
  /\ AtPhase(p, "recovered")
  /\ JobsBlock \/ CallsBlock
  /\ holder' = NoProc
  /\ phase' = "idle"
  /\ UNCHANGED <<proc, flag, jobVars, ledgerVars>>

\* leave(): clear the flag, then release; if clearing fails the lock is
\* released all the same and the flag stays behind.
ClearFlag(p) ==
  /\ AtPhase(p, "active")
  /\ \/ flag' = FALSE
     \/ UNCHANGED flag
  /\ phase' = "leaving"
  /\ UNCHANGED <<proc, holder, jobVars, ledgerVars>>

ReleaseLock(p) ==
  /\ AtPhase(p, "leaving")
  /\ holder' = NoProc
  /\ phase' = "idle"
  /\ UNCHANGED <<proc, flag, jobVars, ledgerVars>>

BarrierNext ==
  \E p \in Procs :
    \/ Start(p) \/ Stop(p)
    \/ AcquireLock(p) \/ RecoverBeforeEntry(p)
    \/ RaiseFlag(p) \/ RefuseEntry(p)
    \/ ClearFlag(p) \/ ReleaseLock(p)

Next ==
  \/ JobNext /\ UNCHANGED ledgerVars
  \/ LedgerNext /\ UNCHANGED jobVars
  \/ BarrierNext

Spec == Init /\ [][Next]_vars

-----------------------------------------------------------------------------
(***************************************************************************)
(* Maintenance has the databases to itself: while the flag is up no job is *)
(* queued, running or being cancelled and no paid call is in flight, so a  *)
(* snapshot never catches work in progress.  It must survive a barrier     *)
(* that crashes with the flag up, a stale flag found by another process, a *)
(* second barrier, and jobs created between the recovery and the check     *)
(* (barrier.py:38-68, 11-30).                                              *)
(***************************************************************************)
MaintenanceIsExclusive ==
  flag => /\ \A j \in Jobs : job[j].state \notin BlockingStates
          /\ \A a \in Attempts : slot[a] = "none"

(***************************************************************************)
(* Paused work is frozen during maintenance: between the step that raises  *)
(* the flag and the step that clears it no job row and no charge changes,  *)
(* except that an uncertain charge may be corrected (barrier.py:38-81).    *)
(***************************************************************************)
FrozenUnderMaintenance ==
  [][flag /\ phase = "active" /\ flag' /\ phase' = "active" =>
       /\ job' = job
       /\ slot' = slot
       /\ \A a \in Attempts :
            log'[a] # log[a] => log'[a][Len(log'[a])].type = "correction"]_vars

(***************************************************************************)
(* A live barrier is never undone by anybody else: from the moment enter() *)
(* returns until its own leave(), the holder is alive and the flag is up,  *)
(* although every admission check of every process may clear a flag it     *)
(* believes stale (barrier.py:16-30).                                      *)
(***************************************************************************)
BarrierStands ==
  /\ holder # NoProc => proc[holder] = "up"
  /\ holder = NoProc <=> phase = "idle"
  /\ phase = "active" => flag
=============================================================================
