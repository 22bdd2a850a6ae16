----------------------------- MODULE BarrierProofs -----------------------------
(***************************************************************************)
(* Proofs about the workspace: the job table, the maintenance barrier and  *)
(* the spend ledger, for any number of processes, jobs, workers, attempts, *)
(* operations, amounts and months.                                         *)
(*                                                                         *)
(* The invariant of the table and the barrier is the conjunction of the    *)
(* types the steps rely on and the four properties the runs check.  The    *)
(* ledger's says what the history of an attempt looks like event by event, *)
(* from which its status and its lease follow; and the budgets' adds up    *)
(* what the admitted attempts may still cost.                              *)
(***************************************************************************)
EXTENDS MaintenanceBarrier, SumLemmas

(***************************************************************************)
(* The job table and the barrier.                                          *)
(***************************************************************************)
SlotTypeOK == slot \in [Attempts -> {"none", "fresh", "lapsed"}]

Inv ==
  /\ WorkspaceTypeOK
  /\ JobTypeOK
  /\ SlotTypeOK
  /\ OneActivePerTarget
  /\ LeaseFencing
  /\ MaintenanceIsExclusive
  /\ BarrierStands

-----------------------------------------------------------------------------
\* The initial table of an older release satisfies everything.
LEMMA InitInv == Init => Inv
<1> SUFFICES ASSUME Init PROVE Inv
  OBVIOUS
<1> USE OwnersAssumption, JobsAssumption, LedgerAssumption
<1>1. WorkspaceTypeOK
  BY DEF Init, WorkspaceTypeOK, Phases
<1>2. PICK r \in [LegacyJobs -> LegacyRows] :
        job = [j \in Jobs |-> IF j \in LegacyJobs THEN r[j] ELSE AbsentRow]
  BY DEF Init, JobInit
<1>3. \A j \in Jobs : job[j] = IF j \in LegacyJobs THEN r[j] ELSE AbsentRow
  BY <1>2
<1>4. LegacyRows \subseteq Row /\ AbsentRow \in Row
  BY DEF LegacyRows, AbsentRow, Row, JobStates, Owners
<1>5. JobTypeOK
  BY <1>2, <1>4 DEF JobTypeOK, Init, JobInit
<1>6. SlotTypeOK
  BY DEF Init, LedgerInit, SlotTypeOK
<1>7. \A j \in Jobs : job[j].state \in ACTIVE_TARGET_STATES => j \in LegacyJobs
  BY <1>3 DEF AbsentRow, ACTIVE_TARGET_STATES
<1>8. OneActivePerTarget
  BY <1>7 DEF OneActivePerTarget
<1>9. \A j \in Jobs : /\ job[j].worker = NoWorker
                      /\ job[j].state \in LeasedStates => job[j].by # NoProc
                      /\ job[j].lease # "none" <=> job[j].state \in LeasedStates
  BY <1>3 DEF LegacyRows, AbsentRow, LeasedStates
<1>10. LeaseFencing
  BY <1>9 DEF LeaseFencing
<1>11. MaintenanceIsExclusive
  <2> SUFFICES ASSUME flag
               PROVE /\ \A j \in Jobs : job[j].state \notin BlockingStates
                     /\ \A a \in Attempts : slot[a] = "none"
    BY DEF MaintenanceIsExclusive
  <2>1. LegacyJobs = {} /\ LegacyAttempts = {}
    BY DEF Init
  <2>2. \A j \in Jobs : job[j].state \notin BlockingStates
    BY <2>1, <1>3 DEF AbsentRow, BlockingStates
  <2>3. QED
    BY <2>1, <2>2 DEF Init, LedgerInit
<1>12. BarrierStands
  BY DEF Init, BarrierStands
<1>13. QED
  BY <1>1, <1>5, <1>6, <1>8, <1>10, <1>11, <1>12 DEF Inv

-----------------------------------------------------------------------------
(***************************************************************************)
(* An admission check passes only with no barrier standing: the flag it    *)
(* clears, if any, is stale.                                               *)
(***************************************************************************)
LEMMA AdmissionKeepsBarrier ==
  ASSUME BarrierStands, NotUnderMaintenance, UNCHANGED <<proc, holder, phase>>
  PROVE  BarrierStands' /\ flag' = FALSE /\ phase # "active"
BY DEF BarrierStands, NotUnderMaintenance, MaintenanceActive

(***************************************************************************)
(* Recovery rewrites whole rows of unfinished jobs and leaves the others:  *)
(* it ends with no more active jobs, leases and workers than before.       *)
(***************************************************************************)
LEMMA RecoveredFacts ==
  ASSUME WorkspaceTypeOK, JobTypeOK
  PROVE  /\ Recovered \in [Jobs -> Row]
         /\ \A j \in Jobs :
              \/ Recovered[j] = job[j]
              \/ /\ job[j].state \in BlockingStates
                 /\ Recovered[j].state \in {"paused", "failed"}
                 /\ Recovered[j].worker = NoWorker
                 /\ Recovered[j].lease = "none"
<1> USE OwnersAssumption, JobsAssumption
<1>1. \A j \in Jobs : InterruptedRow(j) \in Row
  BY DEF InterruptedRow, Row, JobStates, Owners
<1>2. \A j \in Jobs : Interrupted(j) => job[j].state \in BlockingStates
  BY DEF Interrupted
<1>3. \A j \in Jobs : /\ InterruptedRow(j).state \in {"paused", "failed"}
                      /\ InterruptedRow(j).worker = NoWorker
                      /\ InterruptedRow(j).lease = "none"
  BY DEF InterruptedRow
<1>4. QED
  BY <1>1, <1>2, <1>3 DEF Recovered, JobTypeOK

\* What recovery does to the table keeps every property of the table.
LEMMA RecoveryKeepsJobs ==
  ASSUME Inv, job' = Recovered, used' = used, slot' = slot, flag' = flag
  PROVE  JobTypeOK' /\ OneActivePerTarget' /\ LeaseFencing' /\ MaintenanceIsExclusive'
<1> USE DEF Inv
<1>1. /\ job' \in [Jobs -> Row]
      /\ \A j \in Jobs : \/ job'[j] = job[j]
                         \/ /\ job[j].state \in BlockingStates
                            /\ job'[j].state \in {"paused", "failed"}
                            /\ job'[j].worker = NoWorker
                            /\ job'[j].lease = "none"
  BY RecoveredFacts
<1>2. JobTypeOK'
  BY <1>1 DEF JobTypeOK
<1>3. OneActivePerTarget'
  BY <1>1 DEF OneActivePerTarget, ACTIVE_TARGET_STATES, BlockingStates
<1>4. LeaseFencing'
  BY <1>1 DEF LeaseFencing, LeasedStates
<1>5. MaintenanceIsExclusive'
  BY <1>1 DEF MaintenanceIsExclusive, BlockingStates
<1>6. QED
  BY <1>2, <1>3, <1>4, <1>5

-----------------------------------------------------------------------------
(* The job table's steps. *)

\* A row that is rewritten for one job leaves the other rows alone.
LEMMA JobStepInv ==
  ASSUME Inv, JobNext, UNCHANGED ledgerVars
  PROVE  Inv'
<1> USE OwnersAssumption, JobsAssumption
<1> USE DEF Inv
<1>s. SlotTypeOK' /\ slot' = slot
  BY DEF SlotTypeOK, ledgerVars
<1>1. ASSUME NEW p \in Procs, NEW j \in Jobs, Create(p, j)
      PROVE  Inv'
  <2> USE <1>1 DEF Create
  <2>1. BarrierStands' /\ flag' = FALSE
    BY AdmissionKeepsBarrier
  <2>2. WorkspaceTypeOK'
    BY <2>1 DEF WorkspaceTypeOK
  <2>3. JobTypeOK'
    BY DEF JobTypeOK, Row, Owners, JobStates
  <2>4. OneActivePerTarget'
    BY DEF JobTypeOK, OneActivePerTarget, Competing
  <2>5. LeaseFencing'
    BY DEF JobTypeOK, LeaseFencing, LeasedStates
  <2>6. QED
    BY <1>s, <2>1, <2>2, <2>3, <2>4, <2>5 DEF MaintenanceIsExclusive
<1>2. ASSUME NEW p \in Procs, NEW w \in Workers, NEW j \in Jobs, Claim(p, w, j)
      PROVE  Inv'
  <2> USE <1>2 DEF Claim
  <2>1. BarrierStands' /\ flag' = FALSE
    BY AdmissionKeepsBarrier
  <2>2. WorkspaceTypeOK'
    BY <2>1 DEF WorkspaceTypeOK
  <2>3. JobTypeOK'
    <3>1. job[j] \in Row
      BY DEF JobTypeOK
    <3>2. [job[j] EXCEPT !.state = "running", !.by = p, !.worker = w,
                         !.lease = "fresh"] \in Row
      BY <3>1 DEF Row, Owners, JobStates
    <3>3. QED
      BY <3>2 DEF JobTypeOK
  <2>4. OneActivePerTarget'
    BY DEF JobTypeOK, OneActivePerTarget, ACTIVE_TARGET_STATES
  <2>5. LeaseFencing'
    BY DEF JobTypeOK, LeaseFencing, LeasedStates
  <2>6. QED
    BY <1>s, <2>1, <2>2, <2>3, <2>4, <2>5 DEF MaintenanceIsExclusive
<1>3. ASSUME NEW p \in Procs, NEW w \in Workers, NEW j \in Jobs, Heartbeat(p, w, j)
      PROVE  Inv'
  <2> USE <1>3 DEF Heartbeat
  <2>1. WorkspaceTypeOK' /\ BarrierStands' /\ flag' = flag
    BY DEF WorkspaceTypeOK, BarrierStands, workspaceVars
  <2>2. JobTypeOK'
    BY DEF JobTypeOK, Row
  <2>3. OneActivePerTarget'
    BY DEF JobTypeOK, OneActivePerTarget
  <2>4. LeaseFencing'
    BY DEF JobTypeOK, LeaseFencing, Owned
  <2>5. MaintenanceIsExclusive'
    BY <1>s, <2>1 DEF MaintenanceIsExclusive, Owned, LeasedStates, BlockingStates
  <2>6. QED
    BY <1>s, <2>1, <2>2, <2>3, <2>4, <2>5
<1>4. ASSUME NEW p \in Procs, NEW j \in Jobs, RequestCancel(p, j)
      PROVE  Inv'
  <2> USE <1>4 DEF RequestCancel
  <2>1. BarrierStands' /\ flag' = FALSE
    BY AdmissionKeepsBarrier
  <2>2. WorkspaceTypeOK'
    BY <2>1 DEF WorkspaceTypeOK
  <2>3. JobTypeOK' /\ OneActivePerTarget' /\ LeaseFencing'
    <3>1. CASE job[j].state \in {"queued", "paused"}
      <4>1. job' = [job EXCEPT ![j] = [@ EXCEPT !.state = "cancelled",
                                                !.retryable = FALSE]]
        BY <3>1
      <4>2. JobTypeOK'
        <5>1. job[j] \in Row
          BY DEF JobTypeOK
        <5>2. [job[j] EXCEPT !.state = "cancelled", !.retryable = FALSE] \in Row
          BY <5>1 DEF Row, JobStates
        <5>3. QED
          BY <4>1, <5>2 DEF JobTypeOK
      <4>3. OneActivePerTarget'
        BY <4>1 DEF JobTypeOK, OneActivePerTarget, ACTIVE_TARGET_STATES
      <4>4. LeaseFencing'
        BY <3>1, <4>1 DEF JobTypeOK, LeaseFencing, LeasedStates
      <4>5. QED
        BY <4>2, <4>3, <4>4
    <3>2. CASE job[j].state = "running"
      <4>1. job' = [job EXCEPT ![j].state = "cancel_requested"]
        BY <3>2
      <4>2. JobTypeOK'
        BY <4>1 DEF JobTypeOK, Row, JobStates
      <4>3. OneActivePerTarget'
        BY <3>2, <4>1 DEF JobTypeOK, OneActivePerTarget, ACTIVE_TARGET_STATES
      <4>4. LeaseFencing'
        BY <3>2, <4>1 DEF JobTypeOK, LeaseFencing, LeasedStates
      <4>5. QED
        BY <4>2, <4>3, <4>4
    <3>3. CASE job' = job
      BY <3>3 DEF JobTypeOK, OneActivePerTarget, LeaseFencing
    <3>4. QED
      BY <3>1, <3>2, <3>3
  <2>4. QED
    BY <1>s, <2>1, <2>2, <2>3 DEF MaintenanceIsExclusive
<1>5. ASSUME NEW p \in Procs, NEW w \in Workers, NEW j \in Jobs,
             NEW new \in {"cancelled", "succeeded"},
             NEW required \in {"cancel_requested", "running"},
             FinishOwned(p, w, j, required, new)
      PROVE  Inv'
  <2> USE <1>5 DEF FinishOwned
  <2>1. WorkspaceTypeOK' /\ BarrierStands' /\ flag' = flag
    BY DEF WorkspaceTypeOK, BarrierStands, workspaceVars
  <2>2. JobTypeOK'
    BY DEF JobTypeOK, Row, Owners, JobStates
  <2>3. OneActivePerTarget'
    BY DEF JobTypeOK, OneActivePerTarget, ACTIVE_TARGET_STATES
  <2>4. LeaseFencing'
    BY DEF JobTypeOK, LeaseFencing, LeasedStates
  <2>5. MaintenanceIsExclusive'
    BY <1>s, <2>1 DEF JobTypeOK, MaintenanceIsExclusive, BlockingStates
  <2>6. QED
    BY <1>s, <2>1, <2>2, <2>3, <2>4, <2>5
<1>6. ASSUME NEW p \in Procs, NEW w \in Workers, NEW j \in Jobs, NEW r \in BOOLEAN,
             Fail(p, w, j, r)
      PROVE  Inv'
  <2> USE <1>6 DEF Fail
  <2>1. WorkspaceTypeOK' /\ BarrierStands' /\ flag' = flag
    BY DEF WorkspaceTypeOK, BarrierStands, workspaceVars
  <2>2. JobTypeOK'
    BY DEF JobTypeOK, Row, Owners, JobStates
  <2>3. OneActivePerTarget'
    BY DEF JobTypeOK, OneActivePerTarget, ACTIVE_TARGET_STATES
  <2>4. LeaseFencing'
    BY DEF JobTypeOK, LeaseFencing, LeasedStates
  <2>5. MaintenanceIsExclusive'
    BY <1>s, <2>1 DEF JobTypeOK, MaintenanceIsExclusive, BlockingStates
  <2>6. QED
    BY <1>s, <2>1, <2>2, <2>3, <2>4, <2>5
<1>7. ASSUME NEW p \in Procs, NEW j \in Jobs, Resume(p, j)
      PROVE  Inv'
  <2> USE <1>7 DEF Resume
  <2>1. BarrierStands' /\ flag' = FALSE
    BY AdmissionKeepsBarrier
  <2>2. WorkspaceTypeOK'
    BY <2>1 DEF WorkspaceTypeOK
  <2>3. JobTypeOK'
    BY DEF JobTypeOK, Row, Owners, JobStates
  <2>4. OneActivePerTarget'
    BY DEF JobTypeOK, OneActivePerTarget, Competing
  <2>5. LeaseFencing'
    BY DEF JobTypeOK, LeaseFencing, LeasedStates
  <2>6. QED
    BY <1>s, <2>1, <2>2, <2>3, <2>4, <2>5 DEF MaintenanceIsExclusive
<1>8. ASSUME NEW p \in Procs, RecoverInterrupted(p)
      PROVE  Inv'
  <2> USE <1>8 DEF RecoverInterrupted
  <2>1. WorkspaceTypeOK' /\ BarrierStands' /\ flag' = flag
    BY DEF WorkspaceTypeOK, BarrierStands, workspaceVars
  <2>2. JobTypeOK' /\ OneActivePerTarget' /\ LeaseFencing' /\ MaintenanceIsExclusive'
    BY <1>s, <2>1, RecoveryKeepsJobs
  <2>3. QED
    BY <1>s, <2>1, <2>2
<1>9. ASSUME NEW j \in Jobs, LeaseLapses(j)
      PROVE  Inv'
  <2> USE <1>9 DEF LeaseLapses
  <2>1. WorkspaceTypeOK' /\ BarrierStands' /\ flag' = flag
    BY DEF WorkspaceTypeOK, BarrierStands, workspaceVars
  <2>2. JobTypeOK'
    BY DEF JobTypeOK, Row
  <2>3. OneActivePerTarget'
    BY DEF JobTypeOK, OneActivePerTarget
  <2>4. LeaseFencing'
    BY DEF JobTypeOK, LeaseFencing
  <2>5. MaintenanceIsExclusive'
    BY <1>s, <2>1 DEF JobTypeOK, MaintenanceIsExclusive
  <2>6. QED
    BY <1>s, <2>1, <2>2, <2>3, <2>4, <2>5
<1>10. QED
  BY <1>1, <1>2, <1>3, <1>4, <1>5, <1>6, <1>7, <1>8, <1>9
     DEF JobNext, Succeed, FinishCancel

-----------------------------------------------------------------------------
(* The ledger's steps. *)

\* Recovery only ever gives slots back.
LEMMA RecoveredSlotFacts ==
  ASSUME SlotTypeOK
  PROVE  /\ RecoveredSlots \in [Attempts -> {"none", "fresh", "lapsed"}]
         /\ \A a \in Attempts : RecoveredSlots[a] \in {"none", slot[a]}
BY DEF SlotTypeOK, RecoveredSlots

\* A ledger step that touches nothing of the workspace and takes no slot.
LEMMA QuietLedgerStep ==
  ASSUME Inv, UNCHANGED <<workspaceVars, jobVars>>, SlotTypeOK',
         \A a \in Attempts : slot[a] = "none" => slot'[a] = "none"
  PROVE  Inv'
<1> USE DEF Inv
<1>1. WorkspaceTypeOK' /\ BarrierStands'
  BY DEF WorkspaceTypeOK, BarrierStands, workspaceVars
<1>2. JobTypeOK' /\ OneActivePerTarget' /\ LeaseFencing'
  BY DEF JobTypeOK, OneActivePerTarget, LeaseFencing, jobVars
<1>3. MaintenanceIsExclusive'
  BY DEF MaintenanceIsExclusive, workspaceVars, jobVars
<1>4. QED
  BY <1>1, <1>2, <1>3

\* An operation of the spend ledger keeps the invariant of table and barrier.
LEMMA LedgerStepInv ==
  ASSUME Inv, LedgerNext, UNCHANGED jobVars
  PROVE  Inv'
<1>s. SlotTypeOK
  BY DEF Inv
<1>1. ASSUME NEW p \in Procs, NEW a \in Attempts, NEW op \in Operations,
             NEW cost \in Costs, NEW known \in BOOLEAN,
             Reserve(p, a, op, cost, known)
      PROVE  Inv'
  <2> USE <1>1 DEF Reserve, Inv
  <2>1. BarrierStands' /\ flag' = FALSE
    BY AdmissionKeepsBarrier
  <2>2. WorkspaceTypeOK'
    BY <2>1 DEF WorkspaceTypeOK
  <2>3. JobTypeOK' /\ OneActivePerTarget' /\ LeaseFencing'
    BY DEF JobTypeOK, OneActivePerTarget, LeaseFencing, jobVars
  <2>4. SlotTypeOK'
    BY RecoveredSlotFacts DEF SlotTypeOK
  <2>5. QED
    BY <2>1, <2>2, <2>3, <2>4 DEF MaintenanceIsExclusive
<1>2. ASSUME NEW a \in Attempts, NEW event, Finish(a, event)
      PROVE  Inv'
  <2>1. SlotTypeOK' /\ \A b \in Attempts : slot[b] = "none" => slot'[b] = "none"
    BY <1>s, <1>2 DEF Finish, SlotTypeOK
  <2>2. QED
    BY <1>2, <2>1, QuietLedgerStep DEF Finish
<1>3. ASSUME slot' = RecoveredSlots, UNCHANGED workspaceVars
      PROVE  Inv'
  <2>1. SlotTypeOK' /\ \A b \in Attempts : slot[b] = "none" => slot'[b] = "none"
    BY <1>s, <1>3, RecoveredSlotFacts DEF SlotTypeOK
  <2>2. QED
    BY <1>3, <2>1, QuietLedgerStep
<1>4. ASSUME NEW a \in Attempts, SlotLapses(a)
      PROVE  Inv'
  <2>1. SlotTypeOK' /\ \A b \in Attempts : slot[b] = "none" => slot'[b] = "none"
    BY <1>s, <1>4 DEF SlotLapses, SlotTypeOK
  <2>2. QED
    BY <1>4, <2>1, QuietLedgerStep DEF SlotLapses
<1>5. ASSUME MonthPasses
      PROVE  Inv'
  <2>1. SlotTypeOK' /\ \A b \in Attempts : slot[b] = "none" => slot'[b] = "none"
    BY <1>s, <1>5 DEF MonthPasses, SlotTypeOK
  <2>2. QED
    BY <1>5, <2>1, QuietLedgerStep DEF MonthPasses
<1>6. ASSUME NEW p \in Procs, NEW a \in Attempts, NEW actual \in Costs,
             Settle(p, a, actual) \/ CorrectUncertain(p, a, actual)
      PROVE  Inv'
  BY <1>2, <1>3, <1>6 DEF Settle, CorrectUncertain
<1>7. ASSUME NEW p \in Procs, NEW a \in Attempts, MarkUncertain(p, a)
      PROVE  Inv'
  BY <1>2, <1>7 DEF MarkUncertain
<1>8. ASSUME NEW p \in Procs, RecoverUsage(p)
      PROVE  Inv'
  BY <1>3, <1>8 DEF RecoverUsage
<1>9. QED
  BY <1>1, <1>4, <1>5, <1>6, <1>7, <1>8 DEF LedgerNext

-----------------------------------------------------------------------------
(* The barrier's own steps, and processes that start and stop. *)

\* A step of the barrier or of a process that leaves the tables and the flag.
LEMMA QuietBarrierStep ==
  ASSUME Inv, UNCHANGED <<flag, jobVars, ledgerVars>>, WorkspaceTypeOK', BarrierStands'
  PROVE  Inv'
<1> USE DEF Inv
<1>1. JobTypeOK' /\ OneActivePerTarget' /\ LeaseFencing'
  BY DEF JobTypeOK, OneActivePerTarget, LeaseFencing, jobVars
<1>2. SlotTypeOK' /\ MaintenanceIsExclusive'
  BY DEF SlotTypeOK, MaintenanceIsExclusive, jobVars, ledgerVars
<1>3. QED
  BY <1>1, <1>2

\* So does a step of the barrier, or a process that starts or stops.
LEMMA BarrierStepInv ==
  ASSUME Inv, BarrierNext
  PROVE  Inv'
<1> USE OwnersAssumption
<1>p. PICK p \in Procs :
        \/ Start(p) \/ Stop(p) \/ AcquireLock(p) \/ RecoverBeforeEntry(p)
        \/ RaiseFlag(p) \/ RefuseEntry(p) \/ ClearFlag(p) \/ ReleaseLock(p)
  BY DEF BarrierNext
<1>t. WorkspaceTypeOK /\ BarrierStands
  BY DEF Inv
<1>1. CASE Start(p)
  <2>1. WorkspaceTypeOK' /\ BarrierStands'
    BY <1>t, <1>1 DEF Start, WorkspaceTypeOK, BarrierStands
  <2>2. QED
    BY <1>1, <2>1, QuietBarrierStep DEF Start
<1>2. CASE Stop(p)
  <2>1. WorkspaceTypeOK'
    BY <1>t, <1>2 DEF Stop, WorkspaceTypeOK, Phases
  <2>2. BarrierStands'
    BY <1>t, <1>2 DEF Stop, WorkspaceTypeOK, BarrierStands
  <2>3. QED
    BY <1>2, <2>1, <2>2, QuietBarrierStep DEF Stop
<1>3. CASE AcquireLock(p)
  <2>1. WorkspaceTypeOK' /\ BarrierStands'
    BY <1>t, <1>3 DEF AcquireLock, WorkspaceTypeOK, BarrierStands, Phases
  <2>2. QED
    BY <1>3, <2>1, QuietBarrierStep DEF AcquireLock
<1>4. CASE RecoverBeforeEntry(p)
  <2> USE <1>4 DEF RecoverBeforeEntry
  <2>1. WorkspaceTypeOK' /\ BarrierStands'
    BY <1>t DEF AtPhase, WorkspaceTypeOK, BarrierStands, Phases
  <2>2. slot' = slot /\ SlotTypeOK'
    BY DEF Inv, ledgerVars, SlotTypeOK
  <2>3. JobTypeOK' /\ OneActivePerTarget' /\ LeaseFencing' /\ MaintenanceIsExclusive'
    BY <2>2, RecoveryKeepsJobs
  <2>4. QED
    BY <2>1, <2>2, <2>3 DEF Inv
<1>5. CASE RaiseFlag(p)
  <2> USE <1>5 DEF RaiseFlag
  <2>1. WorkspaceTypeOK' /\ BarrierStands'
    BY <1>t DEF AtPhase, WorkspaceTypeOK, BarrierStands, Phases
  <2>2. JobTypeOK' /\ OneActivePerTarget' /\ LeaseFencing'
    BY DEF Inv, JobTypeOK, OneActivePerTarget, LeaseFencing, jobVars
  <2>3. SlotTypeOK'
    BY RecoveredSlotFacts DEF Inv, SlotTypeOK
  <2>4. MaintenanceIsExclusive'
    BY DEF JobsBlock, CallsBlock, TakenSlots, MaintenanceIsExclusive, jobVars
  <2>5. QED
    BY <2>1, <2>2, <2>3, <2>4 DEF Inv
<1>6. CASE RefuseEntry(p)
  <2>1. WorkspaceTypeOK' /\ BarrierStands'
    BY <1>t, <1>6 DEF RefuseEntry, WorkspaceTypeOK, BarrierStands, Phases
  <2>2. QED
    BY <1>6, <2>1, QuietBarrierStep DEF RefuseEntry
<1>7. CASE ClearFlag(p)
  <2> USE <1>7 DEF ClearFlag
  <2>1. WorkspaceTypeOK' /\ BarrierStands'
    BY <1>t DEF AtPhase, WorkspaceTypeOK, BarrierStands, Phases
  <2>2. JobTypeOK' /\ OneActivePerTarget' /\ LeaseFencing'
    BY DEF Inv, JobTypeOK, OneActivePerTarget, LeaseFencing, jobVars
  <2>3. SlotTypeOK' /\ MaintenanceIsExclusive'
    BY DEF Inv, SlotTypeOK, MaintenanceIsExclusive, jobVars, ledgerVars
  <2>4. QED
    BY <2>1, <2>2, <2>3 DEF Inv
<1>8. CASE ReleaseLock(p)
  <2>1. WorkspaceTypeOK' /\ BarrierStands'
    BY <1>t, <1>8 DEF ReleaseLock, WorkspaceTypeOK, BarrierStands, Phases
  <2>2. QED
    BY <1>8, <2>1, QuietBarrierStep DEF ReleaseLock
<1>9. QED
  BY <1>p, <1>1, <1>2, <1>3, <1>4, <1>5, <1>6, <1>7, <1>8

-----------------------------------------------------------------------------
\* So does a step that changes nothing.
LEMMA StutterInv == Inv /\ UNCHANGED vars => Inv'
<1> SUFFICES ASSUME Inv, UNCHANGED vars PROVE Inv'
  OBVIOUS
<1>1. UNCHANGED <<workspaceVars, jobVars, ledgerVars>>
  BY DEF vars
<1>2. SlotTypeOK' /\ slot' = slot
  BY <1>1 DEF Inv, SlotTypeOK, ledgerVars
<1>3. QED
  BY <1>1, <1>2, QuietLedgerStep

\* The invariant of table and barrier is inductive.
LEMMA NextInv == Inv /\ [Next]_vars => Inv'
BY JobStepInv, LedgerStepInv, BarrierStepInv, StutterInv DEF Next

(***************************************************************************)
(* The inductive invariant holds in every reachable state, for any number  *)
(* of processes, jobs, targets, workers and attempts.                      *)
(***************************************************************************)
THEOREM Invariance == Spec => []Inv
BY InitInv, NextInv, PTL DEF Spec

(***************************************************************************)
(* At most one unfinished job per target, whatever mix of create, resume,  *)
(* recovery, cancellation and crash led there (service.py:83-121, 321-352).*)
(***************************************************************************)
THEOREM TargetsAreExclusive == Spec => []OneActivePerTarget
<1>1. Inv => OneActivePerTarget
  BY DEF Inv
<1>2. QED
  BY <1>1, Invariance, PTL

(***************************************************************************)
(* A worker's lease names one job and only while the job runs, so a worker *)
(* whose job was recovered can no longer end it (service.py:181-237,       *)
(* 276-319, 406-435).                                                      *)
(***************************************************************************)
THEOREM LeasesFence == Spec => []LeaseFencing
<1>1. Inv => LeaseFencing
  BY DEF Inv
<1>2. QED
  BY <1>1, Invariance, PTL

(***************************************************************************)
(* While the maintenance flag is up no job is unfinished and no paid call  *)
(* is in flight (barrier.py:38-68).                                        *)
(***************************************************************************)
THEOREM MaintenanceExcludesWork == Spec => []MaintenanceIsExclusive
<1>1. Inv => MaintenanceIsExclusive
  BY DEF Inv
<1>2. QED
  BY <1>1, Invariance, PTL

(***************************************************************************)
(* Nobody but its owner takes a live barrier down (barrier.py:11-30,       *)
(* 70-81).                                                                 *)
(***************************************************************************)
THEOREM BarrierIsKept == Spec => []BarrierStands
<1>1. Inv => BarrierStands
  BY DEF Inv
<1>2. QED
  BY <1>1, Invariance, PTL

(***************************************************************************)
(* The spend ledger.                                                       *)
(***************************************************************************)
\* What the events of one attempt may be.
HistoryOK(s) ==
  \/ s = <<>>
  \/ Len(s) = 1 /\ s[1].type = "reserve"
  \/ Len(s) = 2 /\ s[1].type = "reserve" /\ s[2].type \in {"settle", "uncertain"}
  \/ Len(s) = 3 /\ s[1].type = "reserve" /\ s[2].type = "uncertain"
                /\ s[3].type = "correction"

\* Whoever an event names has been started, and a recovered event names
\* nobody who is alive.
EventOK(e) ==
  /\ e.by \in Procs => proc[e.by] # "new"
  /\ e.recovered => ~OwnerAlive(e.by)

\* One attempt: its history, and a paid-call lease exactly while it is open.
AttemptOK(h, s) ==
  /\ HistoryOK(h)
  /\ s # "none" <=> Len(h) = 1
  /\ \A i \in DOMAIN h : EventOK(h[i])

LedgerOK(l, s) ==
  /\ l \in [Attempts -> Seq(Event)]
  /\ s \in [Attempts -> {"none", "fresh", "lapsed"}]
  /\ \A a \in Attempts : AttemptOK(l[a], s[a])
  /\ Cardinality(TakenSlots(s)) <= MaxConcurrent

LedgerInv ==
  /\ month \in Months
  /\ LedgerOK(log, slot)

-----------------------------------------------------------------------------
(* What the ledger's helpers return on such histories. *)

\* The reservation is the first event.
LEMMA ReserveIsFirst ==
  ASSUME NEW s \in Seq(Event), HistoryOK(s), s # <<>>
  PROVE  EventOf(s, "reserve") = s[1] /\ s[1] \in Event /\ s[1].type = "reserve"
<1>1. 1 \in DOMAIN s /\ s[1].type = "reserve" /\ s[1] \in Event
  BY DEF HistoryOK
<1>2. \A i \in DOMAIN s : s[i].type = "reserve" => i = 1
  BY DEF HistoryOK
<1>3. (CHOOSE i \in DOMAIN s :
         s[i].type = "reserve" /\ \A k \in DOMAIN s : s[k].type = "reserve" => k <= i) = 1
  BY <1>1, <1>2
<1>4. QED
  BY <1>1, <1>3 DEF EventOf

\* An attempt is open exactly as long as it has one event.
LEMMA OpenIffOneEvent ==
  ASSUME NEW s \in Seq(Event), HistoryOK(s), s # <<>>
  PROVE  StatusOf(s) = "reserved" <=> Len(s) = 1
<1>1. CASE Len(s) = 1
  <2>1. ~HasEvent(s, "correction") /\ ~HasEvent(s, "settle") /\ ~HasEvent(s, "uncertain")
    BY <1>1 DEF HistoryOK, HasEvent
  <2>2. FinalEvent(s) = s[1]
    BY <2>1, ReserveIsFirst DEF FinalEvent
  <2>3. QED
    BY <1>1, <2>2 DEF StatusOf, HistoryOK
<1>2. CASE Len(s) # 1
  <2>1. \E t \in {"correction", "settle", "uncertain"} :
           HasEvent(s, t) /\ FinalEvent(s) = EventOf(s, t)
    BY <1>2 DEF HistoryOK, HasEvent, FinalEvent
  <2>2. PICK t \in {"correction", "settle", "uncertain"} :
           HasEvent(s, t) /\ FinalEvent(s) = EventOf(s, t)
    BY <2>1
  <2>3. PICK i \in DOMAIN s : s[i].type = t
    BY <2>2 DEF HasEvent
  <2>4. \A k \in DOMAIN s : s[k].type = t => k = i
    BY <2>3 DEF HistoryOK
  <2>5. (CHOOSE n \in DOMAIN s :
           s[n].type = t /\ \A k \in DOMAIN s : s[k].type = t => k <= n) = i
    BY <2>3, <2>4
  <2>6. FinalEvent(s).type = t
    BY <2>2, <2>3, <2>5 DEF EventOf
  <2>7. QED
    BY <1>2, <2>6 DEF StatusOf
<1>3. QED
  BY <1>1, <1>2

\* An uncertain attempt's last event says so.
LEMMA UncertainIsSecond ==
  ASSUME NEW s \in Seq(Event), HistoryOK(s), s # <<>>, StatusOf(s) = "uncertain"
  PROVE  Len(s) = 2 /\ s[2].type = "uncertain" /\ EventOf(s, "uncertain") = s[2]
<1>1. Len(s) # 1
  BY OpenIffOneEvent
<1>2. ASSUME NEW t, NEW n \in DOMAIN s, s[n].type = t,
             \A k \in DOMAIN s : s[k].type = t => k = n
      PROVE  EventOf(s, t) = s[n]
  <2>1. (CHOOSE i \in DOMAIN s :
           s[i].type = t /\ \A k \in DOMAIN s : s[k].type = t => k <= i) = n
    BY <1>2
  <2>2. QED
    BY <2>1 DEF EventOf
<1>3. ASSUME Len(s) = 3 PROVE FALSE
  <2>1. HasEvent(s, "correction") /\ EventOf(s, "correction") = s[3]
    BY <1>2, <1>3 DEF HistoryOK, HasEvent
  <2>2. QED
    BY <1>3, <2>1 DEF StatusOf, FinalEvent, HistoryOK
<1>4. Len(s) = 2
  BY <1>1, <1>3 DEF HistoryOK
<1>5. ASSUME s[2].type = "settle" PROVE FALSE
  <2>1. ~HasEvent(s, "correction")
    BY <1>4, <1>5 DEF HistoryOK, HasEvent
  <2>2. HasEvent(s, "settle") /\ EventOf(s, "settle") = s[2]
    BY <1>2, <1>4, <1>5 DEF HistoryOK, HasEvent
  <2>3. QED
    BY <1>5, <2>1, <2>2 DEF StatusOf, FinalEvent
<1>6. QED
  BY <1>2, <1>4, <1>5 DEF HistoryOK

-----------------------------------------------------------------------------
(* Counting the paid-call leases. *)

\* Giving slots back keeps the limit.
LEMMA FewerSlots ==
  ASSUME NEW s \in [Attempts -> {"none", "fresh", "lapsed"}],
         NEW t \in [Attempts -> {"none", "fresh", "lapsed"}],
         \A a \in Attempts : s[a] = "none" => t[a] = "none",
         Cardinality(TakenSlots(s)) <= MaxConcurrent
  PROVE  Cardinality(TakenSlots(t)) <= MaxConcurrent
<1>1. TakenSlots(t) \subseteq TakenSlots(s) /\ TakenSlots(s) \subseteq Attempts
  BY DEF TakenSlots
<1>2. IsFiniteSet(TakenSlots(s))
  BY <1>1, LedgerAssumption, FS_Subset
<1>3. Cardinality(TakenSlots(t)) <= Cardinality(TakenSlots(s))
  BY <1>1, <1>2, FS_Subset
<1>4. Cardinality(TakenSlots(t)) \in Nat /\ Cardinality(TakenSlots(s)) \in Nat
  BY <1>1, <1>2, FS_Subset, FS_CardinalityType
<1>5. QED
  BY <1>3, <1>4, LedgerAssumption

\* One slot more than a free table has is within the limit.
LEMMA OneMoreSlot ==
  ASSUME NEW s \in [Attempts -> {"none", "fresh", "lapsed"}], NEW a \in Attempts,
         Cardinality(TakenSlots(s)) < MaxConcurrent
  PROVE  Cardinality(TakenSlots([s EXCEPT ![a] = "fresh"])) <= MaxConcurrent
<1>1. TakenSlots([s EXCEPT ![a] = "fresh"]) = TakenSlots(s) \cup {a}
  BY DEF TakenSlots
<1>2. IsFiniteSet(TakenSlots(s))
  BY LedgerAssumption, FS_Subset DEF TakenSlots
<1>3. Cardinality(TakenSlots(s)) \in Nat
  BY <1>2, FS_CardinalityType
<1>4. Cardinality(TakenSlots(s) \cup {a}) <= Cardinality(TakenSlots(s)) + 1
  BY <1>2, <1>3, FS_AddElement
<1>5. Cardinality(TakenSlots(s) \cup {a}) \in Nat
  BY <1>2, FS_AddElement, FS_CardinalityType
<1>6. MaxConcurrent \in Nat
  BY LedgerAssumption
<1>7. Cardinality(TakenSlots(s) \cup {a}) <= MaxConcurrent
  BY <1>3, <1>4, <1>5, <1>6
<1>8. QED
  BY <1>1, <1>7

-----------------------------------------------------------------------------
(* Outcomes *)

\* What Append returns, element by element.
LEMMA AppendFacts ==
  ASSUME NEW S, NEW h \in Seq(S), NEW e \in S
  PROVE  /\ Append(h, e) \in Seq(S)
         /\ Len(Append(h, e)) = Len(h) + 1
         /\ DOMAIN Append(h, e) = 1..(Len(h) + 1)
         /\ \A i \in 1..Len(h) : Append(h, e)[i] = h[i]
         /\ Append(h, e)[Len(h) + 1] = e
<1>1. Append(h, e) \in Seq(S)
  OBVIOUS
<1>2. Len(Append(h, e)) = Len(h) + 1
  OBVIOUS
<1>3. \A i \in 1..Len(h) : Append(h, e)[i] = h[i]
  OBVIOUS
<1>4. Append(h, e)[Len(h) + 1] = e
  OBVIOUS
<1>5. DOMAIN Append(h, e) = 1..(Len(h) + 1)
  BY <1>1, <1>2
<1>6. QED
  BY <1>1, <1>2, <1>3, <1>4, <1>5, Zenon

\* An open attempt closed by an outcome is a correct attempt without a lease.
LEMMA OutcomeOK ==
  ASSUME NEW h \in Seq(Event), HistoryOK(h), Len(h) = 1,
         \A i \in DOMAIN h : EventOK(h[i]),
         NEW e \in Event, e.type \in {"settle", "uncertain"}, EventOK(e)
  PROVE  Append(h, e) \in Seq(Event) /\ AttemptOK(Append(h, e), "none")
<1>1. /\ Append(h, e) \in Seq(Event)
      /\ Len(Append(h, e)) = 2
      /\ DOMAIN Append(h, e) = 1..2
      /\ Append(h, e)[1] = h[1]
      /\ Append(h, e)[2] = e
  <2>1. Len(h) + 1 = 2 /\ 1 \in 1..Len(h)
    OBVIOUS
  <2>2. /\ Append(h, e) \in Seq(Event)
        /\ Len(Append(h, e)) = Len(h) + 1
        /\ DOMAIN Append(h, e) = 1..(Len(h) + 1)
        /\ \A i \in 1..Len(h) : Append(h, e)[i] = h[i]
        /\ Append(h, e)[Len(h) + 1] = e
    BY AppendFacts
  <2>3. QED
    BY <2>1, <2>2, Zenon
<1>2. h[1].type = "reserve" /\ EventOK(h[1])
  <2>1. 1 \in DOMAIN h
    OBVIOUS
  <2>2. EventOK(h[1])
    BY <2>1
  <2>3. h[1].type = "reserve"
    BY ReserveIsFirst
  <2>4. QED
    BY <2>2, <2>3
<1>3. HistoryOK(Append(h, e))
  BY <1>1, <1>2 DEF HistoryOK
<1>4. \A i \in 1..2 : i = 1 \/ i = 2
  OBVIOUS
<1>5. \A i \in DOMAIN Append(h, e) : EventOK(Append(h, e)[i])
  BY <1>1, <1>2, <1>4
<1>6. QED
  BY <1>1, <1>3, <1>5 DEF AttemptOK

\* Recovery closes abandoned attempts and leaves a correct ledger.
LEMMA RecoveredOK ==
  ASSUME WorkspaceTypeOK, LedgerOK(log, slot)
  PROVE  /\ LedgerOK(RecoveredLog, RecoveredSlots)
         /\ \A a \in Attempts : log[a] = <<>> => RecoveredLog[a] = <<>>
<1> USE DEF LedgerOK
<1>1. ASSUME NEW a \in Attempts, Abandoned(a)
      PROVE  /\ RecoveredLog[a] \in Seq(Event)
             /\ AttemptOK(RecoveredLog[a], "none")
             /\ log[a] # <<>>
  <2> DEFINE e == [log[a][1] EXCEPT !.type = "uncertain", !.recovered = TRUE]
  <2>1. log[a] \in Seq(Event) /\ HistoryOK(log[a]) /\ log[a] # <<>>
    BY <1>1 DEF AttemptOK, Abandoned, Recorded
  <2>2. Len(log[a]) = 1
    BY <1>1, <2>1, OpenIffOneEvent DEF Abandoned
  <2>3. EventOf(log[a], "reserve") = log[a][1] /\ log[a][1] \in Event
    BY <2>1, ReserveIsFirst
  <2>4. EventOK(log[a][1])
    BY <2>1, <2>2 DEF AttemptOK
  <2>5. e \in Event /\ e.type = "uncertain" /\ e.by = log[a][1].by
    BY <2>3 DEF Event, EventTypes
  <2>6. ~OwnerAlive(e.by)
    BY <1>1, <2>3, <2>5 DEF Abandoned, OwnerAlive, OwnerDead, OwnerUnknown
  <2>7. EventOK(e)
    BY <2>4, <2>5, <2>6 DEF EventOK
  <2>8. RecoveredLog[a] = Append(log[a], e)
    BY <1>1, <2>3 DEF RecoveredLog
  <2>9. \A i \in DOMAIN log[a] : EventOK(log[a][i])
    BY DEF AttemptOK
  <2> HIDE DEF e
  <2>10. QED
    BY <2>1, <2>2, <2>5, <2>7, <2>8, <2>9, OutcomeOK
<1>2. ASSUME NEW a \in Attempts, ~Abandoned(a)
      PROVE  RecoveredLog[a] = log[a] /\ RecoveredSlots[a] = slot[a]
  BY <1>2 DEF RecoveredLog, RecoveredSlots
<1>3. ASSUME NEW a \in Attempts, Abandoned(a)
      PROVE  RecoveredSlots[a] = "none"
  BY <1>3 DEF RecoveredSlots
<1>4. RecoveredLog \in [Attempts -> Seq(Event)]
  <2>1. \A a \in Attempts : RecoveredLog[a] \in Seq(Event)
    BY <1>1, <1>2
  <2>2. QED
    BY <2>1 DEF RecoveredLog
<1>5. RecoveredSlots \in [Attempts -> {"none", "fresh", "lapsed"}]
  BY DEF RecoveredSlots
<1>6. \A a \in Attempts : AttemptOK(RecoveredLog[a], RecoveredSlots[a])
  BY <1>1, <1>2, <1>3
<1>7. Cardinality(TakenSlots(RecoveredSlots)) <= MaxConcurrent
  <2>1. \A a \in Attempts : slot[a] = "none" => RecoveredSlots[a] = "none"
    BY <1>2, <1>3
  <2>2. QED
    BY <1>5, <2>1, FewerSlots
<1>8. QED
  BY <1>1, <1>2, <1>4, <1>5, <1>6, <1>7

-----------------------------------------------------------------------------
(* Every step keeps the ledger correct. *)

\* What is correct is judged by the processes alone, so a step that leaves
\* them alone only has to produce a correct pair of tables.
LEMMA SameProcs ==
  ASSUME proc' = proc, NEW l, NEW s, LedgerOK(l, s), log' = l, slot' = s
  PROVE  LedgerOK(log, slot)'
BY DEF LedgerOK, AttemptOK, HistoryOK, EventOK, OwnerAlive, TakenSlots

\* A reservation keeps every history in one of its five shapes.
LEMMA ReserveOK ==
  ASSUME WorkspaceTypeOK, LedgerInv, NEW p \in Procs, NEW a \in Attempts,
         NEW op \in Operations, NEW cost \in Costs, NEW known \in BOOLEAN,
         Reserve(p, a, op, cost, known)
  PROVE  LedgerInv'
<1> DEFINE ev == ReserveEvent(p, op, cost, known)
           l == [RecoveredLog EXCEPT ![a] = <<ev>>]
           s == [RecoveredSlots EXCEPT ![a] = "fresh"]
<1>1. LedgerOK(RecoveredLog, RecoveredSlots)
  BY RecoveredOK DEF LedgerInv
<1>2. ev \in Event /\ ev.type = "reserve" /\ EventOK(ev)
  BY LedgerAssumption DEF ReserveEvent, Event, EventTypes, EventOK, Owners, Reserve,
                          LedgerInv
<1>3. <<ev>> \in Seq(Event) /\ AttemptOK(<<ev>>, "fresh")
  <2> HIDE DEF ev
  <2>1. <<ev>> \in Seq(Event) /\ Len(<<ev>>) = 1 /\ <<ev>>[1] = ev
    BY <1>2
  <2>2. \A i \in DOMAIN <<ev>> : EventOK(<<ev>>[i])
    BY <1>2
  <2>3. HistoryOK(<<ev>>)
    BY <1>2, <2>1 DEF HistoryOK
  <2>4. QED
    BY <2>1, <2>2, <2>3 DEF AttemptOK
<1>4. l \in [Attempts -> Seq(Event)] /\ s \in [Attempts -> {"none", "fresh", "lapsed"}]
  <2> HIDE DEF ev
  <2>1. QED
    BY <1>1, <1>3 DEF LedgerOK
<1>5. ASSUME NEW b \in Attempts PROVE AttemptOK(l[b], s[b])
  <2> HIDE DEF ev
  <2>1. CASE b = a
    <3>1. l[b] = <<ev>> /\ s[b] = "fresh"
      BY <1>1, <2>1 DEF LedgerOK
    <3>2. QED
      BY <1>3, <3>1
  <2>2. CASE b # a
    <3>1. l[b] = RecoveredLog[b] /\ s[b] = RecoveredSlots[b]
      BY <1>1, <2>2 DEF LedgerOK
    <3>2. QED
      BY <1>1, <3>1 DEF LedgerOK
  <2>3. QED
    BY <2>1, <2>2
<1>6. Cardinality(TakenSlots(s)) <= MaxConcurrent
  BY <1>1, OneMoreSlot DEF LedgerOK, Reserve, FreeSlot
<1>7. LedgerOK(l, s)
  <2> HIDE DEF l, s
  <2>1. QED
    BY <1>4, <1>5, <1>6 DEF LedgerOK
<1>8. proc' = proc /\ log' = l /\ slot' = s /\ month' = month
  BY DEF Reserve
<1>9. QED
  <2> HIDE DEF l, s
  <2>1. QED
    BY <1>7, <1>8, SameProcs DEF LedgerInv

\* So does settling an attempt or marking it uncertain.
LEMMA FinishOK ==
  ASSUME LedgerInv, NEW a \in Attempts, NEW e \in Event,
         e.type \in {"settle", "uncertain"}, EventOK(e), Finish(a, e)
  PROVE  LedgerInv'
<1> DEFINE l == [log EXCEPT ![a] = Append(log[a], e)]
           s == [slot EXCEPT ![a] = "none"]
<1>1. LedgerOK(log, slot)
  BY DEF LedgerInv
<1>2. log[a] \in Seq(Event) /\ AttemptOK(log[a], slot[a]) /\ log[a] # <<>>
  BY <1>1 DEF LedgerOK, Finish, Recorded
<1>3. Len(log[a]) = 1
  BY <1>2, OpenIffOneEvent DEF AttemptOK, Finish
<1>4. Append(log[a], e) \in Seq(Event) /\ AttemptOK(Append(log[a], e), "none")
  BY <1>2, <1>3, OutcomeOK DEF AttemptOK
<1>5. l \in [Attempts -> Seq(Event)] /\ s \in [Attempts -> {"none", "fresh", "lapsed"}]
  BY <1>1, <1>4 DEF LedgerOK
<1>6. ASSUME NEW b \in Attempts PROVE AttemptOK(l[b], s[b])
  <2>1. CASE b = a
    <3>1. l[b] = Append(log[a], e) /\ s[b] = "none"
      BY <1>1, <2>1 DEF LedgerOK
    <3>2. QED
      BY <1>4, <3>1
  <2>2. CASE b # a
    <3>1. l[b] = log[b] /\ s[b] = slot[b]
      BY <1>1, <2>2 DEF LedgerOK
    <3>2. QED
      BY <1>1, <3>1 DEF LedgerOK
  <2>3. QED
    BY <2>1, <2>2
<1>7. Cardinality(TakenSlots(s)) <= MaxConcurrent
  <2>1. \A b \in Attempts : slot[b] = "none" => s[b] = "none"
    BY <1>1 DEF LedgerOK
  <2> HIDE DEF s
  <2>2. QED
    BY <1>1, <1>5, <2>1, FewerSlots DEF LedgerOK
<1>8. LedgerOK(l, s)
  <2> HIDE DEF l, s
  <2>1. QED
    BY <1>5, <1>6, <1>7 DEF LedgerOK
<1>9. proc' = proc /\ log' = l /\ slot' = s /\ month' = month
  BY DEF Finish, workspaceVars
<1>10. QED
  <2> HIDE DEF l, s
  <2>1. QED
    BY <1>8, <1>9, SameProcs DEF LedgerInv

\* The gateway's outcomes name no process, so they say nothing about one.
LEMMA OutcomesOK ==
  ASSUME LedgerInv, NEW p \in Procs, NEW a \in Attempts,
         \/ \E actual \in Costs : Settle(p, a, actual)
         \/ MarkUncertain(p, a)
  PROVE  LedgerInv'
<1>1. log[a] \in Seq(Event) /\ AttemptOK(log[a], slot[a]) /\ log[a] # <<>>
  BY DEF LedgerInv, LedgerOK, Settle, MarkUncertain, CallOf, Recorded
<1>2. EventOf(log[a], "reserve") \in Event
  BY <1>1, ReserveIsFirst DEF AttemptOK
<1>3. ASSUME NEW t \in {"settle", "uncertain"}, NEW n \in Nat
      PROVE  LET e == [EventOf(log[a], "reserve") EXCEPT
                         !.type = t, !.amount = n, !.by = NoProc]
             IN  e \in Event /\ e.type = t /\ EventOK(e)
  BY <1>2, OwnersAssumption DEF Event, EventTypes, Owners, EventOK, OwnerAlive
<1>4. ASSUME NEW actual \in Costs, Settle(p, a, actual) PROVE LedgerInv'
  <2>1. actual \in Nat
    BY LedgerAssumption
  <2>2. QED
    BY <1>3, <1>4, <2>1, FinishOK DEF Settle
<1>5. ASSUME MarkUncertain(p, a) PROVE LedgerInv'
  <2> DEFINE r == EventOf(log[a], "reserve")
             e == [r EXCEPT !.type = "uncertain", !.by = NoProc]
  <2>1. e \in Event /\ e.type = "uncertain" /\ EventOK(e)
    BY <1>2, OwnersAssumption DEF Event, EventTypes, Owners, EventOK, OwnerAlive
  <2>2. Finish(a, e)
    BY <1>5 DEF MarkUncertain
  <2> HIDE DEF e
  <2>3. QED
    BY <2>1, <2>2, FinishOK
<1>6. QED
  BY <1>4, <1>5

\* So does the user's correction of an uncertain attempt.
LEMMA CorrectionOK ==
  ASSUME WorkspaceTypeOK, LedgerInv, NEW p \in Procs, NEW a \in Attempts,
         NEW actual \in Costs, CorrectUncertain(p, a, actual)
  PROVE  LedgerInv'
<1> DEFINE h == RecoveredLog[a]
           e == [h[2] EXCEPT !.type = "correction", !.amount = actual, !.known = TRUE]
           l == [RecoveredLog EXCEPT ![a] = Append(h, e)]
<1>1. LedgerOK(RecoveredLog, RecoveredSlots)
  BY RecoveredOK DEF LedgerInv
<1>2. h \in Seq(Event) /\ AttemptOK(h, RecoveredSlots[a])
  BY <1>1 DEF LedgerOK
<1>3. h # <<>>
  <2>1. log[a] # <<>> /\ log[a] \in Seq(Event) /\ HistoryOK(log[a])
    BY DEF CorrectUncertain, Recorded, LedgerInv, LedgerOK, AttemptOK
  <2>2. EventOf(log[a], "reserve") \in Event
    BY <2>1, ReserveIsFirst
  <2>3. CASE Abandoned(a)
    <3> DEFINE r == [EventOf(log[a], "reserve") EXCEPT
                       !.type = "uncertain", !.recovered = TRUE]
    <3>1. h = Append(log[a], r)
      BY <2>3 DEF RecoveredLog
    <3>2. r \in Event
      BY <2>2 DEF Event, EventTypes
    <3> HIDE DEF r
    <3>3. Append(log[a], r) # <<>>
      BY <2>1, <3>2, AppendFacts
    <3>4. QED
      BY <3>1, <3>3
  <2>4. CASE ~Abandoned(a)
    BY <2>1, <2>4 DEF RecoveredLog
  <2>5. QED
    BY <2>3, <2>4
<1>4. Len(h) = 2 /\ h[2].type = "uncertain" /\ EventOf(h, "uncertain") = h[2]
  BY <1>2, <1>3, UncertainIsSecond DEF AttemptOK, CorrectUncertain
<1>5. h[1].type = "reserve" /\ h[2] \in Event
  BY <1>2, <1>3, <1>4, ReserveIsFirst DEF AttemptOK
<1>6. EventOK(h[1]) /\ EventOK(h[2])
  <2>1. 1 \in DOMAIN h /\ 2 \in DOMAIN h
    BY <1>2, <1>4
  <2>2. QED
    BY <1>2, <2>1 DEF AttemptOK
<1>7. e \in Event /\ e.type = "correction" /\ EventOK(e)
  BY <1>5, <1>6, LedgerAssumption DEF Event, EventTypes, EventOK
<1>8. Append(h, e) \in Seq(Event) /\ AttemptOK(Append(h, e), "none")
  <2> HIDE DEF h, e
  <2>1. /\ Append(h, e) \in Seq(Event)
        /\ Len(Append(h, e)) = Len(h) + 1
        /\ \A i \in 1..Len(h) : Append(h, e)[i] = h[i]
        /\ Append(h, e)[Len(h) + 1] = e
    BY <1>2, <1>7, AppendFacts
  <2>2. Len(h) + 1 = 3 /\ 1 \in 1..Len(h) /\ 2 \in 1..Len(h)
    BY <1>4
  <2>3. /\ Len(Append(h, e)) = 3
        /\ Append(h, e)[1] = h[1] /\ Append(h, e)[2] = h[2] /\ Append(h, e)[3] = e
    BY <2>1, <2>2, Zenon
  <2>4. DOMAIN Append(h, e) = 1..3
    BY <2>1, <2>3
  <2>5. \A i \in 1..3 : i = 1 \/ i = 2 \/ i = 3
    OBVIOUS
  <2>6. \A i \in DOMAIN Append(h, e) : EventOK(Append(h, e)[i])
    BY <1>6, <1>7, <2>3, <2>4, <2>5
  <2>7. HistoryOK(Append(h, e))
    BY <1>4, <1>5, <1>7, <2>3 DEF HistoryOK
  <2>8. QED
    BY <2>1, <2>3, <2>6, <2>7 DEF AttemptOK
<1>9. RecoveredSlots[a] = "none"
  BY <1>2, <1>4 DEF AttemptOK
<1>10. LedgerOK(l, RecoveredSlots)
  <2> HIDE DEF h, e
  <2>1. l \in [Attempts -> Seq(Event)]
    BY <1>1, <1>8 DEF LedgerOK
  <2>2. ASSUME NEW b \in Attempts PROVE AttemptOK(l[b], RecoveredSlots[b])
    <3>1. CASE b = a
      <4>1. l[b] = Append(h, e)
        BY <1>1, <3>1 DEF LedgerOK
      <4>2. QED
        BY <1>8, <1>9, <3>1, <4>1
    <3>2. CASE b # a
      <4>1. l[b] = RecoveredLog[b]
        BY <1>1, <3>2 DEF LedgerOK
      <4>2. QED
        BY <1>1, <4>1 DEF LedgerOK
    <3>3. QED
      BY <3>1, <3>2
  <2> HIDE DEF l
  <2>3. QED
    BY <1>1, <2>1, <2>2 DEF LedgerOK
<1>11. proc' = proc /\ log' = l /\ slot' = RecoveredSlots /\ month' = month
  BY <1>4 DEF CorrectUncertain, workspaceVars
<1>12. QED
  <2> HIDE DEF l
  <2>1. QED
    BY <1>10, <1>11, SameProcs DEF LedgerInv

\* So does the lease of a paid call that lapses.
LEMMA SlotLapsesOK ==
  ASSUME LedgerInv, NEW a \in Attempts, SlotLapses(a)
  PROVE  LedgerInv'
<1> DEFINE s == [slot EXCEPT ![a] = "lapsed"]
<1>1. LedgerOK(log, slot)
  BY DEF LedgerInv
<1>2. s \in [Attempts -> {"none", "fresh", "lapsed"}]
  BY <1>1 DEF LedgerOK
<1>3. \A b \in Attempts : s[b] = "none" <=> slot[b] = "none"
  BY <1>1 DEF LedgerOK, SlotLapses
<1> HIDE DEF s
<1>4. Cardinality(TakenSlots(s)) <= MaxConcurrent
  BY <1>1, <1>2, <1>3, FewerSlots DEF LedgerOK
<1>5. \A b \in Attempts : AttemptOK(log[b], s[b])
  BY <1>1, <1>3 DEF LedgerOK, AttemptOK
<1>6. LedgerOK(log, s)
  BY <1>1, <1>2, <1>4, <1>5 DEF LedgerOK
<1>7. proc' = proc /\ log' = log /\ slot' = s /\ month' = month
  BY DEF SlotLapses, workspaceVars, s
<1>8. QED
  BY <1>6, <1>7, SameProcs DEF LedgerInv

\* Recovery, run by a reader or by the barrier.
LEMMA RecoverOK ==
  ASSUME WorkspaceTypeOK, LedgerInv, proc' = proc, log' = RecoveredLog,
         slot' = RecoveredSlots, month' = month
  PROVE  LedgerInv'
BY RecoveredOK, SameProcs DEF LedgerInv

\* A step of somebody else.
LEMMA UntouchedOK ==
  ASSUME LedgerInv, proc' = proc, UNCHANGED <<log, slot, month>>
  PROVE  LedgerInv'
BY SameProcs DEF LedgerInv

\* A process starts: no event names it yet.  A process stops: nothing recovered
\* names a live one.
LEMMA ProcessOK ==
  ASSUME WorkspaceTypeOK, LedgerInv, NEW p \in Procs, Start(p) \/ Stop(p)
  PROVE  LedgerInv'
<1>1. log' = log /\ slot' = slot /\ month' = month
  BY DEF Start, Stop, ledgerVars
<1>2. \A e \in Event : EventOK(e) => EventOK(e)'
  BY DEF EventOK, OwnerAlive, Start, Stop, WorkspaceTypeOK
<1>3. ASSUME NEW a \in Attempts PROVE AttemptOK(log[a], slot[a])'
  <2>1. AttemptOK(log[a], slot[a]) /\ log[a] \in Seq(Event)
    BY DEF LedgerInv, LedgerOK
  <2>2. \A i \in DOMAIN log[a] : log[a][i] \in Event
    BY <2>1
  <2>3. \A i \in DOMAIN log[a] : EventOK(log[a][i])'
    BY <1>1, <1>2, <2>1, <2>2 DEF AttemptOK
  <2>4. QED
    BY <1>1, <2>1, <2>3 DEF AttemptOK, HistoryOK
<1>4. QED
  BY <1>1, <1>3 DEF LedgerInv, LedgerOK, TakenSlots

\* The invariant of the ledger is inductive, given that of the table.
LEMMA LedgerNextInv == Inv /\ LedgerInv /\ [Next]_vars => LedgerInv'
<1> SUFFICES ASSUME Inv, LedgerInv, [Next]_vars PROVE LedgerInv'
  OBVIOUS
<1>t. WorkspaceTypeOK
  BY DEF Inv
<1>1. CASE JobNext /\ UNCHANGED ledgerVars
  <2>1. proc' = proc
    BY <1>1 DEF JobNext, Create, RequestCancel, Resume, Claim, Heartbeat, FinishCancel,
                Succeed, FinishOwned, Fail, RecoverInterrupted, LeaseLapses, workspaceVars
  <2>2. QED
    BY <1>1, <2>1, UntouchedOK DEF ledgerVars
<1>2. CASE LedgerNext /\ UNCHANGED jobVars
  <2>1. ASSUME MonthPasses PROVE LedgerInv'
    <3>1. LedgerOK(log, slot)'
      BY <2>1, SameProcs DEF LedgerInv, MonthPasses, workspaceVars
    <3>2. month' \in Months
      BY <2>1, LedgerAssumption DEF LedgerInv, MonthPasses, Months
    <3>3. QED
      BY <3>1, <3>2 DEF LedgerInv
  <2>2. ASSUME NEW p \in Procs, RecoverUsage(p) PROVE LedgerInv'
    BY <1>t, <2>2, RecoverOK DEF RecoverUsage, workspaceVars
  <2>3. QED
    BY <1>t, <1>2, <2>1, <2>2, ReserveOK, OutcomesOK, CorrectionOK, SlotLapsesOK
       DEF LedgerNext
<1>3. CASE BarrierNext
  <2>p. PICK p \in Procs :
          \/ Start(p) \/ Stop(p) \/ AcquireLock(p) \/ RecoverBeforeEntry(p)
          \/ RaiseFlag(p) \/ RefuseEntry(p) \/ ClearFlag(p) \/ ReleaseLock(p)
    BY <1>3 DEF BarrierNext
  <2>1. CASE Start(p) \/ Stop(p)
    BY <1>t, <2>1, ProcessOK
  <2>2. CASE RaiseFlag(p)
    BY <1>t, <2>2, RecoverOK DEF RaiseFlag
  <2>3. CASE \/ AcquireLock(p) \/ RecoverBeforeEntry(p) \/ RefuseEntry(p)
             \/ ClearFlag(p) \/ ReleaseLock(p)
    BY <2>3, UntouchedOK DEF AcquireLock, RecoverBeforeEntry, RefuseEntry, ClearFlag,
                             ReleaseLock, ledgerVars
  <2>4. QED
    BY <2>p, <2>1, <2>2, <2>3
<1>4. CASE UNCHANGED vars
  BY <1>4, UntouchedOK DEF vars, workspaceVars, ledgerVars
<1>5. QED
  BY <1>1, <1>2, <1>3, <1>4 DEF Next

\* The rows of an older release satisfy it.
LEMMA LedgerInitInv == Init => LedgerInv
<1> SUFFICES ASSUME Init PROVE LedgerInv
  OBVIOUS
<1> USE LedgerAssumption
<1>1. month \in Months
  BY DEF Init, LedgerInit, Months
<1>2. PICK op \in [LegacyAttempts -> Operations] :
        log = [a \in Attempts |->
                 IF a \in LegacyAttempts
                 THEN <<[type |-> "reserve", amount |-> 0, op |-> op[a],
                         by |-> LegacyOwner, at |-> 1, known |-> TRUE,
                         recovered |-> FALSE]>>
                 ELSE <<>>]
  BY DEF Init, LedgerInit
<1>3. slot = [a \in Attempts |-> IF a \in LegacyAttempts THEN "fresh" ELSE "none"]
  BY DEF Init, LedgerInit
<1>4. ASSUME NEW a \in Attempts
      PROVE  log[a] \in Seq(Event) /\ AttemptOK(log[a], slot[a])
  <2>1. CASE a \in LegacyAttempts
    <3> DEFINE e == [type |-> "reserve", amount |-> 0, op |-> op[a],
                     by |-> LegacyOwner, at |-> 1, known |-> TRUE, recovered |-> FALSE]
    <3>1. log[a] = <<e>> /\ slot[a] = "fresh"
      BY <1>2, <1>3, <2>1
    <3>2. e \in Event
      BY <2>1 DEF Event, EventTypes, Owners, Months
    <3>3. e.type = "reserve" /\ EventOK(e)
      BY OwnersAssumption DEF EventOK
    <3> HIDE DEF e
    <3>4. <<e>> \in Seq(Event) /\ Len(<<e>>) = 1 /\ <<e>>[1] = e
      BY <3>2
    <3>5. HistoryOK(<<e>>)
      BY <3>3, <3>4 DEF HistoryOK
    <3>6. \A i \in DOMAIN <<e>> : EventOK(<<e>>[i])
      BY <3>3
    <3>7. QED
      BY <3>1, <3>4, <3>5, <3>6 DEF AttemptOK
  <2>2. CASE a \notin LegacyAttempts
    <3>1. log[a] = <<>> /\ slot[a] = "none"
      BY <1>2, <1>3, <2>2
    <3>2. QED
      BY <3>1 DEF AttemptOK, HistoryOK
  <2>3. QED
    BY <2>1, <2>2
<1>5. log \in [Attempts -> Seq(Event)]
  <2>1. log = [a \in Attempts |-> log[a]]
    BY <1>2
  <2>2. QED
    BY <1>4, <2>1
<1>6. slot \in [Attempts -> {"none", "fresh", "lapsed"}]
  BY <1>3
<1>7. TakenSlots(slot) = LegacyAttempts
  BY <1>3 DEF TakenSlots
<1>8. QED
  BY <1>1, <1>4, <1>5, <1>6, <1>7 DEF LedgerInv, LedgerOK

(***************************************************************************)
(* The ledger's inductive invariant holds in every reachable state.        *)
(***************************************************************************)
THEOREM LedgerInvariance == Spec => []LedgerInv
BY LedgerInitInv, LedgerNextInv, Invariance, PTL DEF Spec

(***************************************************************************)
(* Every variable keeps its type, sequences of events included.            *)
(***************************************************************************)
THEOREM TypeCorrect == Spec => []TypeOK
<1>1. Inv /\ LedgerInv => TypeOK
  BY DEF Inv, LedgerInv, LedgerOK, TypeOK, LedgerTypeOK
<1>2. QED
  BY <1>1, Invariance, LedgerInvariance, PTL

(***************************************************************************)
(* No call leaks its concurrency slot and no open call runs without one    *)
(* (ledger.py:148-175, 383-387, 423-425).                                  *)
(***************************************************************************)
THEOREM SlotsAreExact == Spec => []SlotIffOutstanding
<1>1. LedgerInv => SlotIffOutstanding
  <2> SUFFICES ASSUME LedgerInv, NEW a \in Attempts
               PROVE  slot[a] # "none" <=> log[a] # <<>> /\ StatusOf(log[a]) = "reserved"
    BY DEF SlotIffOutstanding
  <2>1. /\ log[a] \in Seq(Event) /\ HistoryOK(log[a])
        /\ slot[a] # "none" <=> Len(log[a]) = 1
    BY DEF LedgerInv, LedgerOK, AttemptOK
  <2>2. CASE log[a] = <<>>
    BY <2>1, <2>2
  <2>3. CASE log[a] # <<>>
    BY <2>1, <2>3, OpenIffOneEvent
  <2>4. QED
    BY <2>2, <2>3
<1>2. QED
  BY <1>1, LedgerInvariance, PTL

(***************************************************************************)
(* Paid calls in flight never exceed the configured limit, with lapsed     *)
(* leases of live calls counted (ledger.py:142-151).                       *)
(***************************************************************************)
THEOREM ConcurrencyIsBounded == Spec => []ConcurrencyBound
<1>1. LedgerInv => ConcurrencyBound
  BY DEF LedgerInv, LedgerOK, ConcurrencyBound
<1>2. QED
  BY <1>1, LedgerInvariance, PTL

(***************************************************************************)
(* Recovery never writes off a call whose process is alive                 *)
(* (ledger.py:391-428).                                                    *)
(***************************************************************************)
THEOREM RecoverySparesLiveCalls == Spec => []LiveCallsAreKept
<1>1. LedgerInv => LiveCallsAreKept
  BY DEF LedgerInv, LedgerOK, AttemptOK, EventOK, LiveCallsAreKept
<1>2. QED
  BY <1>1, LedgerInvariance, PTL

(***************************************************************************)
(* Every attempt is resolved at most once and corrected at most once       *)
(* (ledger.py:345-361, 287-292).                                           *)
(***************************************************************************)
THEOREM AttemptsResolveOnce == Spec => []ResolvedOnce
<1>1. LedgerInv => ResolvedOnce
  <2> SUFFICES ASSUME LedgerInv, NEW a \in Attempts
               PROVE  [i \in DOMAIN log[a] |-> log[a][i].type] \in Histories
    BY DEF ResolvedOnce
  <2> DEFINE types == [i \in DOMAIN log[a] |-> log[a][i].type]
  <2>1. log[a] \in Seq(Event) /\ HistoryOK(log[a])
    BY DEF LedgerInv, LedgerOK, AttemptOK
  <2>2. CASE log[a] = <<>>
    BY <2>2 DEF Histories
  <2>3. CASE Len(log[a]) = 1
    <3>1. types = <<"reserve">>
      BY <2>1, <2>3 DEF HistoryOK
    <3>2. QED
      BY <3>1 DEF Histories
  <2>4. CASE Len(log[a]) = 2
    <3>1. types = <<"reserve", "settle">> \/ types = <<"reserve", "uncertain">>
      BY <2>1, <2>4 DEF HistoryOK
    <3>2. QED
      BY <3>1 DEF Histories
  <2>5. CASE Len(log[a]) = 3
    <3>1. types = <<"reserve", "uncertain", "correction">>
      BY <2>1, <2>5 DEF HistoryOK
    <3>2. QED
      BY <3>1 DEF Histories
  <2>6. QED
    BY <2>1, <2>2, <2>3, <2>4, <2>5 DEF HistoryOK
<1>2. QED
  BY <1>1, LedgerInvariance, PTL

-----------------------------------------------------------------------------
(* Nothing moves under a standing barrier. *)

\* With no open attempt, recovery has nothing to do.
LEMMA NothingToRecover ==
  ASSUME LedgerInv, \A a \in Attempts : slot[a] = "none"
  PROVE  RecoveredLog = log /\ RecoveredSlots = slot
<1>1. ASSUME NEW a \in Attempts PROVE ~Abandoned(a)
  <2>1. AttemptOK(log[a], "none") /\ log[a] \in Seq(Event)
    BY DEF LedgerInv, LedgerOK
  <2>2. QED
    BY <2>1, OpenIffOneEvent DEF AttemptOK, Abandoned, Recorded
<1>2. log \in [Attempts -> Seq(Event)] /\ slot \in [Attempts -> {"none", "fresh", "lapsed"}]
  BY DEF LedgerInv, LedgerOK
<1>3. QED
  BY <1>1, <1>2 DEF RecoveredLog, RecoveredSlots

(***************************************************************************)
(* Between the step that raises the flag and the step that clears it no    *)
(* job row and no slot changes, and the only events written are            *)
(* corrections (barrier.py:38-81).                                         *)
(***************************************************************************)
THEOREM WorkIsFrozen == Spec => FrozenUnderMaintenance
<1> DEFINE Frozen ==
      flag /\ phase = "active" /\ flag' /\ phase' = "active" =>
        /\ job' = job
        /\ slot' = slot
        /\ \A a \in Attempts :
             log'[a] # log[a] => log'[a][Len(log'[a])].type = "correction"
<1>1. Inv /\ LedgerInv /\ [Next]_vars => [Frozen]_vars
  <2> SUFFICES ASSUME Inv, LedgerInv, Next,
                      flag, phase = "active", flag', phase' = "active"
               PROVE  /\ job' = job
                      /\ slot' = slot
                      /\ \A a \in Attempts :
                           log'[a] # log[a] => log'[a][Len(log'[a])].type = "correction"
    OBVIOUS
  <2>1. /\ \A j \in Jobs : job[j].state \notin BlockingStates
        /\ \A a \in Attempts : slot[a] = "none"
    BY DEF Inv, MaintenanceIsExclusive
  <2>2. RecoveredLog = log /\ RecoveredSlots = slot
    BY <2>1, NothingToRecover
  <2>3. CASE JobNext /\ UNCHANGED ledgerVars
    <3>1. Recovered = job
      BY <2>1 DEF Recovered, Interrupted, Inv, JobTypeOK
    <3>2. \A j \in Jobs : job[j].lease = "none"
      BY <2>1 DEF Inv, LeaseFencing, LeasedStates, BlockingStates
    <3>3. \A p \in Procs, j \in Jobs : ~Create(p, j) /\ ~RequestCancel(p, j) /\ ~Resume(p, j)
      BY DEF Create, RequestCancel, Resume, NotUnderMaintenance
    <3>4. \A p \in Procs, w \in Workers, j \in Jobs :
             /\ ~Claim(p, w, j) /\ ~Heartbeat(p, w, j)
             /\ ~FinishCancel(p, w, j) /\ ~Succeed(p, w, j)
             /\ \A r \in BOOLEAN : ~Fail(p, w, j, r)
      BY <2>1 DEF Claim, NotUnderMaintenance, Heartbeat, FinishCancel, Succeed,
                  FinishOwned, Fail, Owned, LeasedStates, BlockingStates
    <3>5. \A j \in Jobs : ~LeaseLapses(j)
      BY <3>2 DEF LeaseLapses
    <3>6. job' = job
      BY <2>3, <3>1, <3>3, <3>4, <3>5 DEF JobNext, RecoverInterrupted
    <3>7. QED
      BY <2>3, <3>6 DEF ledgerVars
  <2>4. CASE LedgerNext /\ UNCHANGED jobVars
    <3>1. job' = job
      BY <2>4 DEF jobVars
    <3>2. ASSUME NEW a \in Attempts, NEW e PROVE ~Finish(a, e)
      <4>1. AttemptOK(log[a], "none") /\ log[a] \in Seq(Event)
        BY <2>1 DEF LedgerInv, LedgerOK
      <4>2. QED
        BY <4>1, OpenIffOneEvent DEF AttemptOK, Finish, Recorded
    <3>3. ASSUME NEW p \in Procs, NEW a \in Attempts, NEW actual \in Costs,
                 CorrectUncertain(p, a, actual)
          PROVE  /\ slot' = slot
                 /\ \A b \in Attempts :
                      log'[b] # log[b] => log'[b][Len(log'[b])].type = "correction"
      <4> DEFINE u == EventOf(log[a], "uncertain")
                 c == [u EXCEPT !.type = "correction", !.amount = actual, !.known = TRUE]
      <4>1. log[a] \in Seq(Event) /\ HistoryOK(log[a]) /\ log[a] # <<>>
        BY <3>3 DEF CorrectUncertain, Recorded, LedgerInv, LedgerOK, AttemptOK
      <4>2. StatusOf(log[a]) = "uncertain"
        BY <2>2, <3>3 DEF CorrectUncertain
      <4>3. u = log[a][2] /\ Len(log[a]) = 2
        BY <4>1, <4>2, UncertainIsSecond
      <4>4. u \in Event
        BY <4>1, <4>3
      <4>5. c \in Event /\ c.type = "correction"
        BY <4>4, LedgerAssumption DEF Event, EventTypes
      <4>6. log' = [log EXCEPT ![a] = Append(log[a], c)] /\ slot' = slot
        BY <2>2, <3>3 DEF CorrectUncertain
      <4> HIDE DEF c
      <4>7. /\ Len(Append(log[a], c)) = Len(log[a]) + 1
            /\ Append(log[a], c)[Len(log[a]) + 1] = c
        BY <4>1, <4>5, AppendFacts
      <4>8. ASSUME NEW b \in Attempts, log'[b] # log[b]
            PROVE  log'[b][Len(log'[b])].type = "correction"
        <5>1. b = a /\ log'[b] = Append(log[a], c)
          BY <4>6, <4>8 DEF LedgerInv, LedgerOK
        <5>2. QED
          BY <4>5, <4>7, <5>1
      <4>9. QED
        BY <4>6, <4>8
    <3>4. \A p \in Procs, a \in Attempts :
            /\ \A op \in Operations, cost \in Costs, known \in BOOLEAN :
                 ~Reserve(p, a, op, cost, known)
            /\ \A actual \in Costs : ~Settle(p, a, actual)
            /\ ~MarkUncertain(p, a)
      BY <3>2 DEF Reserve, NotUnderMaintenance, Settle, MarkUncertain
    <3>5. \A a \in Attempts : ~SlotLapses(a)
      BY <2>1 DEF SlotLapses
    <3>6. CASE MonthPasses \/ \E p \in Procs : RecoverUsage(p)
      BY <2>2, <3>1, <3>6 DEF MonthPasses, RecoverUsage
    <3>7. QED
      BY <2>4, <3>1, <3>3, <3>4, <3>5, <3>6 DEF LedgerNext
  <2>5. CASE BarrierNext
    <3>1. PICK p \in Procs :
            \/ Start(p) \/ Stop(p) \/ AcquireLock(p) \/ RecoverBeforeEntry(p)
            \/ RaiseFlag(p) \/ RefuseEntry(p) \/ ClearFlag(p) \/ ReleaseLock(p)
      BY <2>5 DEF BarrierNext
    <3>2. CASE Start(p) \/ Stop(p)
      BY <3>2 DEF Start, Stop, jobVars, ledgerVars
    <3>3. QED
      BY <3>1, <3>2 DEF AcquireLock, RecoverBeforeEntry, RaiseFlag, RefuseEntry, ClearFlag,
                        ReleaseLock, AtPhase
  <2>6. QED
    BY <2>3, <2>4, <2>5 DEF Next
<1>2. QED
  BY <1>1, Invariance, LedgerInvariance, PTL DEF Spec, FrozenUnderMaintenance

-----------------------------------------------------------------------------
(* The budgets.  An attempt may cost what it reserved or, once that is known *)
(* to be less, what it came to; the rest of its amount is its overrun.       *)

Due(s) ==
  LET reserved == EventOf(s, "reserve").amount
  IN  IF AmountOf(s) > reserved THEN reserved ELSE AmountOf(s)

DueIn(l, S) == SumFunction([a \in S |-> Due(l[a])])

\* What an attempt was reserved in is not ahead of the clock, and writing it
\* off as uncertain keeps the amount.
BookOK(h, m) ==
  h # <<>> => /\ h[1].at <= m
              /\ Len(h) = 2 /\ h[2].type = "uncertain" => h[2].amount = h[1].amount

Within(l, m) ==
  /\ DueIn(l, CountedInMonth(l, m)) <= MonthlyCap
  /\ \A op \in Operations : DueIn(l, CountedInOperation(l, op)) <= OperationCap

BudgetInv ==
  /\ \A a \in Attempts : BookOK(log[a], month)
  /\ Within(log, month)

Sane(l) == l \in [Attempts -> Seq(Event)] /\ \A a \in Attempts : HistoryOK(l[a])

Open(h) == StatusOf(h) \in {"reserved", "uncertain"}

\* g is what h may become: it counts nowhere h does not, and for no more.
Weaker(g, h) ==
  \/ g = <<>> /\ h = <<>>
  \/ /\ g # <<>> /\ h # <<>>
     /\ g[1] = h[1]
     /\ Due(g) <= Due(h)
     /\ Open(g) => Open(h)

\* by_type returns the only event of a type.
LEMMA OnlyEvent ==
  ASSUME NEW s \in Seq(Event), NEW t, NEW n \in DOMAIN s, s[n].type = t,
         \A k \in DOMAIN s : s[k].type = t => k = n
  PROVE  HasEvent(s, t) /\ EventOf(s, t) = s[n]
<1>1. (CHOOSE i \in DOMAIN s :
         s[i].type = t /\ \A k \in DOMAIN s : s[k].type = t => k <= i) = n
  OBVIOUS
<1> QED BY <1>1 DEF EventOf, HasEvent

\* The event that decides is the last one.
LEMMA FinalIsLast ==
  ASSUME NEW s \in Seq(Event), HistoryOK(s), s # <<>>
  PROVE  Len(s) \in 1..3 /\ s[Len(s)] \in Event /\ FinalEvent(s) = s[Len(s)]
<1>1. Len(s) \in 1..3 /\ s[Len(s)] \in Event /\ DOMAIN s = 1..Len(s)
  BY DEF HistoryOK
<1>2. CASE Len(s) = 1
  <2>1. ~HasEvent(s, "correction") /\ ~HasEvent(s, "settle") /\ ~HasEvent(s, "uncertain")
    BY <1>2 DEF HistoryOK, HasEvent
  <2>2. EventOf(s, "reserve") = s[1]
    BY ReserveIsFirst
  <2> QED BY <1>1, <1>2, <2>1, <2>2 DEF FinalEvent
<1>3. CASE Len(s) = 2
  <2>1. s[1].type = "reserve" /\ s[2].type \in {"settle", "uncertain"}
    BY <1>3 DEF HistoryOK
  <2>2. ~HasEvent(s, "correction") /\ (s[2].type = "uncertain" => ~HasEvent(s, "settle"))
    BY <1>3, <2>1 DEF HasEvent
  <2>3. \A k \in DOMAIN s : s[k].type = s[2].type => k = 2
    BY <1>3, <2>1
  <2>4. 2 \in DOMAIN s
    BY <1>1, <1>3
  <2>5. HasEvent(s, s[2].type) /\ EventOf(s, s[2].type) = s[2]
    BY <2>3, <2>4, OnlyEvent
  <2> QED BY <1>1, <1>3, <2>1, <2>2, <2>5 DEF FinalEvent
<1>4. CASE Len(s) = 3
  <2>1. s[1].type = "reserve" /\ s[2].type = "uncertain" /\ s[3].type = "correction"
    BY <1>4 DEF HistoryOK
  <2>2. 3 \in DOMAIN s /\ \A k \in DOMAIN s : s[k].type = "correction" => k = 3
    BY <1>1, <1>4, <2>1
  <2>3. HasEvent(s, "correction") /\ EventOf(s, "correction") = s[3]
    BY <2>1, <2>2, OnlyEvent
  <2> QED BY <1>1, <1>4, <2>3 DEF FinalEvent
<1> QED BY <1>1, <1>2, <1>3, <1>4

\* What the ledger reads from a history.
LEMMA HistoryFacts ==
  ASSUME NEW s \in Seq(Event), HistoryOK(s), s # <<>>
  PROVE  /\ ReservedAt(s) = s[1].at /\ OperationOf(s) = s[1].op
         /\ s[1] \in Event /\ s[1].amount \in Nat /\ s[1].at \in Months
         /\ EventOf(s, "reserve") = s[1]
         /\ AmountOf(s) = s[Len(s)].amount /\ AmountOf(s) \in Nat
         /\ Due(s) \in Nat /\ Due(s) <= AmountOf(s) /\ Due(s) <= s[1].amount
         /\ AmountOf(s) >= s[1].amount => Due(s) = s[1].amount
         /\ Open(s) <=> s[Len(s)].type \in {"reserve", "uncertain"}
<1>1. EventOf(s, "reserve") = s[1] /\ s[1] \in Event
  BY ReserveIsFirst
<1>2. Len(s) \in 1..3 /\ s[Len(s)] \in Event /\ FinalEvent(s) = s[Len(s)]
  BY FinalIsLast
<1>3. ReservedAt(s) = s[1].at /\ OperationOf(s) = s[1].op
  BY <1>1 DEF ReservedAt, OperationOf
<1>4. s[1].amount \in Nat /\ s[1].at \in Months /\ s[Len(s)].amount \in Nat
      /\ s[Len(s)].type \in EventTypes
  BY <1>1, <1>2 DEF Event
<1>5. AmountOf(s) = s[Len(s)].amount /\ AmountOf(s) \in Nat
  BY <1>2, <1>4 DEF AmountOf
<1>6. /\ Due(s) \in Nat /\ Due(s) <= AmountOf(s) /\ Due(s) <= s[1].amount
      /\ AmountOf(s) >= s[1].amount => Due(s) = s[1].amount
  BY <1>1, <1>4, <1>5 DEF Due
<1>7. Open(s) <=> s[Len(s)].type \in {"reserve", "uncertain"}
  BY <1>2, <1>4 DEF Open, StatusOf, EventTypes
<1> QED BY <1>1, <1>3, <1>4, <1>5, <1>6, <1>7

\* An outcome appended to an open attempt makes it count no more.
LEMMA OutcomeIsWeaker ==
  ASSUME NEW h \in Seq(Event), HistoryOK(h), h # <<>>, NEW e \in Event,
         HistoryOK(Append(h, e)),
         Len(h) = 1 \/ (Len(h) = 2 /\ h[2].type = "uncertain" /\ h[2].amount = h[1].amount)
  PROVE  Weaker(Append(h, e), h)
<1> DEFINE g == Append(h, e)
<1>1. g \in Seq(Event) /\ Len(g) = Len(h) + 1 /\ g # <<>>
  BY AppendFacts
<1>2. g[1] = h[1]
  <2>1. 1 \in 1..Len(h)
    OBVIOUS
  <2> QED BY <2>1, AppendFacts
<1>3. Due(h) = h[1].amount /\ Open(h)
  <2>1. h[Len(h)].amount = h[1].amount /\ h[1].amount \in Nat
        /\ AmountOf(h) = h[Len(h)].amount
    BY HistoryFacts
  <2>2. Due(h) = h[1].amount
    BY <2>1, HistoryFacts
  <2>3. h[Len(h)].type \in {"reserve", "uncertain"}
    BY DEF HistoryOK
  <2> QED BY <2>2, <2>3, HistoryFacts
<1> HIDE DEF g
<1>4. Due(g) <= g[1].amount
  BY <1>1, HistoryFacts DEF g
<1> QED BY <1>1, <1>2, <1>3, <1>4 DEF Weaker, g

\* The sets the ledger counts are finite, and their attempts are recorded.
LEMMA CountedFacts ==
  ASSUME NEW l, Sane(l), NEW m, NEW op
  PROVE  /\ IsFiniteSet(CountedInMonth(l, m)) /\ IsFiniteSet(CountedInOperation(l, op))
         /\ \A a \in CountedInMonth(l, m) : a \in Attempts /\ l[a] # <<>>
         /\ \A a \in CountedInOperation(l, op) : a \in Attempts /\ l[a] # <<>>
         /\ \A a \in Attempts :
              /\ a \in CountedInMonth(l, m) <=> l[a] # <<>> /\ (l[a][1].at = m \/ Open(l[a]))
              /\ a \in CountedInOperation(l, op) <=> l[a] # <<>> /\ l[a][1].op = op
<1>1. CountedInMonth(l, m) \in SUBSET Attempts /\ CountedInOperation(l, op) \in SUBSET Attempts
  BY DEF CountedInMonth, CountedInOperation
<1>2. IsFiniteSet(CountedInMonth(l, m)) /\ IsFiniteSet(CountedInOperation(l, op))
  BY <1>1, LedgerAssumption, FS_Subset
<1>3. \A a \in Attempts : l[a] # <<>> => ReservedAt(l[a]) = l[a][1].at
                                        /\ OperationOf(l[a]) = l[a][1].op
  BY HistoryFacts DEF Sane
<1>4. \A a \in Attempts :
        /\ a \in CountedInMonth(l, m) <=> l[a] # <<>> /\ (l[a][1].at = m \/ Open(l[a]))
        /\ a \in CountedInOperation(l, op) <=> l[a] # <<>> /\ l[a][1].op = op
  BY <1>3 DEF CountedInMonth, CountedInOperation, Open
<1>5. \A a \in CountedInMonth(l, m) : a \in Attempts /\ l[a] # <<>>
  BY DEF CountedInMonth
<1>6. \A a \in CountedInOperation(l, op) : a \in Attempts /\ l[a] # <<>>
  BY DEF CountedInOperation
<1> QED BY <1>2, <1>4, <1>5, <1>6

\* What is added up are natural numbers.
LEMMA SummandsType ==
  ASSUME NEW l, Sane(l), NEW S, \A a \in S : a \in Attempts /\ l[a] # <<>>
  PROVE  /\ [a \in S |-> Due(l[a])] \in [S -> Nat]
         /\ [a \in S |-> AmountOf(l[a])] \in [S -> Nat]
         /\ \A a \in S : Due(l[a]) <= AmountOf(l[a])
<1>1. \A a \in S : Due(l[a]) \in Nat /\ AmountOf(l[a]) \in Nat /\ Due(l[a]) <= AmountOf(l[a])
  BY HistoryFacts DEF Sane
<1> QED BY <1>1

\* Fewer attempts, each due no more.
LEMMA LessIsDue ==
  ASSUME NEW k, NEW l, Sane(k), Sane(l), NEW S, NEW T, IsFiniteSet(S), T \subseteq S,
         \A a \in S : a \in Attempts /\ k[a] # <<>>,
         \A a \in T : a \in Attempts /\ l[a] # <<>>,
         \A a \in T : Due(l[a]) <= Due(k[a])
  PROVE  DueIn(l, T) <= DueIn(k, S)
<1> DEFINE u == [a \in T |-> Due(l[a])]
           v == [a \in S |-> Due(k[a])]
<1>1. u \in [T -> Nat]
  BY SummandsType
<1>2. v \in [S -> Nat]
  BY SummandsType
<1>3. \A a \in T : u[a] <= v[a]
  OBVIOUS
<1>4. SumFunction(u) <= SumFunction(v)
  <2> HIDE DEF u, v
  <2> QED BY <1>1, <1>2, <1>3, SumMonotone
<1> QED BY <1>4 DEF DueIn

\* What is due is a natural number.
LEMMA DueType ==
  ASSUME NEW l, Sane(l), NEW S, IsFiniteSet(S), \A a \in S : a \in Attempts /\ l[a] # <<>>
  PROVE  DueIn(l, S) \in Nat
<1> DEFINE u == [a \in S |-> Due(l[a])]
<1>1. u \in [S -> Nat]
  BY SummandsType
<1>2. SumFunction(u) \in Nat
  <2> HIDE DEF u
  <2> QED BY <1>1, SumType
<1> QED BY <1>2 DEF DueIn

\* Weaker histories stay within the caps.
LEMMA WeakerWithin ==
  ASSUME NEW k, NEW l, Sane(k), Sane(l), NEW m,
         \A a \in Attempts : Weaker(l[a], k[a]), Within(k, m)
  PROVE  Within(l, m)
<1>1. ASSUME NEW S, NEW T, NEW cap \in Nat, IsFiniteSet(S), IsFiniteSet(T), T \subseteq S,
             \A a \in S : a \in Attempts /\ k[a] # <<>>,
             \A a \in T : a \in Attempts /\ l[a] # <<>>, DueIn(k, S) <= cap
      PROVE  DueIn(l, T) <= cap
  <2>1. \A a \in T : Due(l[a]) <= Due(k[a])
    BY <1>1 DEF Weaker
  <2>2. DueIn(l, T) <= DueIn(k, S)
    BY <1>1, <2>1, LessIsDue
  <2>3. DueIn(l, T) \in Nat /\ DueIn(k, S) \in Nat
    BY <1>1, DueType
  <2> QED BY <1>1, <2>2, <2>3
<1>2. MonthlyCap \in Nat /\ OperationCap \in Nat
  BY LedgerAssumption
<1>3. CountedInMonth(l, m) \subseteq CountedInMonth(k, m)
  <2> SUFFICES ASSUME NEW a \in CountedInMonth(l, m) PROVE a \in CountedInMonth(k, m)
    OBVIOUS
  <2>1. a \in Attempts /\ l[a] # <<>> /\ (l[a][1].at = m \/ Open(l[a]))
    BY CountedFacts
  <2>2. k[a] # <<>> /\ (k[a][1].at = m \/ Open(k[a]))
    BY <2>1 DEF Weaker
  <2> QED BY <2>1, <2>2, CountedFacts
<1>4. DueIn(l, CountedInMonth(l, m)) <= MonthlyCap
  <2>1. DueIn(k, CountedInMonth(k, m)) <= MonthlyCap
    BY DEF Within
  <2>2. /\ IsFiniteSet(CountedInMonth(k, m)) /\ IsFiniteSet(CountedInMonth(l, m))
        /\ \A a \in CountedInMonth(k, m) : a \in Attempts /\ k[a] # <<>>
        /\ \A a \in CountedInMonth(l, m) : a \in Attempts /\ l[a] # <<>>
    BY CountedFacts
  <2> QED BY <1>1, <1>2, <1>3, <2>1, <2>2
<1>5. ASSUME NEW op \in Operations
      PROVE  DueIn(l, CountedInOperation(l, op)) <= OperationCap
  <2>1. DueIn(k, CountedInOperation(k, op)) <= OperationCap
    BY DEF Within
  <2>2. /\ IsFiniteSet(CountedInOperation(k, op)) /\ IsFiniteSet(CountedInOperation(l, op))
        /\ \A a \in CountedInOperation(k, op) : a \in Attempts /\ k[a] # <<>>
        /\ \A a \in CountedInOperation(l, op) : a \in Attempts /\ l[a] # <<>>
    BY CountedFacts
  <2>3. CountedInOperation(l, op) \subseteq CountedInOperation(k, op)
    <3> SUFFICES ASSUME NEW a \in CountedInOperation(l, op)
                 PROVE  a \in CountedInOperation(k, op)
      OBVIOUS
    <3>1. a \in Attempts /\ l[a] # <<>> /\ l[a][1].op = op
      BY CountedFacts
    <3>2. k[a] # <<>> /\ k[a][1].op = op
      BY <3>1 DEF Weaker
    <3> QED BY <3>1, <3>2, CountedFacts
  <2> QED BY <1>1, <1>2, <2>1, <2>2, <2>3
<1> QED BY <1>4, <1>5 DEF Within

\* Recovery writes off at the amount that was reserved.
LEMMA RecoveredBooks ==
  ASSUME WorkspaceTypeOK, LedgerInv, BudgetInv
  PROVE  /\ Sane(log) /\ Sane(RecoveredLog)
         /\ Within(RecoveredLog, month)
         /\ \A a \in Attempts : BookOK(RecoveredLog[a], month)
         /\ \A a \in Attempts : log[a] = <<>> <=> RecoveredLog[a] = <<>>
<1>1. Sane(log) /\ Sane(RecoveredLog)
  BY RecoveredOK DEF Sane, LedgerInv, LedgerOK, AttemptOK
<1>2. ASSUME NEW a \in Attempts
      PROVE  /\ Weaker(RecoveredLog[a], log[a]) /\ BookOK(RecoveredLog[a], month)
             /\ log[a] = <<>> <=> RecoveredLog[a] = <<>>
  <2>1. log[a] \in Seq(Event) /\ HistoryOK(log[a]) /\ BookOK(log[a], month)
    BY <1>1 DEF Sane, BudgetInv
  <2>2. CASE Abandoned(a)
    <3> DEFINE e == [log[a][1] EXCEPT !.type = "uncertain", !.recovered = TRUE]
    <3>1. log[a] # <<>> /\ Len(log[a]) = 1
      BY <2>1, <2>2, OpenIffOneEvent DEF Abandoned, Recorded
    <3>2. EventOf(log[a], "reserve") = log[a][1] /\ log[a][1] \in Event
      BY <2>1, <3>1, ReserveIsFirst
    <3>3. e \in Event /\ e.amount = log[a][1].amount
      BY <3>2 DEF Event, EventTypes
    <3>4. RecoveredLog[a] = Append(log[a], e)
      BY <2>2, <3>2 DEF RecoveredLog
    <3> HIDE DEF e
    <3>5. HistoryOK(Append(log[a], e))
      BY <1>1, <3>4 DEF Sane
    <3>6. Weaker(Append(log[a], e), log[a])
      BY <2>1, <3>1, <3>3, <3>5, OutcomeIsWeaker
    <3>7. Append(log[a], e) # <<>> /\ Append(log[a], e)[1] = log[a][1]
      BY <3>1, <3>6 DEF Weaker
    <3>8. Append(log[a], e)[2] = e
      BY <2>1, <3>1, <3>3, AppendFacts
    <3>9. BookOK(Append(log[a], e), month)
      BY <2>1, <3>1, <3>3, <3>7, <3>8 DEF BookOK
    <3> QED BY <3>1, <3>4, <3>6, <3>7, <3>9
  <2>3. CASE ~Abandoned(a)
    <3>1. RecoveredLog[a] = log[a]
      BY <2>3 DEF RecoveredLog
    <3>2. log[a] # <<>> => Due(log[a]) \in Nat
      BY <2>1, HistoryFacts
    <3>3. Weaker(log[a], log[a])
      BY <3>2 DEF Weaker
    <3> QED BY <2>1, <3>1, <3>3
  <2> QED BY <2>2, <2>3
<1>3. Within(RecoveredLog, month)
  BY <1>1, <1>2, WeakerWithin DEF BudgetInv
<1> QED BY <1>1, <1>2, <1>3

\* One attempt more adds its own amount.
LEMMA OneMoreDue ==
  ASSUME NEW k, NEW l, Sane(k), Sane(l), NEW a \in Attempts, NEW cost \in Nat,
         \A b \in Attempts : b # a => l[b] = k[b], l[a] # <<>>, Due(l[a]) <= cost,
         NEW S, NEW T, IsFiniteSet(S), IsFiniteSet(T), S \subseteq T \cup {a},
         \A b \in S : b \in Attempts /\ l[b] # <<>>,
         \A b \in T : b \in Attempts /\ k[b] # <<>>
  PROVE  /\ DueIn(l, S) <= SumAmounts(k, T) + cost
         /\ DueIn(l, S) <= DueIn(k, T) + cost
<1> DEFINE v == [b \in S |-> Due(l[b])]
           u == [b \in T |-> AmountOf(k[b])]
           w == [b \in T |-> Due(k[b])]
<1>1. v \in [S -> Nat]
  BY SummandsType
<1>2. u \in [T -> Nat] /\ w \in [T -> Nat] /\ \A b \in T : Due(k[b]) <= AmountOf(k[b])
  BY SummandsType
<1>3. a \in S => v[a] <= cost
  OBVIOUS
<1>4. \A b \in S \ {a} : b \in T /\ v[b] = w[b] /\ w[b] <= u[b] /\ w[b] \in Nat
  <2>1. \A b \in S \ {a} : b \in T /\ l[b] = k[b]
    OBVIOUS
  <2> QED BY <1>2, <2>1
<1>5. \A b \in S \ {a} : v[b] <= u[b] /\ v[b] <= w[b]
  <2> HIDE DEF u, v, w
  <2> QED BY <1>4
<1> HIDE DEF u, v, w
<1>6. SumFunction(v) <= SumFunction(u) + cost
  BY <1>1, <1>2, <1>3, <1>5, SumOneMore
<1>7. SumFunction(v) <= SumFunction(w) + cost
  BY <1>1, <1>2, <1>3, <1>5, SumOneMore
<1> QED BY <1>6, <1>7 DEF DueIn, SumAmounts, u, v, w

\* Sums of amounts are natural numbers.
LEMMA AmountsType ==
  ASSUME NEW l, Sane(l), NEW S, IsFiniteSet(S), \A a \in S : a \in Attempts /\ l[a] # <<>>
  PROVE  SumAmounts(l, S) \in Nat
<1> DEFINE u == [a \in S |-> AmountOf(l[a])]
<1>1. u \in [S -> Nat]
  BY SummandsType
<1>2. SumFunction(u) \in Nat
  <2> HIDE DEF u
  <2> QED BY <1>1, SumType
<1> QED BY <1>2 DEF SumAmounts

\* A reservation was checked against everything it is added to; a call of
\* unknown price adds nothing.
LEMMA ReserveBooks ==
  ASSUME WorkspaceTypeOK, LedgerInv, BudgetInv, NEW p \in Procs, NEW a \in Attempts,
         NEW op \in Operations, NEW cost \in Costs, NEW known \in BOOLEAN,
         Reserve(p, a, op, cost, known)
  PROVE  BudgetInv'
<1> DEFINE ev == ReserveEvent(p, op, cost, known)
           k == RecoveredLog
           l == [RecoveredLog EXCEPT ![a] = <<ev>>]
<1>1. log' = l /\ month' = month /\ log[a] = <<>>
  BY DEF Reserve, Recorded
<1>2. /\ Sane(log) /\ Sane(k) /\ Within(k, month)
      /\ \A b \in Attempts : BookOK(k[b], month)
      /\ \A b \in Attempts : log[b] = <<>> <=> k[b] = <<>>
  BY RecoveredBooks
<1>3. Sane(l)
  <2>1. LedgerInv'
    BY ReserveOK
  <2> HIDE DEF l
  <2> QED BY <1>1, <2>1 DEF LedgerInv, LedgerOK, AttemptOK, Sane
<1>4. cost \in Nat /\ month \in Nat /\ MonthlyCap \in Nat /\ OperationCap \in Nat
  BY LedgerAssumption DEF LedgerInv, Months
<1>5. l[a] = <<ev>> /\ \A b \in Attempts : b # a => l[b] = k[b]
  BY <1>2 DEF Sane
<1>6. ev.amount = cost /\ ev.at = month /\ ev.type = "reserve"
  BY DEF ReserveEvent
<1> HIDE DEF ev
<1>7. l[a] # <<>> /\ l[a][1] = ev /\ Len(l[a]) = 1
  BY <1>5
<1> HIDE DEF l, k
<1>8. Due(l[a]) <= cost
  <2>1. l[a] \in Seq(Event) /\ HistoryOK(l[a])
    BY <1>3 DEF Sane
  <2>2. Due(l[a]) <= l[a][1].amount
    BY <1>7, <2>1, HistoryFacts
  <2> QED BY <1>6, <1>7, <2>2
<1>9. \A b \in Attempts : BookOK(l[b], month)
  <2>1. BookOK(l[a], month)
    BY <1>4, <1>6, <1>7 DEF BookOK
  <2> QED BY <1>2, <1>5, <2>1
<1>10. ASSUME NEW S, NEW T, NEW cap \in Nat, IsFiniteSet(S), IsFiniteSet(T),
              S \subseteq T \cup {a},
              \A b \in S : b \in Attempts /\ l[b] # <<>>,
              \A b \in T : b \in Attempts /\ k[b] # <<>>,
              DueIn(k, T) <= cap, known => SumAmounts(k, T) + cost <= cap
       PROVE  DueIn(l, S) <= cap
  <2>1. /\ DueIn(l, S) <= SumAmounts(k, T) + cost
        /\ DueIn(l, S) <= DueIn(k, T) + cost
    BY <1>2, <1>3, <1>4, <1>5, <1>7, <1>8, <1>10, OneMoreDue
  <2>2. DueIn(l, S) \in Nat /\ DueIn(k, T) \in Nat /\ SumAmounts(k, T) \in Nat
    BY <1>2, <1>3, <1>10, DueType, AmountsType
  <2>3. known \/ cost = 0
    BY DEF Reserve
  <2> QED BY <1>4, <1>10, <2>1, <2>2, <2>3
<1>11. DueIn(l, CountedInMonth(l, month)) <= MonthlyCap
  <2> DEFINE S == CountedInMonth(l, month)
             T == CountedInMonth(k, month)
  <2>1. /\ IsFiniteSet(S) /\ IsFiniteSet(T)
        /\ \A b \in S : b \in Attempts /\ l[b] # <<>>
        /\ \A b \in T : b \in Attempts /\ k[b] # <<>>
    BY <1>2, <1>3, CountedFacts
  <2>2. S \subseteq T \cup {a}
    <3> SUFFICES ASSUME NEW b \in S, b # a PROVE b \in T
      OBVIOUS
    <3>1. b \in Attempts /\ l[b] # <<>> /\ (l[b][1].at = month \/ Open(l[b]))
      BY <1>3, CountedFacts
    <3>2. l[b] = k[b]
      BY <1>5, <3>1
    <3> QED BY <1>2, <3>1, <3>2, CountedFacts
  <2>3. known => SumAmounts(k, T) + cost <= MonthlyCap
    BY DEF Reserve, WithinCaps, k
  <2>4. DueIn(k, T) <= MonthlyCap
    BY <1>2 DEF Within
  <2> HIDE DEF S, T
  <2>5. DueIn(l, S) <= MonthlyCap
    BY <1>4, <1>10, <2>1, <2>2, <2>3, <2>4
  <2> QED BY <2>5 DEF S
<1>12. ASSUME NEW o \in Operations
       PROVE  DueIn(l, CountedInOperation(l, o)) <= OperationCap
  <2> DEFINE S == CountedInOperation(l, o)
             T == CountedInOperation(k, o)
  <2>1. /\ IsFiniteSet(S) /\ IsFiniteSet(T)
        /\ \A b \in S : b \in Attempts /\ l[b] # <<>>
        /\ \A b \in T : b \in Attempts /\ k[b] # <<>>
    BY <1>2, <1>3, CountedFacts
  <2>2. \A b \in S : b # a => b \in T
    <3> SUFFICES ASSUME NEW b \in S, b # a PROVE b \in T
      OBVIOUS
    <3>1. b \in Attempts /\ l[b] # <<>> /\ l[b][1].op = o
      BY <1>3, CountedFacts
    <3>2. l[b] = k[b]
      BY <1>5, <3>1
    <3> QED BY <1>2, <3>1, <3>2, CountedFacts
  <2>3. DueIn(k, T) <= OperationCap
    BY <1>2 DEF Within
  <2>4. CASE o = op
    <3>1. known => SumAmounts(k, T) + cost <= OperationCap
      BY <2>4 DEF Reserve, WithinCaps, k
    <3> HIDE DEF S, T
    <3>2. S \subseteq T \cup {a}
      BY <2>2
    <3>3. DueIn(l, S) <= OperationCap
      BY <1>4, <1>10, <2>1, <2>3, <3>1, <3>2
    <3> QED BY <3>3 DEF S
  <2>5. CASE o # op
    <3>1. a \notin S
      <4>1. l[a][1].op = op
        BY <1>7 DEF ev, ReserveEvent
      <4> QED BY <1>3, <2>5, <4>1, CountedFacts
    <3> HIDE DEF S, T
    <3>2. S \subseteq T /\ \A b \in S : l[b] = k[b]
      BY <1>5, <2>1, <2>2, <3>1
    <3>3. \A b \in S : Due(l[b]) <= Due(k[b])
      <4>1. \A b \in S : Due(l[b]) \in Nat
        BY <1>3, <2>1, HistoryFacts DEF Sane
      <4> QED BY <3>2, <4>1
    <3>4. DueIn(l, S) <= DueIn(k, T)
      BY <1>2, <1>3, <2>1, <3>2, <3>3, LessIsDue
    <3>5. DueIn(l, S) \in Nat /\ DueIn(k, T) \in Nat
      BY <1>2, <1>3, <2>1, DueType
    <3>6. DueIn(l, S) <= OperationCap
      BY <1>4, <2>3, <3>4, <3>5
    <3> QED BY <3>6 DEF S
  <2> QED BY <2>4, <2>5
<1>13. Within(l, month)
  BY <1>11, <1>12 DEF Within
<1> QED BY <1>1, <1>9, <1>13 DEF BudgetInv, Within, DueIn, Due, CountedInMonth, CountedInOperation

\* The budgets are judged by the events and the clock alone.
LEMMA BooksHold ==
  ASSUME NEW l, NEW m, log' = l, month' = m, Within(l, m),
         \A a \in Attempts : BookOK(l[a], m)
  PROVE  BudgetInv'
BY DEF BudgetInv, BookOK, Within, DueIn, Due, CountedInMonth, CountedInOperation

\* An outcome is written over histories that are within the caps.
LEMMA OutcomeBooks ==
  ASSUME NEW k, Sane(k), Within(k, month), \A b \in Attempts : BookOK(k[b], month),
         NEW a \in Attempts, k[a] # <<>>, NEW e \in Event,
         Len(k[a]) = 1 \/ (Len(k[a]) = 2 /\ k[a][2].type = "uncertain"),
         e.type = "uncertain" => Len(k[a]) = 1 /\ e.amount = k[a][1].amount,
         log' = [k EXCEPT ![a] = Append(k[a], e)], Sane(log'), month' = month
  PROVE  BudgetInv'
<1> DEFINE g == Append(k[a], e)
           l == [k EXCEPT ![a] = g]
<1>1. l[a] = g /\ \A b \in Attempts : b # a => l[b] = k[b]
  BY DEF Sane
<1>2. Sane(l) /\ log' = l
  OBVIOUS
<1>3. k[a] \in Seq(Event) /\ HistoryOK(k[a]) /\ HistoryOK(g) /\ BookOK(k[a], month)
  <2> HIDE DEF l, g
  <2> QED BY <1>1, <1>2 DEF Sane
<1>4. Len(k[a]) = 2 => k[a][2].amount = k[a][1].amount
  BY <1>3 DEF BookOK
<1>5. Weaker(g, k[a])
  BY <1>3, <1>4, OutcomeIsWeaker
<1>6. g # <<>> /\ g[1] = k[a][1]
  <2> HIDE DEF g
  <2> QED BY <1>5 DEF Weaker
<1>7. Len(g) = Len(k[a]) + 1 /\ g[Len(k[a]) + 1] = e
  BY <1>3, AppendFacts
<1> HIDE DEF g, l
<1>8. BookOK(g, month)
  <2>1. CASE Len(k[a]) = 1
    <3>1. Len(g) = 2 /\ g[2] = e
      BY <1>7, <2>1
    <3> QED BY <1>3, <1>6, <3>1 DEF BookOK
  <2>2. CASE Len(k[a]) = 2
    <3>1. Len(g) = 3
      BY <1>7, <2>2
    <3> QED BY <1>3, <1>6, <3>1 DEF BookOK
  <2> QED BY <2>1, <2>2
<1>9. ASSUME NEW b \in Attempts PROVE Weaker(l[b], k[b]) /\ BookOK(l[b], month)
  <2>1. CASE b = a
    BY <1>1, <1>5, <1>8, <2>1
  <2>2. CASE b # a
    <3>1. l[b] = k[b] /\ k[b] \in Seq(Event) /\ HistoryOK(k[b])
      BY <1>1, <2>2 DEF Sane
    <3>2. k[b] # <<>> => Due(k[b]) \in Nat
      BY <3>1, HistoryFacts
    <3>3. Weaker(k[b], k[b])
      BY <3>2 DEF Weaker
    <3> QED BY <3>1, <3>3
  <2> QED BY <2>1, <2>2
<1>10. Within(l, month)
  BY <1>2, <1>9, WeakerWithin
<1> QED BY <1>2, <1>9, <1>10, BooksHold

\* The tables after a step are sane.
LEMMA SaneNext ==
  ASSUME LedgerInv'
  PROVE  Sane(log')
BY DEF LedgerInv, LedgerOK, AttemptOK, HistoryOK, Sane

\* Settling an attempt, or marking it uncertain, keeps the books within the caps.
LEMMA FinishBooks ==
  ASSUME LedgerInv, BudgetInv, NEW a \in Attempts, NEW e \in Event,
         e.type \in {"settle", "uncertain"}, EventOK(e), Finish(a, e),
         e.type = "uncertain" => e.amount = log[a][1].amount
  PROVE  BudgetInv'
<1>1. Sane(log)
  BY DEF LedgerInv, LedgerOK, AttemptOK, Sane
<1>2. log[a] # <<>> /\ log' = [log EXCEPT ![a] = Append(log[a], e)] /\ month' = month
  BY DEF Finish, Recorded
<1>3. Len(log[a]) = 1
  BY <1>1, <1>2, OpenIffOneEvent DEF Finish, Sane
<1>4. Sane(log')
  BY FinishOK, SaneNext
<1> QED BY <1>1, <1>2, <1>3, <1>4, OutcomeBooks DEF BudgetInv

\* The gateway's outcomes.
LEMMA OutcomesBooks ==
  ASSUME LedgerInv, BudgetInv, NEW p \in Procs, NEW a \in Attempts,
         \/ \E actual \in Costs : Settle(p, a, actual)
         \/ MarkUncertain(p, a)
  PROVE  BudgetInv'
<1> DEFINE r == EventOf(log[a], "reserve")
<1>1. log[a] \in Seq(Event) /\ HistoryOK(log[a]) /\ log[a] # <<>>
  BY DEF LedgerInv, LedgerOK, AttemptOK, Settle, MarkUncertain, CallOf, Recorded
<1>2. r \in Event /\ r = log[a][1]
  BY <1>1, ReserveIsFirst
<1>3. ASSUME NEW actual \in Costs, Settle(p, a, actual) PROVE BudgetInv'
  <2> DEFINE e == [r EXCEPT !.type = "settle", !.amount = actual, !.by = NoProc]
  <2>1. e \in Event /\ e.type = "settle" /\ EventOK(e)
    BY <1>2, LedgerAssumption, OwnersAssumption
       DEF Event, EventTypes, Owners, EventOK, OwnerAlive
  <2>2. Finish(a, e)
    BY <1>3 DEF Settle
  <2> HIDE DEF e
  <2> QED BY <2>1, <2>2, FinishBooks
<1>4. ASSUME MarkUncertain(p, a) PROVE BudgetInv'
  <2> DEFINE e == [r EXCEPT !.type = "uncertain", !.by = NoProc]
  <2>1. e \in Event /\ e.type = "uncertain" /\ EventOK(e) /\ e.amount = log[a][1].amount
    BY <1>2, OwnersAssumption DEF Event, EventTypes, Owners, EventOK, OwnerAlive
  <2>2. Finish(a, e)
    BY <1>4 DEF MarkUncertain
  <2> HIDE DEF e
  <2> QED BY <2>1, <2>2, FinishBooks
<1> QED BY <1>3, <1>4

\* A correction replaces the reserved amount of an attempt that still counted.
LEMMA CorrectionBooks ==
  ASSUME WorkspaceTypeOK, LedgerInv, BudgetInv, NEW p \in Procs, NEW a \in Attempts,
         NEW actual \in Costs, CorrectUncertain(p, a, actual)
  PROVE  BudgetInv'
<1> DEFINE k == RecoveredLog
           e == [EventOf(k[a], "uncertain") EXCEPT
                   !.type = "correction", !.amount = actual, !.known = TRUE]
<1>1. /\ Sane(k) /\ Within(k, month)
      /\ \A b \in Attempts : BookOK(k[b], month)
      /\ \A b \in Attempts : log[b] = <<>> <=> k[b] = <<>>
  BY RecoveredBooks
<1>2. k[a] # <<>> /\ StatusOf(k[a]) = "uncertain"
  BY <1>1 DEF CorrectUncertain, Recorded
<1>3. log' = [k EXCEPT ![a] = Append(k[a], e)] /\ month' = month
  BY DEF CorrectUncertain
<1>4. k[a] \in Seq(Event) /\ HistoryOK(k[a])
  BY <1>1 DEF Sane
<1> HIDE DEF k
<1>5. Len(k[a]) = 2 /\ k[a][2].type = "uncertain" /\ EventOf(k[a], "uncertain") = k[a][2]
  BY <1>2, <1>4, UncertainIsSecond
<1>6. k[a][2] \in Event
  BY <1>4, <1>5
<1>7. e \in Event /\ e.type = "correction"
  BY <1>5, <1>6, LedgerAssumption DEF Event, EventTypes
<1>8. Sane(log')
  BY CorrectionOK, SaneNext
<1> HIDE DEF e
<1> QED BY <1>1, <1>2, <1>3, <1>5, <1>7, <1>8, OutcomeBooks

\* A month that passes leaves what is still open.
LEMMA MonthBooks ==
  ASSUME LedgerInv, BudgetInv, MonthPasses
  PROVE  BudgetInv'
<1>1. Sane(log)
  BY DEF LedgerInv, LedgerOK, AttemptOK, Sane
<1>2. log' = log /\ month' = month + 1 /\ month \in Nat
  BY DEF MonthPasses, LedgerInv, Months
<1> DEFINE S == CountedInMonth(log, month)
           T == CountedInMonth(log, month + 1)
<1>3. ASSUME NEW a \in Attempts, log[a] # <<>>
      PROVE  log[a][1].at \in Nat /\ log[a][1].at <= month /\ Due(log[a]) \in Nat
  <2>1. log[a] \in Seq(Event) /\ HistoryOK(log[a])
    BY <1>1 DEF Sane
  <2> QED BY <1>3, <2>1, HistoryFacts DEF BudgetInv, BookOK, Months
<1>4. \A a \in Attempts : BookOK(log[a], month + 1)
  BY <1>2, <1>3 DEF BudgetInv, BookOK
<1>5. T \subseteq S
  <2> SUFFICES ASSUME NEW a \in T PROVE a \in S
    OBVIOUS
  <2>1. a \in Attempts /\ log[a] # <<>> /\ (log[a][1].at = month + 1 \/ Open(log[a]))
    BY <1>1, CountedFacts
  <2>2. log[a][1].at # month + 1
    BY <1>2, <1>3, <2>1
  <2> QED BY <1>1, <2>1, <2>2, CountedFacts
<1>6. /\ IsFiniteSet(S) /\ IsFiniteSet(T)
      /\ \A b \in S : b \in Attempts /\ log[b] # <<>>
      /\ \A b \in T : b \in Attempts /\ log[b] # <<>>
  BY <1>1, CountedFacts
<1>7. DueIn(log, S) <= MonthlyCap
  BY DEF BudgetInv, Within
<1> HIDE DEF S, T
<1>8. \A b \in T : Due(log[b]) <= Due(log[b])
  BY <1>3, <1>6
<1>9. DueIn(log, T) <= DueIn(log, S)
  BY <1>1, <1>5, <1>6, <1>8, LessIsDue
<1>10. DueIn(log, T) \in Nat /\ DueIn(log, S) \in Nat /\ MonthlyCap \in Nat
  BY <1>1, <1>6, DueType, LedgerAssumption
<1>11. DueIn(log, T) <= MonthlyCap
  BY <1>7, <1>9, <1>10
<1>12. Within(log, month + 1)
  BY <1>11 DEF BudgetInv, Within, T
<1> QED BY <1>2, <1>4, <1>12, BooksHold

\* A step that leaves the events and the clock alone, and recovery.
LEMMA QuietBooks ==
  ASSUME WorkspaceTypeOK, LedgerInv, BudgetInv, log' = log \/ log' = RecoveredLog,
         month' = month
  PROVE  BudgetInv'
<1>1. CASE log' = log
  BY <1>1, BooksHold DEF BudgetInv
<1>2. CASE log' = RecoveredLog
  BY <1>2, RecoveredBooks, BooksHold
<1> QED BY <1>1, <1>2

\* The invariant of the budgets is inductive, given those of table and ledger.
LEMMA BudgetNext == Inv /\ LedgerInv /\ BudgetInv /\ [Next]_vars => BudgetInv'
<1> SUFFICES ASSUME Inv, LedgerInv, BudgetInv, [Next]_vars PROVE BudgetInv'
  OBVIOUS
<1>t. WorkspaceTypeOK
  BY DEF Inv
<1>1. CASE JobNext /\ UNCHANGED ledgerVars
  BY <1>t, <1>1, QuietBooks DEF ledgerVars
<1>2. CASE LedgerNext /\ UNCHANGED jobVars
  <2>1. ASSUME NEW p \in Procs, RecoverUsage(p) PROVE BudgetInv'
    BY <1>t, <2>1, QuietBooks DEF RecoverUsage
  <2>2. ASSUME NEW a \in Attempts, SlotLapses(a) PROVE BudgetInv'
    BY <1>t, <2>2, QuietBooks DEF SlotLapses
  <2> QED BY <1>t, <1>2, <2>1, <2>2, ReserveBooks, OutcomesBooks, CorrectionBooks, MonthBooks
          DEF LedgerNext
<1>3. CASE BarrierNext
  <2>1. (log' = log \/ log' = RecoveredLog) /\ month' = month
    BY <1>3 DEF BarrierNext, Start, Stop, AcquireLock, RecoverBeforeEntry, RaiseFlag,
                RefuseEntry, ClearFlag, ReleaseLock, ledgerVars
  <2> QED BY <1>t, <2>1, QuietBooks
<1>4. CASE UNCHANGED vars
  BY <1>t, <1>4, QuietBooks DEF vars, ledgerVars
<1> QED BY <1>1, <1>2, <1>3, <1>4 DEF Next

\* The reservations of an older release reserve nothing.
LEMMA BudgetInit == Init => BudgetInv
<1> SUFFICES ASSUME Init PROVE BudgetInv
  OBVIOUS
<1> USE LedgerAssumption
<1>1. Sane(log)
  BY LedgerInitInv DEF LedgerInv, LedgerOK, AttemptOK, Sane
<1>2. month = 1 /\ \A a \in Attempts :
        log[a] # <<>> => log[a][1].at = 1 /\ log[a][1].amount = 0 /\ Len(log[a]) = 1
  BY DEF Init, LedgerInit
<1>3. \A a \in Attempts : BookOK(log[a], month)
  BY <1>2 DEF BookOK
<1>4. \A a \in Attempts : log[a] # <<>> => Due(log[a]) = 0
  <2> SUFFICES ASSUME NEW a \in Attempts, log[a] # <<>> PROVE Due(log[a]) = 0
    OBVIOUS
  <2>1. log[a] \in Seq(Event) /\ HistoryOK(log[a])
    BY <1>1 DEF Sane
  <2>2. Due(log[a]) \in Nat /\ Due(log[a]) <= log[a][1].amount
    BY <2>1, HistoryFacts
  <2> QED BY <1>2, <2>2
<1>5. ASSUME NEW S, IsFiniteSet(S), \A a \in S : a \in Attempts /\ log[a] # <<>>
      PROVE  DueIn(log, S) = 0
  <2> DEFINE u == [a \in S |-> Due(log[a])]
  <2>1. u = [a \in S |-> 0]
    BY <1>4, <1>5
  <2>2. SumFunction([a \in S |-> 0]) = 0 * Cardinality(S)
    BY <1>5, SumOfConstants
  <2>3. Cardinality(S) \in Nat
    BY <1>5, FS_CardinalityType
  <2>4. 0 * Cardinality(S) = 0
    BY <2>3
  <2> QED BY <2>1, <2>2, <2>4 DEF DueIn
<1>6. DueIn(log, CountedInMonth(log, month)) = 0
  BY <1>1, <1>5, CountedFacts
<1>7. \A op \in Operations : DueIn(log, CountedInOperation(log, op)) = 0
  BY <1>1, <1>5, CountedFacts
<1>8. Within(log, month)
  BY <1>6, <1>7 DEF Within
<1> QED BY <1>3, <1>8 DEF BudgetInv

(***************************************************************************)
(* The budgets hold for everything admitted: whatever calls are reserved,  *)
(* settled late, written off, recovered or corrected, in whatever order    *)
(* and across months, what counts against the month and against each       *)
(* operation stays within its cap, except for what an outcome reported     *)
(* beyond its own reservation (ledger.py:124-141).                         *)
(***************************************************************************)
THEOREM BudgetsAreKept == Spec => []BudgetsHold
<1>1. Spec => []BudgetInv
  BY BudgetInit, BudgetNext, Invariance, LedgerInvariance, PTL DEF Spec
<1>2. LedgerInv /\ BudgetInv => BudgetsHold
  <2> SUFFICES ASSUME LedgerInv, BudgetInv PROVE BudgetsHold
    OBVIOUS
  <2>1. Sane(log)
    BY DEF LedgerInv, LedgerOK, AttemptOK, Sane
  <2>2. ASSUME NEW S, NEW cap \in Nat, IsFiniteSet(S),
               \A a \in S : a \in Attempts /\ log[a] # <<>>, DueIn(log, S) <= cap
        PROVE  SumAmounts(log, S) <= cap + SumOverrun(S)
    <3> DEFINE d == [a \in S |-> Due(log[a])]
               o == [a \in S |-> Overrun(a)]
               w == [a \in S |-> AmountOf(log[a])]
    <3>1. d \in [S -> Nat]
      BY <2>1, <2>2, SummandsType
    <3>2. w \in [S -> Nat]
      BY <2>1, <2>2, SummandsType
    <3>3. \A a \in S : Overrun(a) \in Nat /\ AmountOf(log[a]) = Due(log[a]) + Overrun(a)
      <4> SUFFICES ASSUME NEW a \in S
                   PROVE  Overrun(a) \in Nat /\ AmountOf(log[a]) = Due(log[a]) + Overrun(a)
        OBVIOUS
      <4>1. log[a] \in Seq(Event) /\ HistoryOK(log[a]) /\ log[a] # <<>>
        BY <2>1, <2>2 DEF Sane
      <4>2. AmountOf(log[a]) \in Nat /\ EventOf(log[a], "reserve").amount \in Nat
        BY <4>1, HistoryFacts
      <4> QED BY <4>2 DEF Overrun, Due
    <3>4. o \in [S -> Nat] /\ \A a \in S : w[a] = d[a] + o[a]
      BY <3>3
    <3> HIDE DEF d, o, w
    <3>5. SumFunction(w) = SumFunction(d) + SumFunction(o)
      <4>1. IsFiniteSet(S) /\ o \in [S -> Nat] /\ \A x \in S : w[x] = d[x] + o[x]
        BY <2>2, <3>4
      <4> QED BY ONLY <3>1, <3>2, <4>1, SumOfSums
    <3>6. SumFunction(d) \in Nat /\ SumFunction(o) \in Nat
      BY <2>2, <3>1, <3>4, SumType
    <3>7. SumFunction(d) <= cap
      BY <2>2 DEF DueIn, d
    <3>8. SumFunction(w) <= cap + SumFunction(o)
      BY <2>2, <3>5, <3>6, <3>7
    <3> QED BY <3>8 DEF SumAmounts, SumOverrun, o, w
  <2>3. MonthlyCap \in Nat /\ OperationCap \in Nat
    BY LedgerAssumption
  <2>4. SumAmounts(log, CountedInMonth(log, month))
          <= MonthlyCap + SumOverrun(CountedInMonth(log, month))
    BY <2>1, <2>2, <2>3, CountedFacts DEF BudgetInv, Within
  <2>5. ASSUME NEW op \in Operations
        PROVE  SumAmounts(log, CountedInOperation(log, op))
                 <= OperationCap + SumOverrun(CountedInOperation(log, op))
    BY <2>1, <2>2, <2>3, CountedFacts DEF BudgetInv, Within
  <2> QED BY <2>4, <2>5 DEF BudgetsHold
<1>3. QED
  BY <1>1, <1>2, LedgerInvariance, PTL
=============================================================================
