----------------------------- MODULE Retention -----------------------------
(***************************************************************************)
(* Pruning of jobs, staged uploads and usage history                       *)
(* (maintenance/retention.py, jobs/resources.py).                          *)
(*                                                                         *)
(* An upload is staged in a file before its job row is written, and the    *)
(* file is what a later resume reads.  The worker, the canceller and       *)
(* pruning all delete staged files.  Pruning also deletes the usage        *)
(* attempts that are resolved and old, by a retention period the user may  *)
(* lengthen or shorten, and records how far back the history still goes.   *)
(* All of it goes by the machine's clock, which may be put back.           *)
(***************************************************************************)
EXTENDS Integers, FiniteSets

CONSTANTS Uploads,       \* staged uploads, each with the job of its own
          Runs,          \* worker threads
          NoRun,
          UsageAttempts,
          Periods,       \* settings of usage_retention_months
          LastMonth      \* a bound on the calendar

ASSUME RetentionAssumption == /\ NoRun \notin Runs
                              /\ Periods \subseteq Nat \ {0}
                              /\ LastMonth \in Nat

VARIABLES staged,   \* the staged files and their age
          sjob,     \* the job rows
          srun,     \* what every worker thread does
          prune,    \* pruning under way, the maintenance flag up
          usage,    \* attempts in usage_events
          dropped,  \* attempts pruned so far
          month, period,
          floor     \* history_pruned_before
retentionVars == <<staged, sjob, srun, prune, usage, dropped, month, period, floor>>

NoJobRow == [state |-> "none", owner |-> NoRun, aged |-> FALSE]
IdleRun == [pc |-> "idle", job |-> "none"]
NotPruning == [pc |-> "idle", rows |-> {}, files |-> {}, usage |-> {}, cutoff |-> 0]
NoAttempt == [made |-> 0, last |-> 0, status |-> "none"]

ActiveStates == {"queued", "running", "cancel_requested"}
(* "failed" may be retried, "rejected" is failed and not retryable. *)
Finished == {"succeeded", "cancelled", "rejected"}
Needed == ActiveStates \cup {"paused", "failed"}

Init_Retention ==
  /\ staged = [u \in Uploads |-> "no"]
  /\ sjob = [u \in Uploads |-> NoJobRow]
  /\ srun = [w \in Runs |-> IdleRun]
  /\ prune = NotPruning
  /\ usage = [a \in UsageAttempts |-> NoAttempt]
  /\ dropped = {} /\ month = 1 /\ floor = 0
  /\ period \in Periods

uploadVars == <<staged, sjob, srun>>
usageVars == <<usage, dropped, month, period, floor>>

-----------------------------------------------------------------------------
(* Uploads. *)

StageUpload(u) ==
  /\ staged[u] = "no" /\ sjob[u] = NoJobRow
  /\ staged' = [staged EXCEPT ![u] = "new"]
  /\ UNCHANGED <<sjob, srun, prune>> /\ UNCHANGED usageVars

(* Imports have one target; a paused one holds it too. *)
TargetTaken(u) == \E v \in Uploads \ {u} : sjob[v].state \in ActiveStates \cup {"paused"}

(* The row is queued, or refused, under maintenance or beside another       *)
(* import, and the file removed.                                            *)
CreateJob(u) ==
  /\ staged[u] = "new" /\ sjob[u] = NoJobRow
  /\ IF prune.pc = "idle" /\ ~TargetTaken(u)
     THEN sjob' = [sjob EXCEPT ![u].state = "queued"] /\ UNCHANGED staged
     ELSE staged' = [staged EXCEPT ![u] = "no"] /\ UNCHANGED sjob
  /\ UNCHANGED <<srun, prune>> /\ UNCHANGED usageVars

(* A worker claims the row and reads the file. *)
ClaimUpload(w, u) ==
  /\ srun[w].pc = "idle" /\ sjob[u].state = "queued" /\ prune.pc = "idle"
  /\ sjob' = [sjob EXCEPT ![u].state = "running", ![u].owner = w, ![u].aged = FALSE]
  /\ srun' = [srun EXCEPT ![w] = [pc |-> "work", job |-> u]]
  /\ UNCHANGED <<staged, prune>> /\ UNCHANGED usageVars

Owns(w) == LET u == srun[w].job IN
           sjob[u].owner = w /\ sjob[u].state \in {"running", "cancel_requested"}

(* The states a run that was to end in one of them may end in: a request to *)
(* cancel turns success into a cancellation, and an error too unless it     *)
(* comes after the handler looked for it.                                   *)
Ends(u, end) == IF sjob[u].state = "running" THEN {end}
                ELSE {"cancelled"} \cup ({end} \ {"succeeded"})

(* The run ends; a row that is no longer the worker's stays as it is.  The  *)
(* clean-up comes after it.                                                 *)
EndUpload(w, end) ==
  /\ srun[w].pc = "work"
  /\ LET u == srun[w].job IN
     IF ~Owns(w) THEN UNCHANGED sjob
     ELSE \E s \in Ends(u, end) :
            sjob' = [sjob EXCEPT ![u].owner = NoRun, ![u].aged = FALSE, ![u].state = s]
  /\ srun' = [srun EXCEPT ![w].pc = "clean"]
  /\ UNCHANGED <<staged, prune>> /\ UNCHANGED usageVars

(* The finally of _run: the row's state now decides whether the file goes. *)
CleanUpload(w) ==
  /\ srun[w].pc = "clean"
  /\ LET u == srun[w].job IN
     staged' = IF sjob[u].state \in Finished THEN [staged EXCEPT ![u] = "no"]
               ELSE staged
  /\ srun' = [srun EXCEPT ![w] = IdleRun]
  /\ UNCHANGED <<sjob, prune>> /\ UNCHANGED usageVars

(* cancel: a row that nobody runs is cancelled at once, and its file goes. *)
CancelUpload(u) ==
  /\ prune.pc = "idle"
  /\ \/ /\ sjob[u].state = "running"
        /\ sjob' = [sjob EXCEPT ![u].state = "cancel_requested"]
        /\ UNCHANGED staged
     \/ /\ sjob[u].state \in {"queued", "paused"}
        /\ sjob' = [sjob EXCEPT ![u].state = "cancelled", ![u].aged = FALSE]
        /\ staged' = [staged EXCEPT ![u] = "no"]
  /\ UNCHANGED <<srun, prune>> /\ UNCHANGED usageVars

ResumeUpload(u) ==
  /\ sjob[u].state \in {"paused", "failed"} /\ prune.pc = "idle" /\ ~TargetTaken(u)
  /\ sjob' = [sjob EXCEPT ![u].state = "queued", ![u].aged = FALSE]
  /\ UNCHANGED <<staged, srun, prune>> /\ UNCHANGED usageVars

(* The lease lapses under the worker, or the worker's process dies. *)
InterruptUpload(w, dies) ==
  /\ srun[w].pc = "work"
  /\ sjob' = IF Owns(w) THEN [sjob EXCEPT ![srun[w].job].state = "paused",
                                          ![srun[w].job].owner = NoRun]
             ELSE sjob
  /\ srun' = IF dies THEN [srun EXCEPT ![w] = IdleRun] ELSE srun
  /\ UNCHANGED <<staged, prune>> /\ UNCHANGED usageVars

(* The process dies with the row still queued, and recovery pauses it. *)
PauseQueued(u) ==
  /\ sjob[u].state = "queued"
  /\ sjob' = [sjob EXCEPT ![u].state = "paused"]
  /\ UNCHANGED <<staged, srun, prune>> /\ UNCHANGED usageVars

(* Rows and files pass the operational cutoff. *)
GrowOld(u) ==
  /\ \/ staged[u] = "new" /\ staged' = [staged EXCEPT ![u] = "old"] /\ UNCHANGED sjob
     \/ /\ sjob[u].state \notin {"none"} \cup ActiveStates
        /\ sjob' = [sjob EXCEPT ![u].aged = TRUE] /\ UNCHANGED staged
  /\ UNCHANGED <<srun, prune>> /\ UNCHANGED usageVars

-----------------------------------------------------------------------------
(* Usage. *)

ReserveUsage(a) ==
  /\ usage[a] = NoAttempt /\ a \notin {d.id : d \in dropped} /\ prune.pc = "idle"
  /\ usage' = [usage EXCEPT ![a] = [made |-> month, last |-> month,
                                    status |-> "reserved"]]
  /\ UNCHANGED <<prune, dropped, month, period, floor>> /\ UNCHANGED uploadVars

(* A settlement, a write-off or, later, the correction of a write-off. *)
ResolveUsage(a, status) ==
  /\ usage[a].status \in {"reserved", "uncertain"} /\ status # usage[a].status
  /\ usage' = [usage EXCEPT ![a].last = IF @ > month THEN @ ELSE month,
                            ![a].status = status]
  /\ UNCHANGED <<prune, dropped, month, period, floor>> /\ UNCHANGED uploadVars

(* The clock goes on, or is put back. *)
ClockMoves(m) ==
  /\ m # month /\ month' = m
  /\ UNCHANGED <<prune, usage, dropped, period, floor>> /\ UNCHANGED uploadVars

SetPeriod(n) ==
  /\ n # period /\ period' = n
  /\ UNCHANGED <<prune, usage, dropped, month, floor>> /\ UNCHANGED uploadVars

-----------------------------------------------------------------------------
(* WorkspaceRetentionService.run *)

UsageCutoff == month - (period - 1)

(* Resolved, not of this month, and its last event before the cutoff. *)
PrunableUsage == {a \in UsageAttempts : /\ usage[a].status = "settled"
                                        /\ usage[a].made # month
                                        /\ usage[a].last < UsageCutoff}

\* Mutant: only jobs that have not ended protect their uploads.
UnprotectedOfActive == {u \in Uploads : sjob[u].state \notin Needed \ {"failed"}}

(* Uploads whose file no job may read again. *)
Unprotected == {u \in Uploads : sjob[u].state \notin Needed}

(* The barrier admits pruning when no job is active; then the plan is made. *)
PlanRetention ==
  /\ prune.pc = "idle" /\ \A u \in Uploads : sjob[u].state \notin ActiveStates
  /\ prune' = [pc |-> "rows",
               rows |-> {u \in Uploads : sjob[u].state \in Finished /\ sjob[u].aged},
               files |-> {u \in Unprotected : staged[u] = "old"},
               usage |-> PrunableUsage, cutoff |-> UsageCutoff]
  /\ UNCHANGED uploadVars /\ UNCHANGED usageVars

\* Mutant: the floor is that of the last pruning.
LatestFloor == prune.cutoff

(* Never lower than an earlier pruning left it. *)
RecordedFloor == IF floor > prune.cutoff THEN floor ELSE prune.cutoff

(* One transaction: jobs, usage and the floor, as planned. *)
DeleteRows ==
  /\ prune.pc = "rows"
  /\ sjob' = [u \in Uploads |-> IF u \in prune.rows
                                THEN [NoJobRow EXCEPT !.state = "gone"] ELSE sjob[u]]
  /\ usage' = [a \in UsageAttempts |-> IF a \in prune.usage THEN NoAttempt
                                       ELSE usage[a]]
  /\ dropped' = dropped \cup {[id |-> a, last |-> usage[a].last] : a \in prune.usage}
  /\ floor' = IF prune.usage # {} THEN RecordedFloor ELSE floor
  /\ prune' = [prune EXCEPT !.pc = "files"]
  /\ UNCHANGED <<staged, srun, month, period>>

DeleteFiles ==
  /\ prune.pc = "files"
  /\ staged' = [u \in Uploads |-> IF u \in prune.files THEN "no" ELSE staged[u]]
  /\ prune' = NotPruning
  /\ UNCHANGED <<sjob, srun>> /\ UNCHANGED usageVars

(* The process dies: the flag it leaves is cleared by the next admission. *)
CrashPruning ==
  /\ prune.pc # "idle" /\ prune' = NotPruning
  /\ UNCHANGED uploadVars /\ UNCHANGED usageVars

Next_Retention ==
  \/ \E u \in Uploads : \/ StageUpload(u) \/ CreateJob(u) \/ CancelUpload(u)
                        \/ ResumeUpload(u) \/ PauseQueued(u) \/ GrowOld(u)
                        \/ \E w \in Runs : ClaimUpload(w, u)
  \/ \E w \in Runs : \/ \E end \in {"succeeded", "failed", "rejected"} : EndUpload(w, end)
                     \/ CleanUpload(w) \/ \E dies \in BOOLEAN : InterruptUpload(w, dies)
  \/ \E a \in UsageAttempts : \/ ReserveUsage(a)
                              \/ \E s \in {"settled", "uncertain"} : ResolveUsage(a, s)
  \/ \E m \in 1..LastMonth : ClockMoves(m)
  \/ \E n \in Periods : SetPeriod(n)
  \/ PlanRetention \/ DeleteRows \/ DeleteFiles \/ CrashPruning

Spec_Retention == Init_Retention /\ [][Next_Retention]_retentionVars
-----------------------------------------------------------------------------
(* An import that is under way or may be resumed still has its upload,      *)
(* whatever worker lost it, whoever cancelled another run of it and         *)
(* whatever was pruned: resume has nothing else to read                     *)
(* (retention.py:205-220, resources.py:258-269 and 133-139).                *)
ResumableHasUpload ==
  \A u \in Uploads : sjob[u].state \in Needed => staged[u] # "no"

(* The recorded floor is honest: every attempt that ended in its month or   *)
(* later is still in the history, although the period was changed or the    *)
(* clock put back between two prunings (retention.py:267-299).              *)
HistoryAboveFloorIsWhole == \A d \in dropped : d.last < floor
=============================================================================
