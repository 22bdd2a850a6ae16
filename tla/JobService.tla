------------------------------ MODULE JobService ------------------------------
(***************************************************************************)
(* The durable job table (app/jobs/service.py).  Every operation is one    *)
(* SQLite write transaction, so every operation is one action.  An         *)
(* operation that raises rolls back and is a step that changes nothing;    *)
(* only the accepted calls appear here.                                    *)
(*                                                                         *)
(* Wall-clock leases are abstracted to "fresh" or "lapsed": time passing   *)
(* is LeaseLapses, and a heartbeat makes the lease fresh again.            *)
(***************************************************************************)
EXTENDS Workspace, FiniteSets

CONSTANTS
  Jobs,       \* job ids
  Targets,    \* target_id values
  TargetOf,   \* the target of each job: [Jobs -> Targets]
  Resumable,  \* the jobs whose job_type is in RESUMABLE_JOB_TYPES
  LegacyJobs, \* jobs queued or running in a table an older release left behind
  Workers,    \* worker ids; each run of a worker draws a new uuid
  NoWorker    \* the lease_owner names a process only

ASSUME JobsAssumption ==
  /\ TargetOf \in [Jobs -> Targets]
  /\ Resumable \subseteq Jobs
  /\ LegacyJobs \subseteq Jobs
  /\ \A i, j \in LegacyJobs : TargetOf[i] = TargetOf[j] => i = j
  /\ NoWorker \notin Workers

VARIABLES
  job,   \* the jobs table: [Jobs -> Row]
  used   \* the worker ids drawn so far

jobVars == <<job, used>>

JobStates == {"absent", "queued", "running", "paused", "cancel_requested",
              "cancelled", "failed", "succeeded"}

ACTIVE_TARGET_STATES == {"queued", "running", "paused", "cancel_requested"}

\* The states in which a worker owns the row.
LeasedStates == {"running", "cancel_requested"}

\* The states recovery looks at, and the ones that keep maintenance out.
BlockingStates == {"queued", "running", "cancel_requested"}

Row == [state : JobStates, by : Owners, worker : Workers \cup {NoWorker},
        lease : {"none", "fresh", "lapsed"}, retryable : BOOLEAN]

AbsentRow == [state |-> "absent", by |-> NoProc, worker |-> NoWorker,
              lease |-> "none", retryable |-> FALSE]

JobTypeOK ==
  /\ job \in [Jobs -> Row]
  /\ used \subseteq Workers

LegacyRows ==
  {[state |-> "queued", by |-> LegacyOwner, worker |-> NoWorker,
    lease |-> "none", retryable |-> TRUE],
   [state |-> "running", by |-> LegacyOwner, worker |-> NoWorker,
    lease |-> "fresh", retryable |-> TRUE]}

JobInit ==
  /\ \E r \in [LegacyJobs -> LegacyRows] :
       job = [j \in Jobs |-> IF j \in LegacyJobs THEN r[j] ELSE AbsentRow]
  /\ used = {}

-----------------------------------------------------------------------------
\* Another job of j's target in one of the given states.
Competing(j, states) ==
  \E i \in Jobs \ {j} : TargetOf[i] = TargetOf[j] /\ job[i].state \in states

\* WHERE lease_owner = worker's token AND state IN (states).
Owned(p, w, j, states) ==
  job[j].by = p /\ job[j].worker = w /\ job[j].state \in states

Create(p, j) ==
  /\ proc[p] = "up"
  /\ job[j].state = "absent"
  /\ NotUnderMaintenance
  /\ ~Competing(j, ACTIVE_TARGET_STATES)
  /\ job' = [job EXCEPT ![j] = [state |-> "queued", by |-> p, worker |-> NoWorker,
                                lease |-> "none", retryable |-> TRUE]]
  /\ UNCHANGED <<proc, holder, phase, used>>

Claim(p, w, j) ==
  /\ proc[p] = "up"
  /\ w \notin used
  /\ NotUnderMaintenance
  /\ job[j].state = "queued"
  /\ ~Competing(j, LeasedStates)
  /\ job' = [job EXCEPT ![j] = [@ EXCEPT !.state = "running", !.by = p,
                                         !.worker = w, !.lease = "fresh"]]
  /\ used' = used \cup {w}
  /\ UNCHANGED <<proc, holder, phase>>

Heartbeat(p, w, j) ==
  /\ proc[p] = "up"
  /\ Owned(p, w, j, LeasedStates)
  /\ job' = [job EXCEPT ![j].lease = "fresh"]
  /\ UNCHANGED <<workspaceVars, used>>

RequestCancel(p, j) ==
  /\ proc[p] = "up"
  /\ NotUnderMaintenance
  /\ \/ /\ job[j].state \in {"queued", "paused"}
        /\ job' = [job EXCEPT ![j] = [@ EXCEPT !.state = "cancelled",
                                               !.retryable = FALSE]]
     \/ /\ job[j].state = "running"
        /\ job' = [job EXCEPT ![j].state = "cancel_requested"]
     \/ /\ job[j].state = "cancel_requested"
        /\ job' = job
  /\ UNCHANGED <<proc, holder, phase, used>>

\* _finish_owned: the one way a worker ends its own job.
FinishOwned(p, w, j, required, new) ==
  /\ proc[p] = "up"
  /\ Owned(p, w, j, {required})
  /\ job' = [job EXCEPT ![j] = [state |-> new, by |-> NoProc, worker |-> NoWorker,
                                lease |-> "none", retryable |-> FALSE]]
  /\ UNCHANGED <<workspaceVars, used>>

FinishCancel(p, w, j) == FinishOwned(p, w, j, "cancel_requested", "cancelled")

Succeed(p, w, j) == FinishOwned(p, w, j, "running", "succeeded")

Fail(p, w, j, retryable) ==
  /\ proc[p] = "up"
  /\ Owned(p, w, j, LeasedStates)
  /\ job' = [job EXCEPT ![j] = [state |-> "failed", by |-> NoProc, worker |-> NoWorker,
                                lease |-> "none", retryable |-> retryable]]
  /\ UNCHANGED <<workspaceVars, used>>

\* Mutant: resume without the maintenance check.
ResumeUnguarded(p, j) ==
  /\ proc[p] = "up"
  /\ job[j].state \in {"paused", "failed"}
  /\ job[j].retryable
  /\ ~Competing(j, ACTIVE_TARGET_STATES)
  /\ job' = [job EXCEPT ![j] = [@ EXCEPT !.state = "queued", !.by = p]]
  /\ UNCHANGED <<workspaceVars, used>>

\* Mutant: resume looks for running competitors only, as claim does.
ResumeAsClaim(p, j) ==
  /\ proc[p] = "up"
  /\ NotUnderMaintenance
  /\ job[j].state \in {"paused", "failed"}
  /\ job[j].retryable
  /\ ~Competing(j, LeasedStates)
  /\ job' = [job EXCEPT ![j] = [@ EXCEPT !.state = "queued", !.by = p]]
  /\ UNCHANGED <<proc, holder, phase, used>>

Resume(p, j) ==
  /\ proc[p] = "up"
  /\ NotUnderMaintenance
  /\ job[j].state \in {"paused", "failed"}
  /\ job[j].retryable
  /\ ~Competing(j, ACTIVE_TARGET_STATES)
  /\ job' = [job EXCEPT ![j] = [@ EXCEPT !.state = "queued", !.by = p]]
  /\ UNCHANGED <<proc, holder, phase, used>>

-----------------------------------------------------------------------------
\* The rows recover_interrupted does not skip.
Interrupted(j) ==
  /\ job[j].state \in BlockingStates
  /\ \/ OwnerDead(job[j].by)
     \/ job[j].lease = "lapsed"
     \/ /\ OwnerUnknown(job[j].by)
        /\ job[j].state = "queued" \/ job[j].lease # "fresh"

\* Mutant: recovery keeps the lease_owner, so the old worker still owns the row.
InterruptedRowKeepingOwner(j) ==
  [job[j] EXCEPT !.state = IF j \in Resumable THEN "paused" ELSE "failed",
                 !.lease = "none", !.retryable = j \in Resumable]

InterruptedRow(j) ==
  [state |-> IF j \in Resumable THEN "paused" ELSE "failed",
   by |-> NoProc, worker |-> NoWorker, lease |-> "none",
   retryable |-> j \in Resumable]

\* The jobs table after recover_interrupted.
Recovered == [j \in Jobs |-> IF Interrupted(j) THEN InterruptedRow(j) ELSE job[j]]

RecoverInterrupted(p) ==
  /\ proc[p] = "up"
  /\ job' = Recovered
  /\ UNCHANGED <<workspaceVars, used>>

\* The wall clock passes lease_expires_at.
LeaseLapses(j) ==
  /\ job[j].lease = "fresh"
  /\ job' = [job EXCEPT ![j].lease = "lapsed"]
  /\ UNCHANGED <<workspaceVars, used>>

JobNext ==
  \/ \E p \in Procs, j \in Jobs :
       \/ Create(p, j) \/ RequestCancel(p, j) \/ Resume(p, j)
  \/ \E p \in Procs, w \in Workers, j \in Jobs :
       \/ Claim(p, w, j) \/ Heartbeat(p, w, j)
       \/ FinishCancel(p, w, j) \/ Succeed(p, w, j)
       \/ \E r \in BOOLEAN : Fail(p, w, j, r)
  \/ \E p \in Procs : RecoverInterrupted(p)
  \/ \E j \in Jobs : LeaseLapses(j)

-----------------------------------------------------------------------------
(***************************************************************************)
(* Only one job can mutate a target at a time: of the jobs that hold or    *)
(* may take up a target, queued, running, paused or being cancelled, there *)
(* is at most one per target, whatever mix of create, resume, recovery and *)
(* crash led here (create/claim/resume, service.py:83-121, 141-179,        *)
(* 321-352).                                                               *)
(***************************************************************************)
OneActivePerTarget ==
  \A i, j \in Jobs :
    /\ job[i].state \in ACTIVE_TARGET_STATES
    /\ job[j].state \in ACTIVE_TARGET_STATES
    /\ TargetOf[i] = TargetOf[j]
    => i = j

(***************************************************************************)
(* A worker's lease fences it to one job: no two rows name the same        *)
(* worker, exactly the leased rows have a deadline and each has an owner,  *)
(* and a row that is not leased names no worker, so a worker that was      *)
(* recovered can never finish or heartbeat a job again                     *)
(* (service.py:171-176, 190-196, 418-424).                                 *)
(***************************************************************************)
LeaseFencing ==
  /\ \A j \in Jobs :
       /\ job[j].state \in LeasedStates => job[j].by # NoProc
       /\ job[j].lease # "none" <=> job[j].state \in LeasedStates
       /\ job[j].worker # NoWorker => job[j].state \in LeasedStates
       /\ job[j].worker # NoWorker => job[j].worker \in used
  /\ \A i, j \in Jobs :
       job[i].worker = job[j].worker /\ job[i].worker # NoWorker => i = j
=============================================================================
