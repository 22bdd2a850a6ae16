------------------------------ MODULE CorpusJobs ------------------------------
(***************************************************************************)
(* The runners that execute the jobs of the corpus: CorpusMaintenanceJobs  *)
(* (app/jobs/maintenance.py), ResourceJobs (app/jobs/resources.py) and the *)
(* foreground mutations (app/jobs/mutations.py), over the job table, the   *)
(* barrier and the corpus database.                                        *)
(*                                                                         *)
(* A row of the job table and the thread that works on it are different    *)
(* things: a row may be recovered while its thread still runs, and a row   *)
(* may wait in the table with no thread that will ever take it.            *)
(*                                                                         *)
(* Reads and writes of a row that follow one another are one step here     *)
(* where nothing another process can do in between changes the outcome.    *)
(* "Read, then fail or finish the cancellation" is two, because a          *)
(* cancellation in between does.                                           *)
(*                                                                         *)
(* Any access to the job table can fail as well: state.sqlite3 is locked   *)
(* for longer than its busy time-out, or cannot be opened.                 *)
(***************************************************************************)
EXTENDS MaintenanceBarrier, SequencesExt

CONSTANTS
  KindOf,  \* the kind of each job: [Jobs -> Kinds]
  NoJob

Kinds == {"install",    \* corpus_install, corpus_update
          "index", "check",
          "lifecycle",  \* corpus_remove, corpus_restore
          "import",     \* resource_add, resource_replace
          "mutation"}   \* run_corpus_mutation, run_resource_mutation

ASSUME KindsAssumption ==
  /\ KindOf \in [Jobs -> Kinds]
  /\ \A j \in Jobs : j \in Resumable <=> KindOf[j] # "mutation"
  /\ NoJob \notin Jobs

VARIABLES
  queue,     \* queue[p][x]: the futures executor x of process p has not begun
  stranded,  \* stranded[p]: jobs whose last future of process p ended on an
             \* error of the job table, with the row left as it was
  thread,    \* thread[w]: where the run that drew worker id w is
  committed, \* committed[j]: corpus transactions job j has committed
  duplicate  \* the imports whose bytes another resource turned out to have

corpusDb == <<committed, duplicate>>
futures == <<queue, stranded>>
runnerVars == <<futures, thread, corpusDb>>
corpusVars == <<vars, runnerVars>>

\* One thread each, except that a mutation runs on its caller's thread.
Executors == {"corpus", "resource", "foreground"}

Executor(j) == CASE KindOf[j] = "import"   -> "resource"
                 [] KindOf[j] = "mutation" -> "foreground"
                 [] OTHER                  -> "corpus"

Stages == {"idle", "working", "publishing", "closing", "failing", "reporting",
           "cancelling"}

Idle == [at |-> "idle", by |-> NoProc, on |-> NoJob, retryable |-> FALSE]

Busy(p, x) ==
  \E w \in Workers : thread[w].by = p /\ Executor(thread[w].on) = x

\* self._futures[job_id] is there and not done.
Pending(p, j) ==
  \/ \E i \in DOMAIN queue[p][Executor(j)] : queue[p][Executor(j)][i] = j
  \/ \E w \in Workers : thread[w].by = p /\ thread[w].on = j

\* _schedule
Enqueue(p, j) == /\ queue' = [queue EXCEPT ![p][Executor(j)] = Append(@, j)]
                 /\ stranded' = [stranded EXCEPT ![p] = @ \ {j}]

\* The executor takes its next future when its thread is free.
TakesNext(p, x) ==
  /\ proc[p] = "up" /\ queue[p][x] # <<>>
  /\ x # "foreground" => ~Busy(p, x)
  /\ queue' = [queue EXCEPT ![p][x] = Tail(@)]
Strand(p, j) == stranded' = [stranded EXCEPT ![p] = @ \cup {j}]

CorpusInit ==
  /\ Init
  /\ queue = [p \in Procs |-> [x \in Executors |-> <<>>]]
  /\ stranded = [p \in Procs |-> {}]
  /\ thread = [w \in Workers |-> Idle]
  /\ committed = [j \in Jobs |-> 0]
  /\ duplicate = {}

-----------------------------------------------------------------------------
\* submit, submit_add, submit_replace; the first half of a mutation.
Submit(p, j) ==
  /\ Create(p, j)
  /\ Enqueue(p, j)
  /\ UNCHANGED <<ledgerVars, thread, corpusDb>>

\* The executor begins the next future and its claim is accepted.
BeginRun(p, w, x) ==
  /\ TakesNext(p, x)
  /\ LET j == Head(queue[p][x]) IN
       /\ Claim(p, w, j)
       /\ thread' = [thread EXCEPT ![w] =
            [at |-> IF KindOf[j] \in {"lifecycle", "mutation"}
                    THEN "publishing" ELSE "working",
             by |-> p, on |-> j, retryable |-> FALSE]]
  /\ UNCHANGED <<ledgerVars, stranded, corpusDb>>

ClaimRefused(j) ==
  job[j].state # "queued" \/ MaintenanceActive \/ Competing(j, LeasedStates)

\* Mutant: a future whose job was cancelled is left at the head of the queue.
SkipRunUnlessCancelled(p, x) ==
  /\ TakesNext(p, x)
  /\ ClaimRefused(Head(queue[p][x]))
  /\ job[Head(queue[p][x])].state # "cancelled"
  /\ UNCHANGED <<vars, stranded, thread, corpusDb>>

\* The claim is refused; the error handler owns nothing and changes nothing.
SkipRun(p, x) ==
  /\ TakesNext(p, x)
  /\ ClaimRefused(Head(queue[p][x]))
  /\ UNCHANGED <<vars, stranded, thread, corpusDb>>

\* LocalStorage.open or the claim fails on the database.  The first is outside
\* the try block; after the second fail() is refused, since the worker owns
\* nothing, and swallowed.  A mutation claims before its try block.
LoseRun(p, x) ==
  /\ TakesNext(p, x)
  /\ Strand(p, Head(queue[p][x]))
  /\ UNCHANGED <<vars, thread, corpusDb>>

-----------------------------------------------------------------------------
At(w, stage) == thread[w].at = stage
JobOf(w) == thread[w].on
OwnsRow(w, states) == Owned(thread[w].by, w, JobOf(w), states)

GoTo(w, stage) == thread' = [thread EXCEPT ![w].at = stage]
Raise(w, retryable) ==
  thread' = [thread EXCEPT ![w] = [@ EXCEPT !.at = "failing", !.retryable = retryable]]
Return(w) == thread' = [thread EXCEPT ![w] = Idle]

\* The progress callback of a download or an indexing batch: look for a
\* cancellation, then renew the lease.
Progress(w) ==
  /\ At(w, "working")
  /\ KindOf[JobOf(w)] \in {"install", "index", "check"}
  /\ \/ /\ job[JobOf(w)].state = "cancel_requested"
        /\ GoTo(w, "cancelling")
        /\ UNCHANGED vars
     \/ /\ job[JobOf(w)].state # "cancel_requested"
        /\ Heartbeat(thread[w].by, w, JobOf(w))
        /\ UNCHANGED <<ledgerVars, thread>>
     \/ /\ job[JobOf(w)].state # "cancel_requested"
        /\ ~OwnsRow(w, LeasedStates)
        /\ Raise(w, TRUE)
        /\ UNCHANGED vars
  /\ UNCHANGED <<futures, corpusDb>>

\* Mutant: the sources are never handed to install_artifacts.
FinishWorkUnpublished(w) ==
  /\ At(w, "working")
  /\ IF job[JobOf(w)].state = "cancel_requested"
     THEN GoTo(w, "cancelling") ELSE GoTo(w, "closing")
  /\ UNCHANGED <<vars, futures, corpusDb>>

\* The inputs are complete.  A cancellation is honoured here for the last
\* time; install and import then checkpoint, which needs the lease.
FinishWork(w) ==
  /\ At(w, "working")
  /\ LET kind == KindOf[JobOf(w)] IN
     \/ /\ job[JobOf(w)].state = "cancel_requested"
        /\ GoTo(w, "cancelling")
     \/ /\ job[JobOf(w)].state # "cancel_requested"
        /\ kind \in {"install", "import"} => OwnsRow(w, LeasedStates)
        /\ GoTo(w, IF kind = "check" THEN "closing" ELSE "publishing")
     \/ /\ job[JobOf(w)].state # "cancel_requested"
        /\ kind \in {"install", "import"}
        /\ ~OwnsRow(w, LeasedStates)
        /\ Raise(w, TRUE)
  /\ UNCHANGED <<vars, futures, corpusDb>>

\* A download, a parser, a validation or the database fails.  Only an import
\* tells a validation error, which comes after its inputs are read and is not
\* worth a retry, from the others; the except clause of a mutation does not
\* look at the row.
WorkFails(w) ==
  /\ At(w, "working") \/ At(w, "publishing")
  /\ CASE KindOf[JobOf(w)] = "mutation" -> GoTo(w, "reporting")
       [] KindOf[JobOf(w)] = "import"   -> \E r \in BOOLEAN : (At(w, "working") => r) /\ Raise(w, r)
       [] OTHER                         -> Raise(w, TRUE)
  /\ UNCHANGED <<vars, futures, corpusDb>>

\* Mutant: the operation receipt is not looked up.
PublishAgain(w) ==
  /\ At(w, "publishing")
  /\ committed' = [committed EXCEPT ![JobOf(w)] = @ + 1]
  /\ GoTo(w, "closing")
  /\ UNCHANGED <<vars, futures, duplicate>>

\* The corpus transaction publishes and activates a generation.  An import
\* looks for the receipt of its job id inside the transaction and, if it is
\* there, publishes nothing.
Publish(w) ==
  /\ At(w, "publishing")
  /\ committed' = IF KindOf[JobOf(w)] = "import" /\ committed[JobOf(w)] > 0
                  THEN committed
                  ELSE [committed EXCEPT ![JobOf(w)] = @ + 1]
  /\ GoTo(w, "closing")
  /\ UNCHANGED <<vars, futures, duplicate>>

\* add() finds a resource with the same bytes and publishes nothing.
FindDuplicate(w) ==
  /\ At(w, "publishing")
  /\ KindOf[JobOf(w)] = "import"
  /\ duplicate' = duplicate \cup {JobOf(w)}
  /\ GoTo(w, "closing")
  /\ UNCHANGED <<vars, futures, committed>>

\* Mutant: a cancellation that arrives late is not handled by the runner.
CloseOrLeave(w) ==
  /\ At(w, "closing")
  /\ IF OwnsRow(w, {"running"})
     THEN Succeed(thread[w].by, w, JobOf(w))
     ELSE UNCHANGED workspaceVars /\ UNCHANGED jobVars
  /\ Return(w)
  /\ UNCHANGED <<ledgerVars, futures, corpusDb>>

\* The last checkpoint and succeed().  A late cancellation, a lost lease or the
\* database makes one of them raise; a mutation lets that go to its caller.
Close(w) ==
  /\ At(w, "closing")
  /\ \/ /\ OwnsRow(w, {"running"})
        /\ Succeed(thread[w].by, w, JobOf(w))
        /\ Return(w)
     \/ /\ IF KindOf[JobOf(w)] = "mutation" THEN Return(w) ELSE Raise(w, TRUE)
        /\ UNCHANGED <<workspaceVars, jobVars>>
  /\ UNCHANGED <<ledgerVars, futures, corpusDb>>

-----------------------------------------------------------------------------
\* except Exception: read the row and decide.
Failing(w) ==
  /\ At(w, "failing")
  /\ GoTo(w, IF job[JobOf(w)].state = "cancel_requested"
             THEN "cancelling" ELSE "reporting")
  /\ UNCHANGED <<vars, futures, corpusDb>>

\* Mutant: a refused fail() is tried again instead of being swallowed.
ReportFailureAgain(w) ==
  /\ At(w, "reporting")
  /\ \/ /\ Fail(thread[w].by, w, JobOf(w), thread[w].retryable)
        /\ Return(w)
     \/ /\ ~OwnsRow(w, LeasedStates)
        /\ GoTo(w, "failing")
        /\ UNCHANGED <<workspaceVars, jobVars>>
  /\ UNCHANGED <<ledgerVars, futures, corpusDb>>

ReportFailure(w) ==
  /\ At(w, "reporting")
  /\ \/ Fail(thread[w].by, w, JobOf(w), thread[w].retryable)
     \/ ~OwnsRow(w, LeasedStates) /\ UNCHANGED <<workspaceVars, jobVars>>
  /\ Return(w)
  /\ UNCHANGED <<ledgerVars, futures, corpusDb>>

\* The handler itself fails on the database, which `except Exception: pass`
\* hides: the thread is free and the row is still leased to it.
HandlerFails(w) ==
  /\ At(w, "failing") \/ At(w, "reporting") \/ At(w, "cancelling")
  /\ Return(w)
  /\ Strand(thread[w].by, JobOf(w))
  /\ UNCHANGED <<vars, queue, corpusDb>>

\* except OperationCancelled, or a cancellation found while failing.
AcknowledgeCancel(w) ==
  /\ At(w, "cancelling")
  /\ \/ FinishCancel(thread[w].by, w, JobOf(w))
     \/ ~OwnsRow(w, {"cancel_requested"}) /\ UNCHANGED <<workspaceVars, jobVars>>
  /\ Return(w)
  /\ UNCHANGED <<ledgerVars, futures, corpusDb>>

-----------------------------------------------------------------------------
Cancel(p, j) == RequestCancel(p, j) /\ UNCHANGED <<ledgerVars, runnerVars>>

\* Mutant: the runner does not wait for the previous run of the job.
ResumeCorpusAtOnce(p, j) ==
  /\ Executor(j) = "corpus"
  /\ Resume(p, j)
  /\ IF Pending(p, j) THEN UNCHANGED futures ELSE Enqueue(p, j)
  /\ UNCHANGED <<ledgerVars, thread, corpusDb>>

\* CorpusMaintenanceJobs.resume waits for the job's previous future.
ResumeCorpus(p, j) ==
  /\ Executor(j) = "corpus"
  /\ ~Pending(p, j)
  /\ Resume(p, j)
  /\ Enqueue(p, j)
  /\ UNCHANGED <<ledgerVars, thread, corpusDb>>

\* ResourceJobs.resume does not: _schedule raises after the row is queued.
ResumeImport(p, j) ==
  /\ Executor(j) = "resource"
  /\ Resume(p, j)
  /\ IF Pending(p, j) THEN UNCHANGED futures ELSE Enqueue(p, j)
  /\ UNCHANGED <<ledgerVars, thread, corpusDb>>

\* The process ends and its threads and futures with it.
EndProcess(p) ==
  /\ Stop(p)
  /\ queue' = [queue EXCEPT ![p] = [x \in Executors |-> <<>>]]
  /\ stranded' = [stranded EXCEPT ![p] = {}]
  /\ thread' = [w \in Workers |-> IF thread[w].by = p THEN Idle ELSE thread[w]]
  /\ UNCHANGED corpusDb

\* The barrier and the job table's own steps, which no runner takes.
Environment(p) ==
  /\ \/ Start(p) \/ AcquireLock(p) \/ RecoverBeforeEntry(p) \/ RaiseFlag(p)
     \/ RefuseEntry(p) \/ ClearFlag(p) \/ ReleaseLock(p)
     \/ RecoverInterrupted(p) /\ UNCHANGED ledgerVars
  /\ UNCHANGED runnerVars

TimePasses(j) == LeaseLapses(j) /\ UNCHANGED <<ledgerVars, runnerVars>>

\* Everything a thread does but renewing its lease.
Advance(w) ==
  \/ FinishWork(w) \/ WorkFails(w) \/ Publish(w) \/ FindDuplicate(w) \/ Close(w)
  \/ Failing(w) \/ ReportFailure(w) \/ AcknowledgeCancel(w)

BeginNext(p, x) == SkipRun(p, x) \/ \E w \in Workers : BeginRun(p, w, x)

CorpusNext ==
  \/ \E p \in Procs, j \in Jobs :
       Submit(p, j) \/ Cancel(p, j) \/ ResumeCorpus(p, j) \/ ResumeImport(p, j)
  \/ \E p \in Procs, x \in Executors : BeginNext(p, x) \/ LoseRun(p, x)
  \/ \E w \in Workers : Advance(w) \/ Progress(w) \/ HandlerFails(w)
  \/ \E p \in Procs : EndProcess(p) \/ Environment(p)
  \/ \E j \in Jobs : TimePasses(j)

(***************************************************************************)
(* A running thread is scheduled by the OS, a download is a finite list of *)
(* requests with time-outs, and a ThreadPoolExecutor with a free thread    *)
(* begins its next future.  Users, other processes, the clock and the      *)
(* errors of the database owe nothing, and nothing recovers jobs           *)
(* periodically.                                                           *)
(***************************************************************************)
Fairness ==
  /\ \A w \in Workers : WF_corpusVars(Advance(w))
  /\ \A p \in Procs, x \in Executors : WF_corpusVars(BeginNext(p, x))

CorpusSafety == CorpusInit /\ [][CorpusNext]_corpusVars
CorpusSpec == CorpusSafety /\ Fairness

-----------------------------------------------------------------------------
(***************************************************************************)
(* An import is published once: however often it is paused, recovered,     *)
(* resumed and run again, even by two threads at the same time, the        *)
(* receipt of its job id lets only one generation through                  *)
(* (corpus/resources.py:505-508, 653-658; jobs/resources.py:200, 212).     *)
(***************************************************************************)
ImportedOnce ==
  \A j \in Jobs : KindOf[j] = "import" => committed[j] <= 1

(***************************************************************************)
(* A job that is reported as succeeded has published its generation, in    *)
(* whichever of its runs and with whatever crash in between, or is an      *)
(* import another resource made superfluous (maintenance.py:266-303,       *)
(* jobs/resources.py:186-224, corpus/resources.py:76-87).                  *)
(***************************************************************************)
SucceededIsCommitted ==
  \A j \in Jobs :
    job[j].state = "succeeded" /\ KindOf[j] # "check"
      => committed[j] > 0 \/ j \in duplicate

(***************************************************************************)
(* A row that says a worker of a live process has it really is being       *)
(* worked on by that thread: no run of a runner ends, by success, error,   *)
(* late cancellation or lost lease, and leaves its row leased              *)
(* (maintenance.py:304-332, jobs/resources.py:226-256), unless its error   *)
(* handler failed on the job table too; then the row waits for its lease   *)
(* to lapse.  A mutation does leave its row when it is cancelled late      *)
(* (mutations.py:31).                                                      *)
(***************************************************************************)
LeasedRowHasThread ==
  \A j \in Jobs :
    /\ job[j].worker # NoWorker
    /\ KindOf[j] # "mutation"
    /\ proc[job[j].by] = "up"
    /\ j \notin stranded[job[j].by]
    => thread[job[j].worker].on = j /\ thread[job[j].worker].by = job[j].by

(***************************************************************************)
(* A corpus job that is queued by a live process is among that process's   *)
(* futures, so something will claim it: a queued row blocks its target     *)
(* and recovery does not touch it while the process lives                  *)
(* (maintenance.py:145-162, 184-189).  The one way to lose the future is   *)
(* an error of the database before the row is claimed (193-196); then only *)
(* a cancellation or the end of the process frees the target.              *)
(***************************************************************************)
QueuedIsScheduled ==
  \A j \in Jobs :
    /\ job[j].state = "queued"
    /\ OwnerAlive(job[j].by)
    /\ Executor(j) = "corpus"
    /\ j \notin stranded[job[j].by]
    => \E i \in DOMAIN queue[job[j].by]["corpus"] : queue[job[j].by]["corpus"][i] = j

(***************************************************************************)
(* Every run comes to an end, also the run whose row was recovered or      *)
(* cancelled under it, so the executor's only thread is free again         *)
(* (maintenance.py:304-334, jobs/resources.py:226-269).                    *)
(***************************************************************************)
RunsEnd == \A w \in Workers : thread[w].at # "idle" ~> thread[w].at = "idle"

(***************************************************************************)
(* A queued corpus job is eventually begun or cancelled while its process  *)
(* lives, unless the database fails at its own claim: no earlier future,   *)
(* cancelled, failed, recovered or lost in that way, keeps it waiting for  *)
(* ever (maintenance.py:184-196, 304-334).  A model that has run out of    *)
(* worker ids is exempt.                                                   *)
(***************************************************************************)
QueuedJobsStart ==
  \A j \in Jobs, p \in Procs :
    job[j].state = "queued" /\ job[j].by = p /\ Executor(j) = "corpus"
      ~> job[j].state # "queued" \/ j \in stranded[p] \/ proc[p] = "down"
         \/ used = Workers

(***************************************************************************)
(* Separate processes never write the same target at the same time         *)
(* (docs/Local_Distribution_Implementation_Plan.md:333).  The code does    *)
(* not achieve this: install_artifacts runs without a heartbeat, and       *)
(* recovery pauses a live worker whose 300-second lease has lapsed         *)
(* (maintenance.py:287-291, service.py:374-402).                           *)
(***************************************************************************)
OneWriterPerTarget ==
  \A v, w \in Workers :
    /\ At(v, "publishing") /\ At(w, "publishing")
    /\ TargetOf[JobOf(v)] = TargetOf[JobOf(w)]
    => v = w

(***************************************************************************)
(* A committed import is not reported as cancelled                         *)
(* (docs/User_Resources_Implementation_Plan.md:250-251).  The code does    *)
(* report it: succeed() raises on a late cancellation and the error        *)
(* handler finishes the cancellation (jobs/resources.py:224-244).          *)
(***************************************************************************)
CommittedIsNotCancelled ==
  \A j \in Jobs :
    KindOf[j] = "import" /\ job[j].state = "cancelled" => committed[j] = 0
=============================================================================
