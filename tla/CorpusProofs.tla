---------------------------- MODULE CorpusProofs ----------------------------
(***************************************************************************)
(* Proofs about the runners, for any number of processes, jobs and worker  *)
(* ids.  Every step of a runner is a step of the job table, the ledger or  *)
(* the barrier, or leaves them alone, so what BarrierProofs shows of them  *)
(* holds beside the runners too.  What the runners add relates a row to    *)
(* the thread and the future that stand behind it.                         *)
(***************************************************************************)
EXTENDS CorpusJobs, BarrierProofs

Thread == [at : Stages, by : Procs \cup {NoProc}, on : Jobs \cup {NoJob},
           retryable : BOOLEAN]

RunnerTypeOK ==
  /\ queue \in [Procs -> [Executors -> Seq(Jobs)]]
  /\ stranded \in [Procs -> SUBSET Jobs]
  /\ thread \in [Workers -> Thread]
  /\ committed \in [Jobs -> Nat]
  /\ duplicate \subseteq Jobs

\* A thread that is not idle is of a live process, works on a job and has
\* drawn its worker id.
ThreadsLive ==
  \A w \in Workers :
    \/ thread[w] = Idle
    \/ /\ thread[w].at # "idle"
       /\ thread[w].by \in Procs /\ proc[thread[w].by] = "up"
       /\ thread[w].on \in Jobs /\ w \in used

\* Rows name processes that have been started, and a worker with its process.
RowsNameStarted ==
  \A j \in Jobs :
    /\ job[j].by \in Procs => proc[job[j].by] # "new"
    /\ job[j].worker # NoWorker => job[j].by \in Procs

\* A thread that is about to acknowledge a cancellation does not leave a
\* running row behind.
CancellingIsAsked ==
  \A w \in Workers :
    At(w, "cancelling") /\ OwnsRow(w, LeasedStates) =>
      job[JobOf(w)].state = "cancel_requested"

\* A thread that is about to report success has something to report.
Published(j) == KindOf[j] = "check" \/ committed[j] > 0 \/ j \in duplicate
ClosingIsPublished ==
  \A w \in Workers : At(w, "closing") => Published(JobOf(w))

RunnerInv ==
  /\ RunnerTypeOK /\ ThreadsLive /\ RowsNameStarted
  /\ CancellingIsAsked /\ ClosingIsPublished
  /\ ImportedOnce /\ SucceededIsCommitted
  /\ LeasedRowHasThread /\ QueuedIsScheduled

-----------------------------------------------------------------------------
(* Every step of a runner is one of the table's. *)

\* Every job has its executor.
LEMMA ExecutorIsOne == \A j \in Jobs : Executor(j) \in Executors
BY DEF Executor, Executors

\* What an executor takes from its queue is a job.
LEMMA HeadIsJob ==
  ASSUME RunnerTypeOK, NEW p \in Procs, NEW x \in Executors, queue[p][x] # <<>>
  PROVE  Head(queue[p][x]) \in Jobs
BY DEF RunnerTypeOK

\* A thread that moves belongs to a live process and has a job.
LEMMA WorkingThread ==
  ASSUME RunnerTypeOK, ThreadsLive, NEW w \in Workers,
         Advance(w) \/ Progress(w) \/ HandlerFails(w)
  PROVE  /\ thread[w].at # "idle" /\ w \in used
         /\ thread[w].by \in Procs /\ proc[thread[w].by] = "up"
         /\ thread[w].on \in Jobs /\ thread[w].retryable \in BOOLEAN
<1>1. thread[w].at # "idle"
  BY DEF Advance, FinishWork, WorkFails, Publish, FindDuplicate, Close, Failing,
       ReportFailure, AcknowledgeCancel, Progress, HandlerFails, At
<1>2. thread[w] # Idle
  BY <1>1 DEF Idle
<1>3. QED
  BY <1>1, <1>2 DEF ThreadsLive, RunnerTypeOK, Thread

\* A step of the runners is a step of the table, the ledger or the barrier, or a stutter.
LEMMA StepOfTable ==
  ASSUME RunnerTypeOK, ThreadsLive, [CorpusNext]_corpusVars
  PROVE  [Next]_vars
<1> USE DEF workspaceVars, jobVars
<1>1. ASSUME NEW p \in Procs, NEW j \in Jobs,
             Submit(p, j) \/ Cancel(p, j) \/ ResumeCorpus(p, j) \/ ResumeImport(p, j)
      PROVE  Next
  BY <1>1 DEF Submit, Cancel, ResumeCorpus, ResumeImport, Next, JobNext
<1>2. ASSUME NEW p \in Procs, NEW x \in Executors, BeginNext(p, x) \/ LoseRun(p, x)
      PROVE  Next \/ UNCHANGED vars
  <2>1. CASE SkipRun(p, x) \/ LoseRun(p, x)
    BY <2>1 DEF SkipRun, LoseRun
  <2>2. ASSUME NEW w \in Workers, BeginRun(p, w, x) PROVE Next
    BY <2>2, HeadIsJob DEF BeginRun, TakesNext, Next, JobNext
  <2>3. QED
    BY <1>2, <2>1, <2>2 DEF BeginNext
<1>3. ASSUME NEW w \in Workers, Advance(w) \/ Progress(w) \/ HandlerFails(w)
      PROVE  Next \/ UNCHANGED vars
  <2>1. thread[w].by \in Procs /\ thread[w].on \in Jobs /\ thread[w].retryable \in BOOLEAN
    BY <1>3, WorkingThread
  <2>2. CASE \/ FinishWork(w) \/ WorkFails(w) \/ Publish(w) \/ FindDuplicate(w) \/ Failing(w)
             \/ HandlerFails(w)
    BY <2>2 DEF FinishWork, WorkFails, Publish, FindDuplicate, Failing, HandlerFails
  <2>3. CASE Close(w)
    BY <2>1, <2>3 DEF Close, JobOf, Next, JobNext, vars
  <2>4. CASE ReportFailure(w)
    BY <2>1, <2>4 DEF ReportFailure, JobOf, Next, JobNext, vars
  <2>5. CASE AcknowledgeCancel(w)
    BY <2>1, <2>5 DEF AcknowledgeCancel, JobOf, Next, JobNext, vars
  <2>6. CASE Progress(w)
    BY <2>1, <2>6 DEF Progress, JobOf, Next, JobNext, vars
  <2>7. QED
    BY <1>3, <2>2, <2>3, <2>4, <2>5, <2>6 DEF Advance
<1>4. ASSUME NEW p \in Procs, EndProcess(p) \/ Environment(p) PROVE Next
  BY <1>4 DEF EndProcess, Environment, Next, BarrierNext, JobNext
<1>5. ASSUME NEW j \in Jobs, TimePasses(j) PROVE Next
  BY <1>5 DEF TimePasses, Next, JobNext
<1>6. QED
  BY <1>1, <1>2, <1>3, <1>4, <1>5 DEF CorpusNext, corpusVars

-----------------------------------------------------------------------------
(* Futures. *)

Among(s, j) == \E i \in DOMAIN s : s[i] = j

\* A job behind the head of a queue stays in it when the head is taken.
LEMMA AmongTail ==
  ASSUME NEW s \in Seq(Jobs), s # <<>>, NEW j \in Jobs, Among(s, j), j # Head(s)
  PROVE  Among(Tail(s), j)
<1>1. PICK i \in DOMAIN s : s[i] = j
  BY DEF Among
<1>2. i # 1 /\ i - 1 \in DOMAIN Tail(s) /\ Tail(s)[i - 1] = s[i]
  BY <1>1
<1>3. QED
  BY <1>1, <1>2 DEF Among

\* A job that joins a queue is in it, with those that were.
LEMMA AmongAppend ==
  ASSUME NEW s \in Seq(Jobs), NEW j \in Jobs, NEW k \in Jobs, Among(s, j) \/ j = k
  PROVE  Among(Append(s, k), j)
<1>1. CASE j = k
  BY <1>1 DEF Among
<1>2. CASE Among(s, j)
  BY <1>2 DEF Among
<1>3. QED
  BY <1>1, <1>2

Scheduled ==
  \A j \in Jobs :
    /\ job[j].state = "queued" /\ OwnerAlive(job[j].by) /\ Executor(j) = "corpus"
    /\ j \notin stranded[job[j].by]
    => Among(queue[job[j].by]["corpus"], j)

\* QueuedIsScheduled, with the queue's members named.
LEMMA ScheduledAmong == (QueuedIsScheduled <=> Scheduled) /\ (QueuedIsScheduled' <=> Scheduled')
BY DEF QueuedIsScheduled, Scheduled, Among

-----------------------------------------------------------------------------
(* A thread moves on and nothing else changes. *)
LEMMA ThreadMoves ==
  ASSUME RunnerInv, NEW w \in Workers, thread[w] # Idle, NEW t \in Thread,
         t.at # "idle", t.by = thread[w].by, t.on = thread[w].on,
         thread' = [thread EXCEPT ![w] = t],
         t.at = "cancelling" => job[t.on].state = "cancel_requested",
         t.at = "closing" => Published(t.on),
         UNCHANGED <<vars, futures, corpusDb>>
  PROVE  RunnerInv'
<1> USE DEF RunnerInv, vars, workspaceVars, jobVars, futures, corpusDb
<1>1. RunnerTypeOK'
  BY DEF RunnerTypeOK
<1>2. /\ thread'[w] = t
      /\ \A v \in Workers : v # w => thread'[v] = thread[v]
  BY DEF RunnerTypeOK
<1>3. ThreadsLive'
  BY <1>2 DEF ThreadsLive
<1>4. RowsNameStarted' /\ ImportedOnce' /\ SucceededIsCommitted'
  BY DEF RowsNameStarted, ImportedOnce, SucceededIsCommitted
<1>5. CancellingIsAsked'
  BY <1>2 DEF CancellingIsAsked, At, JobOf, OwnsRow, Owned
<1>6. ClosingIsPublished'
  BY <1>2 DEF ClosingIsPublished, At, JobOf, Published
<1>7. LeasedRowHasThread'
  BY <1>2 DEF LeasedRowHasThread
<1>8. QueuedIsScheduled'
  BY DEF QueuedIsScheduled, OwnerAlive
<1>9. QED
  BY <1>1, <1>3, <1>4, <1>5, <1>6, <1>7, <1>8

(* Rows change and no runner does: rows are taken away from their workers,  *)
(* or keep them.                                                            *)
LEMMA RowsChange ==
  ASSUME RunnerInv, job' \in [Jobs -> Row], used' = used, proc' = proc,
         UNCHANGED runnerVars,
         \A j \in Jobs :
           \/ job'[j] = job[j]
           \/ /\ job'[j].worker = NoWorker /\ job'[j].by \in {NoProc, job[j].by}
              /\ job'[j].state \notin {"queued", "succeeded"}
           \/ /\ job'[j].worker = job[j].worker /\ job'[j].by = job[j].by
              /\ \/ job'[j].state = job[j].state
                 \/ job'[j].state = "cancel_requested"
  PROVE  RunnerInv'
<1> USE OwnersAssumption DEF RunnerInv, runnerVars, futures, corpusDb
<1>1. RunnerTypeOK' /\ ThreadsLive' /\ ImportedOnce'
  BY DEF RunnerTypeOK, ThreadsLive, ImportedOnce
<1>2. RowsNameStarted'
  BY DEF RowsNameStarted
<1>3. CancellingIsAsked'
  <2> SUFFICES ASSUME NEW w \in Workers, At(w, "cancelling")', OwnsRow(w, LeasedStates)'
               PROVE  job'[JobOf(w)].state = "cancel_requested"
    BY DEF CancellingIsAsked, JobOf
  <2>1. JobOf(w) \in Jobs /\ thread[w].by \in Procs
    BY DEF ThreadsLive, At, Idle, JobOf
  <2>2. QED
    BY <2>1, JobsAssumption DEF CancellingIsAsked, At, JobOf, OwnsRow, Owned, LeasedStates
<1>4. ClosingIsPublished'
  BY DEF ClosingIsPublished, At, JobOf, Published
<1>5. SucceededIsCommitted'
  BY DEF SucceededIsCommitted
<1>6. LeasedRowHasThread'
  BY DEF LeasedRowHasThread
<1>7. QueuedIsScheduled'
  BY DEF QueuedIsScheduled, OwnerAlive
<1>8. QED
  BY <1>1, <1>2, <1>3, <1>4, <1>5, <1>6, <1>7

-----------------------------------------------------------------------------
(* What a thread does. *)

\* Its moves between the stages of a run.
Moves(w) ==
  /\ \/ \E r \in BOOLEAN : Raise(w, r)
     \/ \E stage \in {"publishing", "reporting"} : GoTo(w, stage)
     \/ GoTo(w, "closing") /\ KindOf[JobOf(w)] = "check"
     \/ GoTo(w, "cancelling") /\ job[JobOf(w)].state = "cancel_requested"
  /\ UNCHANGED <<vars, futures, corpusDb>>

\* A thread that goes from one stage to the next keeps the runners' invariant.
LEMMA MovesKeep ==
  ASSUME RunnerInv, NEW w \in Workers, thread[w].at # "idle", Moves(w)
  PROVE  RunnerInv'
<1> USE DEF RunnerInv
<1>1. thread[w] \in Thread /\ thread[w] # Idle
  BY DEF Idle, RunnerTypeOK
<1>2. ASSUME NEW stage \in Stages, GoTo(w, stage)
      PROVE  \E t \in Thread :
               /\ thread' = [thread EXCEPT ![w] = t]
               /\ t.at = stage /\ t.by = thread[w].by /\ t.on = thread[w].on
  <2> DEFINE t == [thread[w] EXCEPT !.at = stage]
  <2>1. t \in Thread /\ t.at = stage /\ t.by = thread[w].by /\ t.on = thread[w].on
    BY <1>1 DEF Thread
  <2>2. thread' = [thread EXCEPT ![w] = t]
    BY <1>2 DEF GoTo
  <2>3. QED
    BY <2>1, <2>2
<1>3. ASSUME NEW r \in BOOLEAN, Raise(w, r)
      PROVE  \E t \in Thread :
               /\ thread' = [thread EXCEPT ![w] = t]
               /\ t.at = "failing" /\ t.by = thread[w].by /\ t.on = thread[w].on
  <2> DEFINE t == [thread[w] EXCEPT !.at = "failing", !.retryable = r]
  <2>1. t \in Thread /\ t.at = "failing" /\ t.by = thread[w].by /\ t.on = thread[w].on
    BY <1>1 DEF Thread, Stages
  <2>2. thread' = [thread EXCEPT ![w] = t]
    BY <1>3 DEF Raise
  <2>3. QED
    BY <2>1, <2>2
<1>4. PICK t \in Thread :
        /\ thread' = [thread EXCEPT ![w] = t]
        /\ t.at # "idle" /\ t.by = thread[w].by /\ t.on = thread[w].on
        /\ t.at = "cancelling" => job[t.on].state = "cancel_requested"
        /\ t.at = "closing" => KindOf[t.on] = "check"
  BY <1>2, <1>3 DEF Moves, Stages, JobOf
<1>5. QED
  BY <1>1, <1>4, ThreadMoves DEF Published, Moves

\* It publishes, or finds that it need not.
LEMMA PublishKeeps ==
  ASSUME JobTypeOK, RunnerInv, NEW w \in Workers, Publish(w) \/ FindDuplicate(w)
  PROVE  RunnerInv'
<1> USE DEF RunnerInv, vars, workspaceVars, jobVars, futures, corpusDb
<1>1. /\ thread[w].at # "idle" /\ thread[w] \in Thread /\ thread[w].on \in Jobs
      /\ JobOf(w) \in Jobs
  <2>1. Advance(w)
    BY DEF Advance
  <2>2. QED
    BY <2>1, WorkingThread DEF RunnerTypeOK, JobOf
<1>2. UNCHANGED <<vars, futures>> /\ GoTo(w, "closing")
  BY DEF Publish, FindDuplicate
<1>3. /\ committed' \in [Jobs -> Nat] /\ duplicate' \subseteq Jobs
      /\ \A j \in Jobs : committed[j] <= committed'[j]
      /\ duplicate \subseteq duplicate'
      /\ committed'[JobOf(w)] > 0 \/ JobOf(w) \in duplicate'
      /\ \A j \in Jobs : KindOf[j] = "import" => committed'[j] <= 1
  <2> DEFINE j0 == JobOf(w)
  <2>1. CASE Publish(w)
    <3>1. CASE KindOf[j0] = "import" /\ committed[j0] > 0
      BY <1>1, <2>1, <3>1 DEF Publish, RunnerTypeOK, ImportedOnce
    <3>2. CASE ~(KindOf[j0] = "import" /\ committed[j0] > 0)
      <4>1. committed' = [committed EXCEPT ![j0] = @ + 1] /\ duplicate' = duplicate
        BY <2>1, <3>2 DEF Publish
      <4>2. j0 \in Jobs /\ committed[j0] \in Nat /\ (KindOf[j0] = "import" => committed[j0] = 0)
        BY <1>1, <3>2 DEF RunnerTypeOK
      <4> HIDE DEF j0
      <4>3. /\ committed' \in [Jobs -> Nat] /\ committed'[j0] = committed[j0] + 1
            /\ \A j \in Jobs : j # j0 => committed'[j] = committed[j]
        BY <4>1, <4>2 DEF RunnerTypeOK
      <4>4. \A j \in Jobs : committed[j] <= committed'[j]
        BY <4>2, <4>3 DEF RunnerTypeOK
      <4>5. \A j \in Jobs : KindOf[j] = "import" => committed'[j] <= 1
        BY <4>2, <4>3 DEF ImportedOnce
      <4>6. committed'[j0] > 0
        BY <4>2, <4>3
      <4>7. QED
        BY <4>1, <4>3, <4>4, <4>5, <4>6 DEF RunnerTypeOK, j0
    <3>3. QED
      BY <3>1, <3>2
  <2>2. CASE FindDuplicate(w)
    BY <1>1, <2>2 DEF FindDuplicate, RunnerTypeOK, ImportedOnce
  <2>3. QED
    BY <2>1, <2>2
<1>4. /\ thread' \in [Workers -> Thread]
      /\ thread'[w].at = "closing"
      /\ thread'[w].by = thread[w].by /\ thread'[w].on = thread[w].on
      /\ \A v \in Workers : v # w => thread'[v] = thread[v]
  BY <1>1, <1>2 DEF GoTo, RunnerTypeOK, Thread, Stages
<1>5. RunnerTypeOK'
  BY <1>2, <1>3, <1>4 DEF RunnerTypeOK
<1>6. ThreadsLive'
  BY <1>1, <1>2, <1>4 DEF ThreadsLive, Idle
<1>7. RowsNameStarted' /\ ImportedOnce' /\ SucceededIsCommitted'
  BY <1>2, <1>3 DEF RowsNameStarted, ImportedOnce, SucceededIsCommitted, RunnerTypeOK
<1>8. CancellingIsAsked'
  BY <1>2, <1>4 DEF CancellingIsAsked, At, JobOf, OwnsRow, Owned
<1>9. ClosingIsPublished'
  <2> SUFFICES ASSUME NEW v \in Workers, At(v, "closing")'
               PROVE  Published(JobOf(v))'
    BY DEF ClosingIsPublished
  <2>1. thread'[v].on \in Jobs
    BY <1>6 DEF ThreadsLive, At, Idle
  <2>2. CASE v = w
    BY <1>3, <1>4, <2>2 DEF Published, JobOf
  <2>3. CASE v # w
    BY <1>3, <1>4, <2>1, <2>3 DEF ClosingIsPublished, At, Published, JobOf, RunnerTypeOK
  <2>4. QED
    BY <2>2, <2>3
<1>10. LeasedRowHasThread'
  BY <1>2, <1>4 DEF LeasedRowHasThread, JobTypeOK, Row
<1>11. QueuedIsScheduled'
  BY <1>2 DEF QueuedIsScheduled, OwnerAlive
<1>12. QED
  BY <1>5, <1>6, <1>7, <1>8, <1>9, <1>10, <1>11

\* It returns: the row it had is no longer leased, is not its own, or is stranded.
LEMMA ReturnKeeps ==
  ASSUME Inv, RunnerInv, NEW w \in Workers, thread[w].at # "idle", Return(w),
         job' \in [Jobs -> Row], UNCHANGED <<proc, used, queue, corpusDb>>,
         stranded' \in [Procs -> SUBSET Jobs],
         \A q \in Procs : stranded[q] \subseteq stranded'[q],
         \A j \in Jobs \ {JobOf(w)} : job'[j] = job[j],
         \/ /\ job'[JobOf(w)].worker = NoWorker /\ job'[JobOf(w)].by = NoProc
            /\ job'[JobOf(w)].state # "queued"
            /\ job'[JobOf(w)].state = "succeeded" => At(w, "closing")
         \/ /\ job' = job
            /\ \/ KindOf[JobOf(w)] = "mutation" \/ ~OwnsRow(w, LeasedStates)
               \/ JobOf(w) \in stranded'[thread[w].by]
  PROVE  RunnerInv'
<1> USE OwnersAssumption, JobsAssumption DEF Inv, RunnerInv, corpusDb
<1> DEFINE j0 == JobOf(w)
<1>1. j0 \in Jobs /\ thread[w].by \in Procs
  BY DEF ThreadsLive, Idle, JobOf
<1>2. /\ thread'[w] = Idle /\ thread' \in [Workers -> Thread]
      /\ \A v \in Workers : v # w => thread'[v] = thread[v]
  BY DEF Return, RunnerTypeOK, Thread, Idle, Stages
<1>3. RunnerTypeOK' /\ ThreadsLive' /\ ImportedOnce'
  BY <1>2 DEF RunnerTypeOK, ThreadsLive, ImportedOnce
<1>4. RowsNameStarted'
  BY <1>1 DEF RowsNameStarted
<1>5. CancellingIsAsked'
  <2> SUFFICES ASSUME NEW v \in Workers, At(v, "cancelling")', OwnsRow(v, LeasedStates)'
               PROVE  job'[thread'[v].on].state = "cancel_requested"
    BY DEF CancellingIsAsked, JobOf
  <2>1. v # w /\ thread'[v] = thread[v]
    BY <1>2 DEF At, Idle
  <2>2. thread[v].on \in Jobs
    BY <2>1 DEF ThreadsLive, At, Idle
  <2>3. job'[thread[v].on] = job[thread[v].on]
    BY <2>1, <2>2 DEF OwnsRow, Owned, JobOf
  <2>4. QED
    BY <2>1, <2>3 DEF CancellingIsAsked, At, JobOf, OwnsRow, Owned
<1>6. ClosingIsPublished'
  BY <1>2 DEF ClosingIsPublished, At, JobOf, Published, Idle
<1>7. SucceededIsCommitted'
  BY <1>1 DEF SucceededIsCommitted, ClosingIsPublished, Published
<1>8. LeasedRowHasThread'
  <2> SUFFICES ASSUME NEW j \in Jobs, job'[j].worker # NoWorker, KindOf[j] # "mutation",
                      proc[job'[j].by] = "up", j \notin stranded'[job'[j].by]
               PROVE  /\ thread'[job'[j].worker].on = j
                      /\ thread'[job'[j].worker].by = job'[j].by
    BY DEF LeasedRowHasThread
  <2>1. job'[j] = job[j] /\ job[j].worker \in Workers /\ job[j].state \in LeasedStates
    BY DEF JobTypeOK, Row, LeaseFencing
  <2>2. thread[job[j].worker].on = j /\ thread[job[j].worker].by = job[j].by
    BY <2>1 DEF LeasedRowHasThread, RowsNameStarted
  <2>3. job[j].worker # w
    BY <2>1, <2>2 DEF OwnsRow, Owned, JobOf
  <2>4. QED
    BY <1>2, <2>1, <2>2, <2>3
<1>9. QueuedIsScheduled'
  <2> SUFFICES ASSUME NEW j \in Jobs, job'[j].state = "queued", OwnerAlive(job'[j].by),
                      Executor(j) = "corpus", j \notin stranded'[job'[j].by]
               PROVE  Among(queue[job'[j].by]["corpus"], j)
    BY ScheduledAmong DEF Scheduled, OwnerAlive
  <2>1. job'[j] = job[j] /\ job[j].by \in Procs
    BY <1>1 DEF OwnerAlive
  <2>2. QED
    BY <2>1, ScheduledAmong DEF Scheduled, OwnerAlive
<1>10. QED
  BY <1>3, <1>4, <1>5, <1>6, <1>7, <1>8, <1>9

\* So does a run that ends: in success, failure or cancellation.
LEMMA EndOfRunKeeps ==
  ASSUME Inv, Inv', RunnerInv, NEW w \in Workers,
         Close(w) \/ ReportFailure(w) \/ AcknowledgeCancel(w)
  PROVE  RunnerInv'
<1> USE DEF futures
<1>1. /\ thread[w].at # "idle" /\ thread[w].on \in Jobs /\ JobOf(w) \in Jobs
      /\ thread[w].retryable \in BOOLEAN
  <2>1. Advance(w)
    BY DEF Advance
  <2>2. QED
    BY <2>1, WorkingThread DEF RunnerInv, JobOf
<1>2. job' \in [Jobs -> Row] /\ job \in [Jobs -> Row]
  BY DEF Inv, JobTypeOK
<1>0. stranded \in [Procs -> SUBSET Jobs]
  BY DEF RunnerInv, RunnerTypeOK
<1> DEFINE Lost == UNCHANGED <<workspaceVars, jobVars>>
<1>3. CASE Close(w) /\ Lost /\ Raise(w, TRUE)
  <2>1. /\ Raise(w, TRUE)
        /\ UNCHANGED <<vars, futures, corpusDb>>
    BY <1>3 DEF Close, vars
  <2>2. QED
    BY <1>1, <2>1, MovesKeep DEF Moves
<1>4. CASE Close(w) /\ Lost /\ KindOf[JobOf(w)] = "mutation" /\ Return(w)
  BY <1>0, <1>1, <1>2, <1>4, ReturnKeeps DEF Close, workspaceVars, jobVars
<1>5. CASE Close(w) /\ Succeed(thread[w].by, w, JobOf(w)) /\ Return(w)
  <2>1. At(w, "closing") /\ Return(w) /\ UNCHANGED <<proc, used, queue, stranded, corpusDb>>
    BY <1>5 DEF Close, Succeed, FinishOwned, workspaceVars
  <2>2. job' = [job EXCEPT ![JobOf(w)] = [state |-> "succeeded", by |-> NoProc,
                  worker |-> NoWorker, lease |-> "none", retryable |-> FALSE]]
    BY <1>5 DEF Close, Succeed, FinishOwned
  <2>3. /\ \A j \in Jobs \ {JobOf(w)} : job'[j] = job[j]
        /\ job'[JobOf(w)].worker = NoWorker /\ job'[JobOf(w)].by = NoProc
        /\ job'[JobOf(w)].state = "succeeded"
    BY <1>1, <1>2, <2>2
  <2>4. QED
    BY <1>0, <1>1, <1>2, <2>1, <2>3, ReturnKeeps
<1>6. CASE ReportFailure(w)
  BY <1>0, <1>1, <1>2, <1>6, ReturnKeeps DEF ReportFailure, Fail, workspaceVars, jobVars
<1>7. CASE AcknowledgeCancel(w)
  <2>1. ~OwnsRow(w, {"cancel_requested"}) => ~OwnsRow(w, LeasedStates)
    BY <1>7 DEF AcknowledgeCancel, RunnerInv, CancellingIsAsked, OwnsRow, Owned, LeasedStates
  <2>2. QED
    BY <1>0, <1>1, <1>2, <1>7, <2>1, ReturnKeeps
       DEF AcknowledgeCancel, FinishCancel, FinishOwned, workspaceVars, jobVars
<1>8. QED
  <2>1. Close(w) => \/ Succeed(thread[w].by, w, JobOf(w)) /\ Return(w)
                    \/ Lost /\ Raise(w, TRUE)
                    \/ Lost /\ KindOf[JobOf(w)] = "mutation" /\ Return(w)
    BY DEF Close
  <2>2. QED
    BY <1>3, <1>4, <1>5, <1>6, <1>7, <2>1

\* So does an error handler that fails: its row is stranded.
LEMMA HandlerFailsKeep ==
  ASSUME Inv, RunnerInv, NEW w \in Workers, HandlerFails(w)
  PROVE  RunnerInv'
<1>1. /\ thread[w].at # "idle" /\ thread[w].by \in Procs /\ JobOf(w) \in Jobs
  BY WorkingThread DEF RunnerInv, JobOf
<1>2. /\ stranded' \in [Procs -> SUBSET Jobs]
      /\ \A q \in Procs : stranded[q] \subseteq stranded'[q]
      /\ JobOf(w) \in stranded'[thread[w].by]
  BY <1>1 DEF HandlerFails, Strand, RunnerInv, RunnerTypeOK
<1>3. Return(w) /\ UNCHANGED <<job, proc, used, queue, corpusDb>> /\ job \in [Jobs -> Row]
  BY DEF HandlerFails, vars, workspaceVars, jobVars, Inv, JobTypeOK
<1>4. UNCHANGED <<proc, used, queue, corpusDb>> /\ job' = job /\ job' \in [Jobs -> Row]
  BY <1>3
<1>5. QED
  BY ONLY Inv, RunnerInv, <1>1, <1>2, <1>3, <1>4, ReturnKeeps

-----------------------------------------------------------------------------
(* Rows that are queued, claimed and skipped. *)

\* A row is queued by a live process; a corpus job gets its future as well.
LEMMA QueueingKeeps ==
  ASSUME Inv, Inv', RunnerInv, NEW p \in Procs, NEW j \in Jobs, proc[p] = "up",
         job[j].worker = NoWorker,
         job'[j].state = "queued" /\ job'[j].by = p /\ job'[j].worker = NoWorker,
         \A i \in Jobs \ {j} : job'[i] = job[i],
         UNCHANGED <<proc, used, thread, corpusDb>>,
         Enqueue(p, j) \/ (UNCHANGED futures /\ Executor(j) # "corpus")
  PROVE  RunnerInv'
<1> USE OwnersAssumption, JobsAssumption DEF Inv, RunnerInv, futures, corpusDb
<1>0. /\ stranded' \in [Procs -> SUBSET Jobs]
      /\ \A q \in Procs : stranded[q] \ {j} \subseteq stranded'[q]
  <2>1. stranded \in [Procs -> SUBSET Jobs]
    BY DEF RunnerTypeOK
  <2>2. CASE UNCHANGED stranded
    BY <2>1, <2>2
  <2>3. CASE stranded' = [stranded EXCEPT ![p] = @ \ {j}]
    <3>1. stranded[p] \ {j} \in SUBSET Jobs
      BY <2>1
    <3>2. stranded' \in [Procs -> SUBSET Jobs]
      BY <2>1, <2>3, <3>1
    <3>3. \A q \in Procs : stranded[q] \ {j} \subseteq stranded'[q]
      BY <2>1, <2>3
    <3>4. QED
      BY <3>2, <3>3
  <2>4. QED
    BY <2>2, <2>3 DEF Enqueue
<1>1. /\ queue' \in [Procs -> [Executors -> Seq(Jobs)]]
      /\ \A q \in Procs, i \in Jobs :
           Among(queue[q]["corpus"], i) => Among(queue'[q]["corpus"], i)
      /\ Executor(j) = "corpus" => Among(queue'[p]["corpus"], j)
  <2>1. CASE UNCHANGED futures /\ Executor(j) # "corpus"
    BY <2>1 DEF RunnerTypeOK
  <2>2. CASE Enqueue(p, j)
    <3>1. Executor(j) \in Executors /\ "corpus" \in Executors
      BY ExecutorIsOne DEF Executors
    <3>2. /\ queue' \in [Procs -> [Executors -> Seq(Jobs)]]
          /\ \A q \in Procs \ {p} : queue'[q] = queue[q]
          /\ queue'[p]["corpus"] = IF Executor(j) = "corpus"
                                   THEN Append(queue[p]["corpus"], j) ELSE queue[p]["corpus"]
      BY <2>2, <3>1 DEF Enqueue, RunnerTypeOK
    <3>3. queue[p]["corpus"] \in Seq(Jobs)
      BY <3>1 DEF RunnerTypeOK
    <3>4. \A i \in Jobs : Among(queue[p]["corpus"], i) \/ i = j
                             => Among(Append(queue[p]["corpus"], j), i)
      BY <3>3, AmongAppend
    <3>5. QED
      BY <3>2, <3>4
  <2>3. QED
    BY <2>1, <2>2
<1>2. RunnerTypeOK' /\ ThreadsLive' /\ ImportedOnce' /\ ClosingIsPublished'
  BY <1>0, <1>1 DEF RunnerTypeOK, ThreadsLive, ImportedOnce, ClosingIsPublished, At, JobOf,
       Published
<1>3. RowsNameStarted' /\ SucceededIsCommitted' /\ LeasedRowHasThread'
  BY <1>0 DEF RowsNameStarted, SucceededIsCommitted, LeasedRowHasThread
<1>4. CancellingIsAsked'
  <2> SUFFICES ASSUME NEW v \in Workers, At(v, "cancelling")', OwnsRow(v, LeasedStates)'
               PROVE  job'[thread[v].on].state = "cancel_requested"
    BY DEF CancellingIsAsked, JobOf
  <2>1. thread[v].on \in Jobs /\ thread[v].on # j
    BY DEF ThreadsLive, At, Idle, OwnsRow, Owned, JobOf, LeasedStates
  <2>2. QED
    BY <2>1 DEF CancellingIsAsked, At, JobOf, OwnsRow, Owned
<1>5. QueuedIsScheduled'
  BY <1>0, <1>1, ScheduledAmong DEF Scheduled, OwnerAlive
<1>6. QED
  BY <1>2, <1>3, <1>4, <1>5

\* A row that is not leased names no worker.
LEMMA UnleasedRow ==
  ASSUME Inv, NEW j \in Jobs, job[j].state \in {"queued", "paused", "failed"}
  PROVE  job[j].worker = NoWorker
BY DEF Inv, LeaseFencing, LeasedStates

\* So does a request that submits or resumes a job.
LEMMA SubmitKeeps ==
  ASSUME Inv, Inv', RunnerInv, NEW p \in Procs, NEW j \in Jobs,
         Submit(p, j) \/ ResumeCorpus(p, j) \/ ResumeImport(p, j)
  PROVE  RunnerInv'
<1> USE DEF workspaceVars, jobVars
<1>1. job \in [Jobs -> Row]
  BY DEF Inv, JobTypeOK
<1>2. CASE Submit(p, j)
  <2>1. job[j].worker = NoWorker
    BY <1>2 DEF Submit, Create, Inv, LeaseFencing, LeasedStates
  <2>2. QED
    BY <1>1, <1>2, <2>1, QueueingKeeps DEF Submit, Create
<1>3. CASE ResumeCorpus(p, j) \/ ResumeImport(p, j)
  <2>1. Resume(p, j) /\ UNCHANGED <<thread, corpusDb>>
    BY <1>3 DEF ResumeCorpus, ResumeImport
  <2>2. job[j].worker = NoWorker
    BY <2>1, UnleasedRow DEF Resume
  <2>3. /\ job'[j].state = "queued" /\ job'[j].by = p /\ job'[j].worker = NoWorker
        /\ \A i \in Jobs \ {j} : job'[i] = job[i]
        /\ proc[p] = "up" /\ UNCHANGED <<proc, used>>
    BY <1>1, <2>1, <2>2 DEF Resume, Row
  <2>4. Enqueue(p, j) \/ (UNCHANGED futures /\ Executor(j) # "corpus")
    BY <1>3 DEF ResumeCorpus, ResumeImport
  <2>5. QED
    BY <2>1, <2>2, <2>3, <2>4, QueueingKeeps
<1>4. QED
  BY <1>2, <1>3

\* The future that is taken off a queue: no other job loses its own.
LEMMA DequeueFacts ==
  ASSUME RunnerTypeOK, NEW p \in Procs, NEW x \in Executors, TakesNext(p, x)
  PROVE  /\ queue' \in [Procs -> [Executors -> Seq(Jobs)]]
         /\ \A q \in Procs \ {p} : queue'[q] = queue[q]
         /\ \A q \in Procs, i \in Jobs :
              Among(queue[q]["corpus"], i) /\ i # Head(queue[p][x])
                => Among(queue'[q]["corpus"], i)
<1>1. /\ queue[p][x] \in Seq(Jobs) /\ queue[p][x] # <<>>
      /\ Tail(queue[p][x]) \in Seq(Jobs)
  BY DEF RunnerTypeOK, TakesNext
<1>2. /\ queue' \in [Procs -> [Executors -> Seq(Jobs)]]
      /\ \A q \in Procs \ {p} : queue'[q] = queue[q]
      /\ queue'[p]["corpus"] = IF x = "corpus" THEN Tail(queue[p][x]) ELSE queue[p]["corpus"]
  BY <1>1 DEF TakesNext, RunnerTypeOK, Executors
<1>3. QED
  BY <1>1, <1>2, AmongTail

\* So does an executor that finds its job already taken, or loses it to an error.
LEMMA SkipKeeps ==
  ASSUME Inv, RunnerInv, NEW p \in Procs, NEW x \in Executors, SkipRun(p, x) \/ LoseRun(p, x)
  PROVE  RunnerInv'
<1> USE DEF RunnerInv, vars, workspaceVars, jobVars, corpusDb
<1> DEFINE h == Head(queue[p][x])
<1>1. UNCHANGED <<vars, thread, corpusDb>> /\ TakesNext(p, x) /\ h \in Jobs
  BY HeadIsJob DEF SkipRun, LoseRun, TakesNext
<1>8. /\ stranded' \in [Procs -> SUBSET Jobs]
      /\ \A q \in Procs : stranded[q] \subseteq stranded'[q]
      /\ LoseRun(p, x) => h \in stranded'[p]
  BY <1>1 DEF SkipRun, LoseRun, Strand, RunnerTypeOK
<1>2. ASSUME SkipRun(p, x) PROVE job[h].state # "queued"
  <2>0. ClaimRefused(h)
    BY <1>2 DEF SkipRun
  <2>1. CASE MaintenanceActive
    BY <1>1, <2>1 DEF MaintenanceActive, Inv, MaintenanceIsExclusive, BlockingStates
  <2>2. CASE Competing(h, LeasedStates)
    BY <1>1, <2>2 DEF Competing, Inv, OneActivePerTarget, LeasedStates, ACTIVE_TARGET_STATES
  <2>3. QED
    BY <2>0, <2>1, <2>2 DEF ClaimRefused
<1>3. /\ queue' \in [Procs -> [Executors -> Seq(Jobs)]]
      /\ \A q \in Procs \ {p} : queue'[q] = queue[q]
      /\ \A q \in Procs, i \in Jobs :
           Among(queue[q]["corpus"], i) /\ i # h => Among(queue'[q]["corpus"], i)
  BY <1>1, DequeueFacts
<1> HIDE DEF h
<1>4. RunnerTypeOK' /\ ThreadsLive' /\ ImportedOnce' /\ ClosingIsPublished'
  BY <1>1, <1>3, <1>8 DEF RunnerTypeOK, ThreadsLive, ImportedOnce, ClosingIsPublished, At,
       JobOf, Published
<1>5. RowsNameStarted' /\ SucceededIsCommitted' /\ LeasedRowHasThread' /\ CancellingIsAsked'
  BY <1>1, <1>8 DEF RowsNameStarted, SucceededIsCommitted, LeasedRowHasThread,
       CancellingIsAsked, At, JobOf, OwnsRow, Owned
<1>6. QueuedIsScheduled'
  <2> SUFFICES ASSUME NEW j \in Jobs, job[j].state = "queued", job[j].by \in Procs,
                      proc[job[j].by] = "up", Executor(j) = "corpus",
                      j \notin stranded'[job[j].by]
               PROVE  Among(queue'[job[j].by]["corpus"], j)
    BY <1>1, ScheduledAmong DEF Scheduled, OwnerAlive
  <2>1. j \notin stranded[job[j].by]
    BY <1>8
  <2>2. Among(queue[job[j].by]["corpus"], j)
    BY <2>1, ScheduledAmong DEF Scheduled, OwnerAlive
  <2>3. CASE job[j].by = p
    <3>1. j # h
      BY <1>2, <1>8, <2>3
    <3>2. QED
      BY <1>3, <2>2, <3>1
  <2>4. CASE job[j].by # p
    BY <1>3, <2>2, <2>4
  <2>5. QED
    BY <2>3, <2>4
<1>7. QED
  BY <1>4, <1>5, <1>6

\* So does a run that claims its job and begins.
LEMMA BeginKeeps ==
  ASSUME Inv, RunnerInv, NEW p \in Procs, NEW x \in Executors, NEW w \in Workers,
         BeginRun(p, w, x)
  PROVE  RunnerInv'
<1> USE OwnersAssumption, JobsAssumption DEF Inv, RunnerInv, corpusDb
<1> DEFINE h == Head(queue[p][x])
<1>1. /\ h \in Jobs /\ Claim(p, w, h) /\ TakesNext(p, x)
      /\ UNCHANGED corpusDb /\ proc' = proc /\ stranded' = stranded
  BY HeadIsJob DEF BeginRun, TakesNext, Claim
<1>2. /\ queue' \in [Procs -> [Executors -> Seq(Jobs)]]
      /\ \A q \in Procs, i \in Jobs :
           Among(queue[q]["corpus"], i) /\ i # h => Among(queue'[q]["corpus"], i)
  BY DequeueFacts DEF BeginRun
<1>3. PICK t \in Thread : /\ thread' = [thread EXCEPT ![w] = t]
                          /\ t.at \in {"publishing", "working"} /\ t.by = p /\ t.on = h
  <2> DEFINE t == [at |-> IF KindOf[h] \in {"lifecycle", "mutation"}
                          THEN "publishing" ELSE "working",
                   by |-> p, on |-> h, retryable |-> FALSE]
  <2>1. t \in Thread /\ t.at \in {"publishing", "working"} /\ t.by = p /\ t.on = h
    BY <1>1 DEF Thread, Stages
  <2>2. thread' = [thread EXCEPT ![w] = t]
    BY DEF BeginRun
  <2>3. QED
    BY <2>1, <2>2
<1> HIDE DEF h
<1>4. /\ thread' \in [Workers -> Thread] /\ thread'[w] = t
      /\ \A v \in Workers \ {w} : thread'[v] = thread[v]
  BY <1>3 DEF RunnerTypeOK
<1>5. /\ proc[p] = "up" /\ w \notin used /\ used' = used \cup {w}
      /\ job[h].state = "queued" /\ job'[h].state = "running"
      /\ job'[h].by = p /\ job'[h].worker = w
      /\ \A i \in Jobs \ {h} : job'[i] = job[i]
  BY <1>1 DEF Claim, JobTypeOK, Row
<1>6. RunnerTypeOK' /\ ImportedOnce'
  BY <1>1, <1>2, <1>4 DEF RunnerTypeOK, ImportedOnce
<1>7. ThreadsLive'
  BY <1>1, <1>3, <1>4, <1>5 DEF ThreadsLive
<1>8. RowsNameStarted' /\ SucceededIsCommitted'
  BY <1>1, <1>5 DEF RowsNameStarted, SucceededIsCommitted
<1>9. CancellingIsAsked'
  <2> SUFFICES ASSUME NEW v \in Workers, At(v, "cancelling")', OwnsRow(v, LeasedStates)'
               PROVE  job'[thread'[v].on].state = "cancel_requested"
    BY DEF CancellingIsAsked, JobOf
  <2>1. v # w /\ thread'[v] = thread[v]
    BY <1>3, <1>4 DEF At
  <2>2. thread[v].on \in Jobs /\ thread[v].on # h
    BY <1>5, <2>1 DEF ThreadsLive, At, Idle, OwnsRow, Owned, JobOf
  <2>3. QED
    BY <1>5, <2>1, <2>2 DEF CancellingIsAsked, At, JobOf, OwnsRow, Owned
<1>10. ClosingIsPublished'
  BY <1>1, <1>3, <1>4 DEF ClosingIsPublished, At, JobOf, Published
<1>11. LeasedRowHasThread'
  <2> SUFFICES ASSUME NEW j \in Jobs, job'[j].worker # NoWorker, KindOf[j] # "mutation",
                      proc[job'[j].by] = "up", j \notin stranded[job'[j].by]
               PROVE  /\ thread'[job'[j].worker].on = j
                      /\ thread'[job'[j].worker].by = job'[j].by
    BY <1>1 DEF LeasedRowHasThread
  <2>1. CASE j = h
    BY <1>3, <1>4, <1>5, <2>1
  <2>2. CASE j # h
    <3>1. job'[j] = job[j] /\ job[j].worker \in used /\ job[j].worker \in Workers
      BY <1>5, <2>2 DEF LeaseFencing, JobTypeOK, Row
    <3>2. QED
      BY <1>4, <1>5, <3>1 DEF LeasedRowHasThread
  <2>3. QED
    BY <2>1, <2>2
<1>12. QueuedIsScheduled'
  BY <1>1, <1>2, <1>5, ScheduledAmong DEF Scheduled, OwnerAlive
<1>13. QED
  BY <1>6, <1>7, <1>8, <1>9, <1>10, <1>11, <1>12

-----------------------------------------------------------------------------
(* Processes, recovery and time. *)

\* So does a process that starts or exits.
LEMMA ProcessStepsKeep ==
  ASSUME Inv, RunnerInv, NEW p \in Procs, EndProcess(p) \/ (Start(p) /\ UNCHANGED runnerVars)
  PROVE  RunnerInv'
<1> USE OwnersAssumption, JobsAssumption DEF Inv, RunnerInv, jobVars, futures, corpusDb
<1>1. UNCHANGED <<job, used, committed, duplicate>>
  BY DEF EndProcess, Stop, Start, runnerVars
<1>2. RunnerTypeOK' /\ ThreadsLive' /\ RowsNameStarted'
  <2>1. CASE Start(p) /\ UNCHANGED runnerVars
    BY <2>1 DEF Start, runnerVars, RunnerTypeOK, ThreadsLive, RowsNameStarted, WorkspaceTypeOK
  <2>2. CASE EndProcess(p)
    <3>1. RunnerTypeOK'
      <4>1. Idle \in Thread /\ [x \in Executors |-> <<>>] \in [Executors -> Seq(Jobs)]
        BY DEF Idle, Thread, Stages
      <4>2. QED
        BY <1>1, <2>2, <4>1 DEF EndProcess, RunnerTypeOK
    <3>2. ThreadsLive' /\ RowsNameStarted'
      BY <1>1, <2>2 DEF EndProcess, Stop, ThreadsLive, RowsNameStarted, WorkspaceTypeOK
    <3>3. QED
      BY <3>1, <3>2
  <2>3. QED
    BY <2>1, <2>2
<1>3. \A w \in Workers : thread'[w] = thread[w] \/ thread'[w] = Idle
  BY DEF EndProcess, runnerVars
<1>4. ImportedOnce' /\ SucceededIsCommitted'
  BY <1>1 DEF ImportedOnce, SucceededIsCommitted
<1>5. CancellingIsAsked' /\ ClosingIsPublished'
  BY <1>1, <1>3 DEF CancellingIsAsked, ClosingIsPublished, At, JobOf, OwnsRow, Owned, Published,
       Idle
<1>6. LeasedRowHasThread'
  <2> SUFFICES ASSUME NEW j \in Jobs, job[j].worker # NoWorker, KindOf[j] # "mutation",
                      proc'[job[j].by] = "up", j \notin stranded'[job[j].by]
               PROVE  /\ thread'[job[j].worker].on = j
                      /\ thread'[job[j].worker].by = job[j].by
    BY <1>1 DEF LeasedRowHasThread
  <2>1. job[j].by \in Procs /\ proc[job[j].by] # "new" /\ job[j].worker \in Workers
    BY DEF RowsNameStarted, JobTypeOK, Row
  <2>2. proc[job[j].by] = "up" /\ (EndProcess(p) => job[j].by # p)
    BY <2>1 DEF EndProcess, Stop, Start, WorkspaceTypeOK
  <2>5. j \notin stranded[job[j].by]
    BY <2>1, <2>2 DEF EndProcess, runnerVars, RunnerTypeOK
  <2>3. thread[job[j].worker].on = j /\ thread[job[j].worker].by = job[j].by
    BY <2>2, <2>5 DEF LeasedRowHasThread
  <2>4. QED
    BY <2>1, <2>2, <2>3 DEF EndProcess, runnerVars
<1>7. QueuedIsScheduled'
  <2> SUFFICES ASSUME NEW j \in Jobs, job[j].state = "queued", job[j].by \in Procs,
                      proc'[job[j].by] = "up", Executor(j) = "corpus",
                      j \notin stranded'[job[j].by]
               PROVE  Among(queue'[job[j].by]["corpus"], j)
    BY <1>1, ScheduledAmong DEF Scheduled, OwnerAlive
  <2>1. proc[job[j].by] = "up" /\ (EndProcess(p) => job[j].by # p)
    BY DEF EndProcess, Stop, Start, WorkspaceTypeOK, RowsNameStarted
  <2>5. j \notin stranded[job[j].by]
    BY <2>1 DEF EndProcess, runnerVars, RunnerTypeOK
  <2>2. Among(queue[job[j].by]["corpus"], j)
    BY <2>1, <2>5, ScheduledAmong DEF Scheduled, OwnerAlive
  <2>3. queue'[job[j].by] = queue[job[j].by]
    BY <2>1 DEF EndProcess, runnerVars, RunnerTypeOK
  <2>4. QED
    BY <2>2, <2>3
<1>8. QED
  BY <1>2, <1>4, <1>5, <1>6, <1>7

\* So does a step that changes rows and no thread.
LEMMA RowStepsKeep ==
  ASSUME Inv, Inv', RunnerInv, UNCHANGED runnerVars,
         \/ \E p \in Procs, j \in Jobs : RequestCancel(p, j)
         \/ \E p \in Procs, w \in Workers, j \in Jobs : Heartbeat(p, w, j)
         \/ \E p \in Procs : RecoverInterrupted(p) \/ RecoverBeforeEntry(p)
         \/ \E j \in Jobs : LeaseLapses(j)
         \/ UNCHANGED <<job, used, proc>>
  PROVE  RunnerInv'
<1> USE DEF workspaceVars
<1>1. job' \in [Jobs -> Row] /\ job \in [Jobs -> Row]
  BY DEF Inv, JobTypeOK
<1>2. used' = used /\ proc' = proc
  BY DEF RequestCancel, Heartbeat, RecoverInterrupted, RecoverBeforeEntry, LeaseLapses
<1>3. ASSUME NEW i \in Jobs
      PROVE  \/ job'[i] = job[i]
             \/ /\ job'[i].worker = NoWorker /\ job'[i].by \in {NoProc, job[i].by}
                /\ job'[i].state \notin {"queued", "succeeded"}
             \/ /\ job'[i].worker = job[i].worker /\ job'[i].by = job[i].by
                /\ \/ job'[i].state = job[i].state
                   \/ job'[i].state = "cancel_requested"
  <2>1. ASSUME NEW p \in Procs, NEW j \in Jobs, RequestCancel(p, j) PROVE <1>3!2
    <3>1. job[j] \in Row /\ (i # j => job'[i] = job[i])
      BY <1>1, <2>1 DEF RequestCancel
    <3>2. CASE job[j].state \in {"queued", "paused"}
      <4>1. job[j].worker = NoWorker
        BY <3>2, UnleasedRow
      <4>2. job'[j] = [job[j] EXCEPT !.state = "cancelled", !.retryable = FALSE]
        BY <1>1, <2>1, <3>2 DEF RequestCancel
      <4>3. QED
        BY <3>1, <4>1, <4>2 DEF Row
    <3>3. CASE job[j].state \notin {"queued", "paused"}
      <4>1. job'[j] = [job[j] EXCEPT !.state = "cancel_requested"] \/ job'[j] = job[j]
        BY <1>1, <2>1, <3>3 DEF RequestCancel
      <4>2. QED
        BY <3>1, <4>1 DEF Row
    <3>4. QED
      BY <3>2, <3>3
  <2>2. ASSUME NEW p \in Procs, NEW w \in Workers, NEW j \in Jobs, Heartbeat(p, w, j)
        PROVE  <1>3!2
    BY <1>1, <2>2 DEF Heartbeat, Row
  <2>3. ASSUME NEW j \in Jobs, LeaseLapses(j) PROVE <1>3!2
    BY <1>1, <2>3 DEF LeaseLapses, Row
  <2>4. ASSUME job' = Recovered PROVE <1>3!2
    <3>1. CASE Interrupted(i)
      <4>1. job'[i] = InterruptedRow(i)
        BY <2>4, <3>1 DEF Recovered
      <4>2. QED
        BY <4>1 DEF InterruptedRow
    <3>2. CASE ~Interrupted(i)
      BY <2>4, <3>2 DEF Recovered
    <3>3. QED
      BY <3>1, <3>2
  <2>5. ASSUME UNCHANGED <<job, used, proc>> PROVE <1>3!2
    BY <2>5
  <2>6. (\E p \in Procs : RecoverInterrupted(p) \/ RecoverBeforeEntry(p)) => job' = Recovered
    BY DEF RecoverInterrupted, RecoverBeforeEntry
  <2>7. QED
    BY <2>1, <2>2, <2>3, <2>4, <2>5, <2>6
<1>4. QED
  BY <1>1, <1>2, <1>3, RowsChange

-----------------------------------------------------------------------------
\* The runners' invariant holds at the start.
LEMMA RunnerInit == CorpusInit => RunnerInv
<1> SUFFICES ASSUME CorpusInit PROVE RunnerInv
  OBVIOUS
<1> USE OwnersAssumption, JobsAssumption DEF CorpusInit
<1>1. RunnerTypeOK
  BY DEF RunnerTypeOK, Thread, Idle, Stages
<1>2. ThreadsLive /\ CancellingIsAsked /\ ClosingIsPublished
  BY DEF ThreadsLive, CancellingIsAsked, ClosingIsPublished, At, Idle
<1>3. \A j \in Jobs : /\ job[j].worker = NoWorker /\ job[j].by \notin Procs
                      /\ job[j].state # "succeeded"
  BY DEF Init, JobInit, LegacyRows, AbsentRow
<1>4. RowsNameStarted /\ LeasedRowHasThread /\ SucceededIsCommitted /\ QueuedIsScheduled
  BY <1>3 DEF RowsNameStarted, LeasedRowHasThread, SucceededIsCommitted, QueuedIsScheduled,
       OwnerAlive
<1>5. ImportedOnce
  BY DEF ImportedOnce
<1>6. QED
  BY <1>1, <1>2, <1>4, <1>5 DEF RunnerInv

\* The runners' invariant is inductive, given that of the table.
LEMMA RunnerNext ==
  ASSUME Inv, RunnerInv, [CorpusNext]_corpusVars
  PROVE  Inv' /\ RunnerInv'
<1>1. Inv'
  BY StepOfTable, NextInv DEF RunnerInv
<1>2. ASSUME NEW p \in Procs, NEW j \in Jobs,
             Submit(p, j) \/ Cancel(p, j) \/ ResumeCorpus(p, j) \/ ResumeImport(p, j)
      PROVE  RunnerInv'
  BY <1>1, <1>2, SubmitKeeps, RowStepsKeep DEF Cancel
<1>3. ASSUME NEW p \in Procs, NEW x \in Executors, BeginNext(p, x) \/ LoseRun(p, x)
      PROVE  RunnerInv'
  BY <1>3, SkipKeeps, BeginKeeps DEF BeginNext
<1>4. ASSUME NEW w \in Workers, Advance(w) \/ Progress(w) \/ HandlerFails(w)
      PROVE  RunnerInv'
  <2>1. thread[w].at # "idle" /\ thread[w].by \in Procs /\ thread[w].on \in Jobs
    BY <1>4, WorkingThread DEF RunnerInv
  <2>2. CASE FinishWork(w)
    BY <2>1, <2>2, MovesKeep DEF FinishWork, Moves
  <2>3. CASE WorkFails(w)
    BY <2>1, <2>3, MovesKeep DEF WorkFails, Moves
  <2>4. CASE Failing(w)
    BY <2>1, <2>4, MovesKeep DEF Failing, Moves
  <2>5. CASE Publish(w) \/ FindDuplicate(w)
    BY <2>5, PublishKeeps DEF Inv
  <2>6. CASE Close(w) \/ ReportFailure(w) \/ AcknowledgeCancel(w)
    BY <1>1, <2>6, EndOfRunKeeps
  <2>7. CASE Progress(w)
    <3>1. CASE Heartbeat(thread[w].by, w, JobOf(w)) /\ UNCHANGED <<thread, futures, corpusDb>>
      BY <1>1, <2>1, <3>1, RowStepsKeep DEF JobOf, runnerVars
    <3>2. CASE ~(Heartbeat(thread[w].by, w, JobOf(w)) /\ UNCHANGED <<thread, futures, corpusDb>>)
      BY <2>1, <2>7, <3>2, MovesKeep DEF Progress, Moves
    <3>3. QED
      BY <3>1, <3>2
  <2>8. QED
    BY <1>4, <2>2, <2>3, <2>4, <2>5, <2>6, <2>7, HandlerFailsKeep DEF Advance
<1>5. ASSUME NEW p \in Procs, EndProcess(p) \/ Environment(p)
      PROVE  RunnerInv'
  <2>1. CASE EndProcess(p)
    BY <2>1, ProcessStepsKeep
  <2>2. CASE Environment(p) /\ Start(p)
    BY <2>2, ProcessStepsKeep DEF Environment
  <2>3. CASE Environment(p) /\ ~Start(p)
    <3>1. \/ RecoverInterrupted(p) \/ RecoverBeforeEntry(p)
          \/ UNCHANGED <<job, used, proc>>
      BY <2>3 DEF Environment, AcquireLock, RaiseFlag, RefuseEntry, ClearFlag, ReleaseLock,
           jobVars
    <3>2. QED
      BY <1>1, <2>3, <3>1, RowStepsKeep DEF Environment
  <2>4. QED
    BY <1>5, <2>1, <2>2, <2>3
<1>6. ASSUME NEW j \in Jobs, TimePasses(j) PROVE RunnerInv'
  BY <1>1, <1>6, RowStepsKeep DEF TimePasses
<1>7. CASE UNCHANGED corpusVars
  BY <1>1, <1>7, RowStepsKeep DEF corpusVars, vars, workspaceVars, jobVars
<1>8. QED
  BY <1>1, <1>2, <1>3, <1>4, <1>5, <1>6, <1>7 DEF CorpusNext

-----------------------------------------------------------------------------
(***************************************************************************)
(* The inductive invariant of the runners, together with the one of the    *)
(* table and the barrier.                                                  *)
(***************************************************************************)
THEOREM RunnerInvariance == CorpusSafety => [](Inv /\ RunnerInv)
<1>1. CorpusInit => Inv /\ RunnerInv
  BY InitInv, RunnerInit DEF CorpusInit
<1>2. Inv /\ RunnerInv /\ [CorpusNext]_corpusVars => (Inv /\ RunnerInv)'
  BY RunnerNext
<1>3. QED
  BY <1>1, <1>2, PTL DEF CorpusSafety

(***************************************************************************)
(* The runners only touch the job table, the ledger and the barrier by     *)
(* their operations: beside them everything proved of the workspace holds. *)
(***************************************************************************)
THEOREM RunnersUseTheTable == CorpusSafety => Spec
<1>1. CorpusInit => Init
  BY DEF CorpusInit
<1>2. Inv /\ RunnerInv /\ [CorpusNext]_corpusVars => [Next]_vars
  BY StepOfTable DEF RunnerInv
<1>3. QED
  BY <1>1, <1>2, RunnerInvariance, PTL DEF CorpusSafety, Spec

(***************************************************************************)
(* An import is published once, however often and by however many threads  *)
(* it is run (corpus/resources.py:505-508, 653-658).                       *)
(***************************************************************************)
THEOREM ImportsPublishOnce == CorpusSafety => []ImportedOnce
<1>1. Inv /\ RunnerInv => ImportedOnce
  BY DEF RunnerInv
<1>2. QED
  BY <1>1, RunnerInvariance, PTL

(***************************************************************************)
(* A job reported as succeeded has published, or had nothing to publish    *)
(* (maintenance.py:266-303, jobs/resources.py:186-224).                    *)
(***************************************************************************)
THEOREM SuccessIsCommitted == CorpusSafety => []SucceededIsCommitted
<1>1. Inv /\ RunnerInv => SucceededIsCommitted
  BY DEF RunnerInv
<1>2. QED
  BY <1>1, RunnerInvariance, PTL

(***************************************************************************)
(* No run ends and leaves its row leased, except the run whose error       *)
(* handler fails on the job table as well                                  *)
(* (maintenance.py:304-332, jobs/resources.py:226-256).                    *)
(***************************************************************************)
THEOREM LeasesHaveThreads == CorpusSafety => []LeasedRowHasThread
<1>1. Inv /\ RunnerInv => LeasedRowHasThread
  BY DEF RunnerInv
<1>2. QED
  BY <1>1, RunnerInvariance, PTL

(***************************************************************************)
(* A queued corpus job of a live process has its future: skipping one that *)
(* is refused never loses a job that could run, since a refusal means that *)
(* it is not queued any more.  What does lose one is an error of the       *)
(* database at its own claim (maintenance.py:145-162, 184-196): the        *)
(* stranded jobs are the whole exception.                                  *)
(***************************************************************************)
THEOREM QueuedHasFuture == CorpusSafety => []QueuedIsScheduled
<1>1. Inv /\ RunnerInv => QueuedIsScheduled
  BY DEF RunnerInv
<1>2. QED
  BY <1>1, RunnerInvariance, PTL
=============================================================================
