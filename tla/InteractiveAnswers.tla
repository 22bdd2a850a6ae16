------------------------- MODULE InteractiveAnswers -------------------------
(***************************************************************************)
(* Questions asked in the browser: jobs/interactive.py over the provider   *)
(* gateway (providers/gateway.py).  A question has a row of the job table, *)
(* a record in memory that holds its result until it expires, a signal     *)
(* that cancels it, and a run on one of the executor's threads that makes  *)
(* up to two paid calls: an embedding of the question and the answer.      *)
(* Browsers poll: they read the row, and then the record.                  *)
(*                                                                         *)
(* The worker's lease is the row's state here, because a row is claimed    *)
(* once; retrieval is ConsentedAnswers' and admission UsageLedger's.       *)
(***************************************************************************)
EXTENDS Naturals, FiniteSets

CONSTANTS Questions, AnswerWorkers, MaxAppCrashes

VARIABLES question,  \* question[q].row, .record, .result, .signal, .listed
          run,       \* where the run of a question is
          call,      \* usage attempts of a question
          canceller, \* the questions whose cancel request has yet to signal
          poll,      \* what a browser reads
          appCrashes
interactiveVars == <<question, run, call, canceller, poll, appCrashes>>

Calls == {"embedding", "answer"}
LeasedRow == {"running", "cancel_requested"}
NoQuestion == [row |-> "absent", record |-> "none", result |-> FALSE,
               signal |-> FALSE, listed |-> FALSE]
NoPoll == [at |-> "idle", row |-> "absent", record |-> "none", result |-> FALSE]

Init_Interactive ==
  /\ question = [q \in Questions |-> NoQuestion]
  /\ run = [q \in Questions |-> "none"]
  /\ call = [q \in Questions |-> [c \in Calls |-> "none"]]
  /\ canceller = {}
  /\ poll = [q \in Questions |-> NoPoll]
  /\ appCrashes = 0

Goes(q, pc) == run' = [run EXCEPT ![q] = pc]
Threads == {q \in Questions : run[q] \notin {"none", "created", "waiting", "ended", "dead"}}
-----------------------------------------------------------------------------
(* POST /query, submit: the row, ... *)
CreateQuestion(q) ==
  /\ run[q] = "none"
  /\ question' = [question EXCEPT ![q].row = "queued"]
  /\ Goes(q, "created")
  /\ UNCHANGED <<call, canceller, poll, appCrashes>>

(* ... the record and the signal, and only then the executor's queue. *)
Register(q) ==
  /\ run[q] = "created"
  /\ question' = [question EXCEPT ![q].record = "held", ![q].listed = TRUE]
  /\ Goes(q, "waiting")
  /\ UNCHANGED <<call, canceller, poll, appCrashes>>

(* claim: a question that was cancelled in the queue fails here.  The       *)
(* maintenance barrier may refuse a claim too.                              *)
StartRun(q) ==
  /\ run[q] = "waiting" /\ Cardinality(Threads) < AnswerWorkers
  /\ \/ /\ question[q].row = "queued"
        /\ question' = [question EXCEPT ![q].row = "running"]
        /\ Goes(q, "begun")
     \/ Goes(q, "failing") /\ UNCHANGED question
  /\ UNCHANGED <<call, canceller, poll, appCrashes>>

(* answer(): the first look at the signal; with vectors at hand the         *)
(* question is embedded, otherwise the search goes by words only.           *)
BeginRetrieval(q) ==
  /\ run[q] = "begun"
  /\ IF question[q].signal THEN Goes(q, "cancelling")
     ELSE Goes(q, "embedding") \/ Goes(q, "found") \/ Goes(q, "failing")
  /\ UNCHANGED <<question, call, canceller, poll, appCrashes>>
-----------------------------------------------------------------------------
(* A run that waits for the provider, and where it goes on after a call     *)
(* that worked and after one the gateway refused or reported as failed:     *)
(* without the vector, or to a result whose status is provider_error.       *)
Sent(c) == IF c = "embedding" THEN "embedding sent" ELSE "answer sent"
AfterCall(c) == IF c = "embedding" THEN "found" ELSE "storing"

(* gateway.embeddings and gateway.answer: the profile, the credential, the  *)
(* network policy, the signal, the deadline and the ledger are asked before *)
(* anything is sent.                                                        *)
ReserveCall(q, c) ==
  /\ run[q] = c
  /\ \/ question[q].signal /\ Goes(q, "cancelling") /\ UNCHANGED call
     \/ Goes(q, AfterCall(c)) /\ UNCHANGED call
     \/ Goes(q, "failing") /\ UNCHANGED call
     \/ /\ ~question[q].signal
        /\ call' = [call EXCEPT ![q][c] = "reserved"]
        /\ Goes(q, Sent(c))
  /\ UNCHANGED <<question, canceller, poll, appCrashes>>

(* The answer came.  It settles the attempt, unless the signal or the       *)
(* deadline is noticed when it is in.                                       *)
CallAnswered(q, c) ==
  /\ run[q] = Sent(c) /\ ~question[q].signal
  /\ call' = [call EXCEPT ![q][c] = "settled"]
  /\ Goes(q, AfterCall(c))
  /\ UNCHANGED <<question, canceller, poll, appCrashes>>

(* The provider refused the request: nothing was charged. *)
CallRejected(q, c) ==
  /\ run[q] = Sent(c)
  /\ call' = [call EXCEPT ![q][c] = "settled"]
  /\ Goes(q, AfterCall(c))
  /\ UNCHANGED <<question, canceller, poll, appCrashes>>

(* No answer, a failing provider or a malformed one. *)
CallFailed(q, c) ==
  /\ run[q] = Sent(c)
  /\ call' = [call EXCEPT ![q][c] = "uncertain"]
  /\ Goes(q, AfterCall(c))
  /\ UNCHANGED <<question, canceller, poll, appCrashes>>

\* Mutant: the check after the answer raises without its reservation.
StopUnmarked(q, c) ==
  /\ run[q] = Sent(c)
  /\ \/ question[q].signal /\ Goes(q, "cancelling")
     \/ Goes(q, "failing")
  /\ UNCHANGED <<question, call, canceller, poll, appCrashes>>

(* _check with the reservation: cancelled, or too late. *)
CallStopped(q, c) ==
  /\ run[q] = Sent(c)
  /\ \/ question[q].signal /\ Goes(q, "cancelling")
     \/ Goes(q, "failing")
  /\ call' = [call EXCEPT ![q][c] = "uncertain"]
  /\ UNCHANGED <<question, canceller, poll, appCrashes>>

(* An exception none of the gateway's handlers names: an answer of another  *)
(* shape, or a ledger that cannot be written.  The attempt stays reserved.  *)
CallBreaks(q, c) ==
  /\ run[q] = Sent(c)
  /\ call' = [call EXCEPT ![q][c] = "lost"]
  /\ Goes(q, "failing")
  /\ UNCHANGED <<question, canceller, poll, appCrashes>>
-----------------------------------------------------------------------------
(* evidence_ready: the record, then a checkpoint that needs the lease.      *)
(* Without evidence, or without coverage of the period asked for, there is  *)
(* a result and no answer call.                                             *)
ShowEvidence(q) ==
  /\ run[q] = "found"
  /\ IF question[q].row \in LeasedRow THEN Goes(q, "answer") \/ Goes(q, "storing")
     ELSE Goes(q, "failing")
  /\ UNCHANGED <<question, call, canceller, poll, appCrashes>>

\* Mutant: the row is finished before the result is in the record.
SucceedFirst(q) ==
  /\ run[q] = "storing"
  /\ question' = [question EXCEPT ![q].row = IF @ = "running" THEN "succeeded" ELSE @]
  /\ Goes(q, "succeeding")
  /\ UNCHANGED <<call, canceller, poll, appCrashes>>

(* The result goes to the record, if it is still there ... *)
StoreResult(q) ==
  /\ run[q] = "storing"
  /\ question' = [question EXCEPT ![q].result = question[q].record = "held"]
  /\ Goes(q, "succeeding")
  /\ UNCHANGED <<call, canceller, poll, appCrashes>>

(* ... and succeed ends the row, which a cancellation may have changed.     *)
SucceedRow(q) ==
  /\ run[q] = "succeeding"
  /\ IF question[q].row = "running"
     THEN question' = [question EXCEPT ![q].row = "succeeded"] /\ Goes(q, "leaving")
     ELSE Goes(q, "failing") /\ UNCHANGED question
  /\ UNCHANGED <<call, canceller, poll, appCrashes>>

(* finish_cancel and fail: a refusal of either is swallowed. *)
FinishCancelRow(q) ==
  /\ run[q] = "cancelling"
  /\ question' = [question EXCEPT ![q].row = IF @ = "cancel_requested" THEN "cancelled" ELSE @]
  /\ Goes(q, "leaving")
  /\ UNCHANGED <<call, canceller, poll, appCrashes>>

FailRow(q) ==
  /\ run[q] = "failing"
  /\ question' = [question EXCEPT ![q].row = IF @ \in LeasedRow THEN "failed" ELSE @]
  /\ Goes(q, "leaving")
  /\ UNCHANGED <<call, canceller, poll, appCrashes>>

(* finally: the signal is forgotten. *)
LeaveRun(q) ==
  /\ run[q] = "leaving"
  /\ question' = [question EXCEPT ![q].listed = FALSE]
  /\ Goes(q, "ended")
  /\ UNCHANGED <<call, canceller, poll, appCrashes>>
-----------------------------------------------------------------------------
(* cancel: the row first; a queued one is over. *)
CancelQuestion(q) ==
  /\ question[q].row \in {"queued"} \cup LeasedRow /\ run[q] # "dead"
  /\ question' = [question EXCEPT ![q].row =
                    IF @ = "queued" THEN "cancelled" ELSE "cancel_requested"]
  /\ canceller' = canceller \cup {q}
  /\ UNCHANGED <<run, call, poll, appCrashes>>

(* Then the signal, if it is listed. *)
SignalRun(q) ==
  /\ q \in canceller
  /\ canceller' = canceller \ {q}
  /\ question' = [question EXCEPT ![q].signal = @ \/ question[q].listed]
  /\ UNCHANGED <<run, call, poll, appCrashes>>

(* get: expired records go, and their signals with them; ... *)
PruneRecord(q) ==
  /\ question[q].record = "held"
  /\ question' = [question EXCEPT ![q].record = "expired", ![q].result = FALSE,
                                  ![q].listed = FALSE]
  /\ UNCHANGED <<run, call, canceller, poll, appCrashes>>

(* ... the row is read, ... *)
PollRow(q) ==
  /\ question[q].row # "absent" /\ poll[q].at # "row"
  /\ poll' = [poll EXCEPT ![q] = [NoPoll EXCEPT !.at = "row", !.row = question[q].row]]
  /\ UNCHANGED <<question, run, call, canceller, appCrashes>>

(* ... and the record. *)
PollRecord(q) ==
  /\ poll[q].at = "row"
  /\ poll' = [poll EXCEPT ![q].at = "done", ![q].record = question[q].record,
                          ![q].result = question[q].result]
  /\ UNCHANGED <<question, run, call, canceller, appCrashes>>

(* Another process finds the lease expired while the run goes on: an        *)
(* answer is not resumed, so the row has failed.                            *)
RecoverLapsed(q) ==
  /\ question[q].row \in LeasedRow
  /\ question' = [question EXCEPT ![q].row = "failed"]
  /\ UNCHANGED <<run, call, canceller, poll, appCrashes>>

(* The application ends and starts again: records, signals and threads are  *)
(* gone, recovery fails the rows and the ledger's recovery makes the        *)
(* attempts of the dead process uncertain.                                  *)
RestartApp ==
  /\ appCrashes < MaxAppCrashes
  /\ appCrashes' = appCrashes + 1
  /\ question' = [q \in Questions |->
       [NoQuestion EXCEPT !.row = IF question[q].row \in {"queued"} \cup LeasedRow
                                  THEN "failed" ELSE question[q].row]]
  /\ run' = [q \in Questions |-> IF run[q] = "none" THEN "none" ELSE "dead"]
  /\ call' = [q \in Questions |-> [c \in Calls |->
       IF call[q][c] \in {"reserved", "lost"} THEN "uncertain" ELSE call[q][c]]]
  /\ canceller' = {}
  /\ poll' = [q \in Questions |-> NoPoll]

GatewayStep(q, c) ==
  \/ ReserveCall(q, c) \/ CallAnswered(q, c) \/ CallRejected(q, c)
  \/ CallFailed(q, c) \/ CallStopped(q, c) \/ CallBreaks(q, c)

Next_Interactive ==
  \/ \E q \in Questions :
       \/ CreateQuestion(q) \/ Register(q) \/ StartRun(q) \/ BeginRetrieval(q)
       \/ (\E c \in Calls : GatewayStep(q, c))
       \/ ShowEvidence(q) \/ StoreResult(q) \/ SucceedRow(q) \/ FinishCancelRow(q)
       \/ FailRow(q) \/ LeaveRun(q)
       \/ CancelQuestion(q) \/ SignalRun(q) \/ PruneRecord(q)
       \/ PollRow(q) \/ PollRecord(q) \/ RecoverLapsed(q)
  \/ RestartApp

Spec_Interactive == Init_Interactive /\ [][Next_Interactive]_interactiveVars
-----------------------------------------------------------------------------
(* A browser that is told that its question succeeded gets the result, or   *)
(* is told that it has expired; one that is told that the question was      *)
(* cancelled gets none.  get reads the row and the record apart, while the  *)
(* run, a cancellation and other browsers' pruning change both              *)
(* (interactive.py:99-158, 217-241).                                        *)
PollIsConsistent ==
  \A q \in Questions : poll[q].at = "done" =>
    /\ poll[q].row = "succeeded" /\ poll[q].record = "held" => poll[q].result
    /\ poll[q].row = "cancelled" => ~poll[q].result

(* A run that is over leaves no attempt reserved, however it ended,         *)
(* cancelled between the request and its answer included: only an exception *)
(* no handler of the gateway names loses one (gateway.py:146-212, 520-536). *)
CallEndsResolved ==
  \A q \in Questions : run[q] \in {"ended", "dead"} =>
    \A c \in Calls : call[q][c] # "reserved"
=============================================================================
