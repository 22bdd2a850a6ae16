------------------------------ MODULE UsageLedger ------------------------------
(***************************************************************************)
(* The append-only spend ledger and the paid-call leases                   *)
(* (app/usage/ledger.py), as the provider gateway uses them                *)
(* (app/providers/gateway.py).  Each operation is one BEGIN IMMEDIATE      *)
(* transaction and therefore one action; a denied call rolls back,         *)
(* recovery included, and is not a step.                                   *)
(*                                                                         *)
(* log[a] is the sequence of the events of attempt a in usage_events.      *)
(* Amounts are whole units of the ledger's fixed-point money.              *)
(***************************************************************************)
EXTENDS Workspace, Naturals, Sequences, FiniteSets, Functions

CONSTANTS
  Attempts,        \* attempt ids; the gateway draws a new uuid per call
  Operations,      \* operation ids
  Costs,           \* amounts a reservation or a settlement may carry
  MonthlyCap, OperationCap, MaxConcurrent,
  LegacyAttempts,  \* reservations an older release left behind
  MaxMonth         \* bound: months the model runs for

ASSUME LedgerAssumption ==
  /\ Costs \subseteq Nat
  /\ 0 \in Costs
  /\ {MonthlyCap, OperationCap, MaxConcurrent} \subseteq Nat
  /\ MaxMonth \in Nat \ {0}
  /\ IsFiniteSet(Attempts)
  /\ LegacyAttempts \subseteq Attempts
  /\ Cardinality(LegacyAttempts) <= MaxConcurrent

VARIABLES
  log,    \* usage_events, grouped by attempt
  slot,   \* paid_call_leases: "none", or a lease that is "fresh" or "lapsed"
  month   \* the current month of the budget's timezone

ledgerVars == <<log, slot, month>>

Months == 1..MaxMonth

EventTypes == {"reserve", "settle", "uncertain", "correction"}

\* by: price_snapshot.process_owner; recovered: the snapshot has a recovery_reason.
Event == [type : EventTypes, amount : Nat, op : Operations, by : Owners,
          at : Months, known : BOOLEAN, recovered : BOOLEAN]

LedgerTypeOK ==
  /\ log \in [Attempts -> Seq(Event)]
  /\ slot \in [Attempts -> {"none", "fresh", "lapsed"}]
  /\ month \in Months

-----------------------------------------------------------------------------
\* The attempt ids _event_rows knows.
Recorded == {a \in Attempts : log[a] # <<>>}

HasEvent(s, t) == \E i \in DOMAIN s : s[i].type = t

\* by_type[t]: the latest event of a type, later rows overwriting earlier ones.
EventOf(s, t) ==
  s[CHOOSE i \in DOMAIN s :
      s[i].type = t /\ \A k \in DOMAIN s : s[k].type = t => k <= i]

\* _attempt_states: the event that decides an attempt's status and amount.
FinalEvent(s) ==
  IF HasEvent(s, "correction") THEN EventOf(s, "correction")
  ELSE IF HasEvent(s, "settle") THEN EventOf(s, "settle")
  ELSE IF HasEvent(s, "uncertain") THEN EventOf(s, "uncertain")
  ELSE EventOf(s, "reserve")

\* The status column that goes with each event type.
StatusOf(s) ==
  CASE FinalEvent(s).type = "reserve" -> "reserved"
    [] FinalEvent(s).type = "uncertain" -> "uncertain"
    [] OTHER -> "settled"

AmountOf(s) == FinalEvent(s).amount
ReservedAt(s) == EventOf(s, "reserve").at
OperationOf(s) == EventOf(s, "reserve").op

-----------------------------------------------------------------------------
\* Mutant: recovery goes by the wall-clock lease alone.
AbandonedByLease(a) ==
  /\ a \in Recorded
  /\ StatusOf(log[a]) = "reserved"
  /\ slot[a] # "fresh"

\* recover_usage_attempts: reservations whose owner is known dead, or unknown
\* with a lease that has lapsed, or no lease at all.
Abandoned(a) ==
  /\ a \in Recorded
  /\ StatusOf(log[a]) = "reserved"
  /\ LET o == EventOf(log[a], "reserve").by IN
       \/ OwnerDead(o)
       \/ OwnerUnknown(o) /\ slot[a] # "fresh"

RecoveredLog ==
  [a \in Attempts |->
     IF Abandoned(a)
     THEN Append(log[a], [EventOf(log[a], "reserve") EXCEPT
                            !.type = "uncertain", !.recovered = TRUE])
     ELSE log[a]]

\* Mutant: recovery forgets the paid-call lease.
RecoveredSlotsKept == slot

RecoveredSlots == [a \in Attempts |-> IF Abandoned(a) THEN "none" ELSE slot[a]]

-----------------------------------------------------------------------------
SumAmounts(l, S) == SumFunction([a \in S |-> AmountOf(l[a])])

\* Charges that count against the month's cap: everything of the month, and
\* what earlier months have not settled yet.
CountedInMonth(l, m) ==
  {a \in {x \in Attempts : l[x] # <<>>} :
     \/ ReservedAt(l[a]) = m
     \/ StatusOf(l[a]) \in {"reserved", "uncertain"}}

CountedInOperation(l, op) ==
  {a \in {x \in Attempts : l[x] # <<>>} : OperationOf(l[a]) = op}

TakenSlots(s) == {a \in Attempts : s[a] # "none"}

\* Mutant: settled charges no longer count against the month's cap.
WithinCapsIgnoringSettled(op, cost) ==
  LET open(S) == {a \in S : StatusOf(RecoveredLog[a]) # "settled"} IN
  /\ SumAmounts(RecoveredLog, CountedInOperation(RecoveredLog, op)) + cost <= OperationCap
  /\ SumAmounts(RecoveredLog, open(CountedInMonth(RecoveredLog, month))) + cost
       <= MonthlyCap

WithinCaps(op, cost) ==
  /\ SumAmounts(RecoveredLog, CountedInOperation(RecoveredLog, op)) + cost <= OperationCap
  /\ SumAmounts(RecoveredLog, CountedInMonth(RecoveredLog, month)) + cost <= MonthlyCap

\* Mutant: a lapsed lease frees its slot although the call is still streaming.
FreeSlotIgnoringLapsed ==
  Cardinality({a \in Attempts : RecoveredSlots[a] = "fresh"}) < MaxConcurrent

FreeSlot == Cardinality(TakenSlots(RecoveredSlots)) < MaxConcurrent

ReserveEvent(p, op, cost, known) ==
  [type |-> "reserve", amount |-> cost, op |-> op, by |-> p, at |-> month,
   known |-> known, recovered |-> FALSE]

Reserve(p, a, op, cost, known) ==
  /\ proc[p] = "up"
  /\ known \/ cost = 0
  /\ NotUnderMaintenance
  /\ a \notin Recorded
  /\ known => WithinCaps(op, cost)
  /\ FreeSlot
  /\ log' = [RecoveredLog EXCEPT ![a] = <<ReserveEvent(p, op, cost, known)>>]
  /\ slot' = [RecoveredSlots EXCEPT ![a] = "fresh"]
  /\ UNCHANGED <<proc, holder, phase, month>>

\* Mutant: an outcome is appended whatever the attempt's status.
FinishAgain(a, event) ==
  /\ a \in Recorded
  /\ log' = [log EXCEPT ![a] = Append(@, event)]
  /\ slot' = [slot EXCEPT ![a] = "none"]
  /\ UNCHANGED <<workspaceVars, month>>

\* _finish: append the outcome and give the slot back.  No maintenance check.
Finish(a, event) ==
  /\ a \in Recorded
  /\ StatusOf(log[a]) = "reserved"
  /\ log' = [log EXCEPT ![a] = Append(@, event)]
  /\ slot' = [slot EXCEPT ![a] = "none"]
  /\ UNCHANGED <<workspaceVars, month>>

\* The caller still holds the reservation: its own process made it.
CallOf(p, a) ==
  /\ proc[p] = "up"
  /\ a \in Recorded
  /\ EventOf(log[a], "reserve").by = p

\* The gateway settles a call of unknown price at zero.  Its snapshot names no
\* process.
Settle(p, a, actual) ==
  /\ CallOf(p, a)
  /\ EventOf(log[a], "reserve").known \/ actual = 0
  /\ Finish(a, [EventOf(log[a], "reserve") EXCEPT
                  !.type = "settle", !.amount = actual, !.by = NoProc])

MarkUncertain(p, a) ==
  /\ CallOf(p, a)
  /\ Finish(a, [EventOf(log[a], "reserve") EXCEPT !.type = "uncertain", !.by = NoProc])

\* Any reader that runs recovery first: recover_interrupted, summary,
\* unresolved_attempts.
RecoverUsage(p) ==
  /\ proc[p] = "up"
  /\ log' = RecoveredLog
  /\ slot' = RecoveredSlots
  /\ UNCHANGED <<workspaceVars, month>>

CorrectUncertain(p, a, actual) ==
  /\ proc[p] = "up"
  /\ a \in Recorded
  /\ StatusOf(RecoveredLog[a]) = "uncertain"
  /\ log' = [RecoveredLog EXCEPT
               ![a] = Append(@, [EventOf(@, "uncertain") EXCEPT
                                   !.type = "correction", !.amount = actual,
                                   !.known = TRUE])]
  /\ slot' = RecoveredSlots
  /\ UNCHANGED <<workspaceVars, month>>

\* The wall clock passes paid_call_leases.expires_at.
SlotLapses(a) ==
  /\ slot[a] = "fresh"
  /\ slot' = [slot EXCEPT ![a] = "lapsed"]
  /\ UNCHANGED <<workspaceVars, log, month>>

MonthPasses ==
  /\ month < MaxMonth
  /\ month' = month + 1
  /\ UNCHANGED <<workspaceVars, log, slot>>

LedgerInit ==
  /\ \E op \in [LegacyAttempts -> Operations] :
       log = [a \in Attempts |->
                IF a \in LegacyAttempts
                THEN <<[type |-> "reserve", amount |-> 0, op |-> op[a],
                        by |-> LegacyOwner, at |-> 1, known |-> TRUE,
                        recovered |-> FALSE]>>
                ELSE <<>>]
  /\ slot = [a \in Attempts |-> IF a \in LegacyAttempts THEN "fresh" ELSE "none"]
  /\ month = 1

LedgerNext ==
  \/ \E p \in Procs, a \in Attempts :
       \/ \E op \in Operations, cost \in Costs, known \in BOOLEAN :
            Reserve(p, a, op, cost, known)
       \/ \E actual \in Costs : Settle(p, a, actual) \/ CorrectUncertain(p, a, actual)
       \/ MarkUncertain(p, a)
  \/ \E p \in Procs : RecoverUsage(p)
  \/ \E a \in Attempts : SlotLapses(a)
  \/ MonthPasses

-----------------------------------------------------------------------------
(***************************************************************************)
(* An attempt's history is one of four: reserved; then settled or          *)
(* uncertain, never both and never twice; and only an uncertain attempt is *)
(* corrected, once.  Late settlements racing recovery, retried             *)
(* corrections and reused attempt ids would show up here                   *)
(* (ledger.py:120-123, 287-292, 358-361).                                  *)
(***************************************************************************)
Histories ==
  {<<>>, <<"reserve">>, <<"reserve", "settle">>, <<"reserve", "uncertain">>,
   <<"reserve", "uncertain", "correction">>}

ResolvedOnce ==
  \A a \in Attempts : [i \in DOMAIN log[a] |-> log[a][i].type] \in Histories

(***************************************************************************)
(* The two tables agree: a paid-call lease exists exactly for the attempts *)
(* whose outcome is open, so no finished, recovered or crashed call leaks  *)
(* a slot and no open call runs outside the limit (ledger.py:148-175,      *)
(* 383-387, 423-425).                                                      *)
(***************************************************************************)
SlotIffOutstanding ==
  \A a \in Attempts :
    slot[a] # "none" <=> log[a] # <<>> /\ StatusOf(log[a]) = "reserved"

(***************************************************************************)
(* The workspace never has more paid calls in flight than the configured   *)
(* limit, lapsed leases of live streaming calls included                   *)
(* (ledger.py:142-151).                                                    *)
(***************************************************************************)
ConcurrencyBound == Cardinality(TakenSlots(slot)) <= MaxConcurrent

(***************************************************************************)
(* The budgets hold for everything admitted: what counts against the month *)
(* and what counts against an operation stay within the caps, except for   *)
(* what a settlement or a correction reported beyond its own reservation.  *)
(* Unknown-cost calls reserve nothing and are outside the caps             *)
(* (ledger.py:124-141).                                                    *)
(***************************************************************************)
Overrun(a) ==
  LET reserved == EventOf(log[a], "reserve").amount
  IN  IF AmountOf(log[a]) > reserved THEN AmountOf(log[a]) - reserved ELSE 0

SumOverrun(S) == SumFunction([a \in S |-> Overrun(a)])

BudgetsHold ==
  /\ SumAmounts(log, CountedInMonth(log, month))
       <= MonthlyCap + SumOverrun(CountedInMonth(log, month))
  /\ \A op \in Operations :
       SumAmounts(log, CountedInOperation(log, op))
         <= OperationCap + SumOverrun(CountedInOperation(log, op))

(***************************************************************************)
(* Recovery never touches a live call: an attempt is written off as        *)
(* uncertain only when its process has stopped or cannot be known, however *)
(* long the call outlasts its wall-clock lease (ledger.py:405-407).        *)
(***************************************************************************)
LiveCallsAreKept ==
  \A a \in Attempts : \A i \in DOMAIN log[a] :
    log[a][i].recovered => ~OwnerAlive(log[a][i].by)
=============================================================================
