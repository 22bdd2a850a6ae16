---------------------------- MODULE HostedLimits ----------------------------
(***************************************************************************)
(* Admission of paid answers in the hosted service (limits/service.py,     *)
(* limits/dependencies.py, api/answers.py, api/query.py,                   *)
(* answer/service.py).                                                     *)
(*                                                                         *)
(* A request is admitted under one lock: the user's hourly window, his     *)
(* tokens of the day, and everybody's cost of the month, each from the     *)
(* answer logs and the outstanding reservations.  Its reservation is       *)
(* committed before the provider is called, its log is committed after,    *)
(* and then the reservation is settled; a crash may come in between.       *)
(*                                                                         *)
(* Tokens and microdollars are one unit, and a reservation is Estimate of  *)
(* them: the limits of the retrieved text and of the output.  The rest of  *)
(* the prompt is not in it, so an answer may cost more; and a provider     *)
(* need not say what an answer cost.  The days up to FirstMonth are in one *)
(* month, the others in the next.                                          *)
(***************************************************************************)
EXTENDS Naturals, FiniteSets, Functions

CONSTANTS AnswerRequests, HostedUsers, ExemptUsers, UserOf,
          Estimate, DailyBudget, MonthlyBudget, HourlyLimit,
          ProviderCosts,   \* what an attempt may be charged
          FirstMonth, LastDay

ASSUME LimitsAssumption ==
  /\ UserOf \in [AnswerRequests -> HostedUsers] /\ ExemptUsers \subseteq HostedUsers
  /\ Estimate \in Nat \ {0} /\ DailyBudget \in Nat /\ MonthlyBudget \in Nat
  /\ IsFiniteSet(AnswerRequests) /\ FirstMonth \in Nat /\ ProviderCosts \subseteq Nat

VARIABLES day,     \* the date
          recent,  \* recent[u]: answer_request events of the last hour, if they count
          usage,   \* usage[r]: the reservation of a request
          log,     \* log[r]: its answer log
          serving, \* where the handling of a request is
          spend    \* spend[r]: what the provider really charged, whether it left that
                   \* out of its answer, and when the request was admitted
limitVars == <<day, recent, usage, log, serving, spend>>

LimitedUsers == HostedUsers \ ExemptUsers
Month(d) == IF d <= FirstMonth THEN 1 ELSE 2
NoUsage == [state |-> "none", day |-> 0]
NoLog == [day |-> 0, cost |-> 0]
NoSpend == [day |-> 0, cost |-> 0, unreported |-> FALSE, forgiven |-> FALSE]

Init_Limits ==
  /\ day = 1
  /\ recent = [u \in LimitedUsers |-> 0]
  /\ usage = [r \in AnswerRequests |-> NoUsage]
  /\ log = [r \in AnswerRequests |-> NoLog]
  /\ serving = [r \in AnswerRequests |-> "new"]
  /\ spend = [r \in AnswerRequests |-> NoSpend]
-----------------------------------------------------------------------------
(* _outstanding_answer_reservations *)
Outstanding == {r \in AnswerRequests : usage[r].state \in {"reserved", "uncertain"}}

(* What check_daily_token_budget and check_monthly_llm_cost_budget count. *)
UsedToday(u) ==
  SumFunction([r \in {q \in AnswerRequests : UserOf[q] = u /\ log[q].day = day} |->
                 log[r].cost])
  + Estimate * Cardinality({r \in Outstanding : UserOf[r] = u /\ usage[r].day = day})
UsedThisMonth ==
  SumFunction([r \in {q \in AnswerRequests :
                        log[q].day > 0 /\ Month(log[q].day) = Month(day)} |-> log[r].cost])
  + Estimate * Cardinality({r \in Outstanding : Month(usage[r].day) = Month(day)})

Admissible(u) ==
  /\ u \in LimitedUsers => /\ recent[u] < HourlyLimit
                           /\ UsedToday(u) + Estimate <= DailyBudget
  /\ UsedThisMonth + Estimate <= MonthlyBudget

(* enforce_answer_limit: the checks and the reservation, under the lock; or *)
(* a 429, which is recorded too.                                            *)
Admit(r) ==
  /\ serving[r] = "new"
  /\ IF Admissible(UserOf[r])
     THEN /\ usage' = [usage EXCEPT ![r] = [state |-> "reserved", day |-> day]]
          /\ recent' = [u \in LimitedUsers |-> recent[u] + IF u = UserOf[r] THEN 1 ELSE 0]
          /\ spend' = [spend EXCEPT ![r].day = day]
          /\ serving' = [serving EXCEPT ![r] = "admitted"]
     ELSE /\ serving' = [serving EXCEPT ![r] = "rejected"]
          /\ UNCHANGED <<usage, recent, spend>>
  /\ UNCHANGED <<day, log>>

(* generate_answer: nothing is retrieved, or the provider is called, and   *)
(* its answer may be without a usage.  The cost is the last attempt's; one *)
(* that was given up and repeated may have been charged as well, nothing   *)
(* records that, and it is not counted here.                               *)
CallHostedProvider(r, cost) ==
  /\ serving[r] = "admitted"
  /\ \/ /\ serving' = [serving EXCEPT ![r] = "answered"]
        /\ \E said \in {0, cost} :
             spend' = [spend EXCEPT ![r].cost = cost, ![r].unreported = said # cost]
     \/ /\ serving' = [serving EXCEPT ![r] = "failed"]
        /\ spend' = [spend EXCEPT ![r].cost = cost]
  /\ UNCHANGED <<day, recent, usage, log>>

\* Mutant: the reservation is settled before the log is written.
SettleThenLog(r) ==
  /\ serving[r] \in {"answered", "failed"} /\ usage[r].state = "reserved"
  /\ usage' = [usage EXCEPT ![r].state = IF serving[r] = "answered" THEN "settled"
                                         ELSE "uncertain"]
  /\ UNCHANGED <<day, recent, log, serving, spend>>

(* log_answer: with the tokens of the answer, or with none if it failed or *)
(* did not say; no tokens count as 0.                                      *)
LogAnswer(r) ==
  /\ serving[r] \in {"answered", "failed"} /\ log[r] = NoLog
  /\ log' = [log EXCEPT ![r] =
       [day |-> day, cost |-> IF serving[r] = "answered" /\ ~spend[r].unreported
                              THEN spend[r].cost ELSE 0]]
  /\ serving' = [serving EXCEPT ![r] = IF @ = "answered" THEN "logged" ELSE "logged failure"]
  /\ UNCHANGED <<day, recent, usage, spend>>

(* finally, finish_answer_usage: a reservation that was reset is gone.  An  *)
(* answer that took too long has been completed, too.                       *)
FinishUsage(r) ==
  /\ serving[r] \in {"logged", "logged failure"}
  /\ usage' = [usage EXCEPT ![r].state =
                 IF @ = "none" THEN @ ELSE IF serving[r] = "logged" THEN "settled"
                                           ELSE "uncertain"]
  /\ serving' = [serving EXCEPT ![r] = "done"]
  /\ UNCHANGED <<day, recent, log, spend>>

(* Something else fails: the reservation becomes uncertain without a log;   *)
(* or the process dies, and it stays reserved.                              *)
AbandonRequest(r) ==
  /\ serving[r] \in {"admitted", "answered", "failed", "logged", "logged failure"}
  /\ \/ usage' = [usage EXCEPT ![r].state = IF @ = "none" THEN @ ELSE "uncertain"]
     \/ UNCHANGED usage
  /\ serving' = [serving EXCEPT ![r] = "done"]
  /\ UNCHANGED <<day, recent, log, spend>>
-----------------------------------------------------------------------------
DayPasses ==
  /\ day < LastDay
  /\ day' = day + 1
  /\ recent' = [u \in LimitedUsers |-> 0]
  /\ UNCHANGED <<usage, log, serving, spend>>

(* The oldest request of a user leaves the window. *)
WindowSlides(u) ==
  /\ recent[u] > 0
  /\ recent' = [recent EXCEPT ![u] = @ - 1]
  /\ UNCHANGED <<day, usage, log, serving, spend>>

(* prune-events: an old event goes unless it is outstanding. *)
PruneEvent(r) ==
  /\ usage[r].state = "settled" /\ usage[r].day < day
  /\ usage' = [usage EXCEPT ![r] = NoUsage]
  /\ UNCHANGED <<day, recent, log, serving, spend>>

(* reset-user: the user's events of any age, and his logs of today; what    *)
(* they stood for is not held against anyone any more.                      *)
ResetUser(u) ==
  LET his == {r \in AnswerRequests : UserOf[r] = u} IN
  /\ \E r \in his : usage[r] # NoUsage
  /\ usage' = [r \in AnswerRequests |-> IF r \in his THEN NoUsage ELSE usage[r]]
  /\ log' = [r \in AnswerRequests |-> IF r \in his /\ log[r].day = day THEN NoLog ELSE log[r]]
  /\ recent' = [v \in LimitedUsers |-> IF v = u THEN 0 ELSE recent[v]]
  /\ spend' = [r \in AnswerRequests |->
       IF r \in his /\ spend[r].day > 0 THEN [spend[r] EXCEPT !.forgiven = TRUE] ELSE spend[r]]
  /\ UNCHANGED <<day, serving>>

Next_Limits ==
  \/ \E r \in AnswerRequests :
       \/ Admit(r) \/ LogAnswer(r) \/ FinishUsage(r) \/ AbandonRequest(r) \/ PruneEvent(r)
       \/ \E cost \in ProviderCosts : CallHostedProvider(r, cost)
  \/ \E u \in LimitedUsers : WindowSlides(u)
  \/ \E u \in HostedUsers : ResetUser(u)
  \/ DayPasses

Spec_Limits == Init_Limits /\ [][Next_Limits]_limitVars
-----------------------------------------------------------------------------
(* What the admission has promised to keep count of: a charge up to the    *)
(* estimate, unless the provider left it out of its answer.                *)
Counted(w) == IF w.unreported THEN 0 ELSE IF w.cost <= Estimate THEN w.cost ELSE Estimate
Charged(rs) == SumFunction([r \in rs |-> Counted(spend[r])])

(* What the provider charges for the requests admitted this month, each up *)
(* to the estimate it was admitted with, stays in the month's budget, and  *)
(* what it charges for those of a user admitted today in the user's:       *)
(* requests in flight, requests whose outcome is not known and requests    *)
(* that died at any point are covered, and only a reset forgives.  Two     *)
(* things the code lets through are not claimed: what an answer costs      *)
(* above the estimate (service.py:213-218, 337-339), and an answer without *)
(* a usage, which is settled at no cost (logging.py:37-45)                 *)
(* (service.py:171-252, dependencies.py:96-154).                           *)
SpendWithinBudgets ==
  LET held == {r \in AnswerRequests : spend[r].day > 0 /\ ~spend[r].forgiven} IN
  /\ Charged({r \in held : Month(spend[r].day) = Month(day)}) <= MonthlyBudget
  /\ \A u \in LimitedUsers :
       Charged({r \in held : UserOf[r] = u /\ spend[r].day = day}) <= DailyBudget
=============================================================================
