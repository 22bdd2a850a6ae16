--------------------------- MODULE ConsentedAnswers ---------------------------
(***************************************************************************)
(* LocalAnswerService.answer (app/answer/local.py) over LocalSearch        *)
(* (app/retrieval/local.py): a reader of the corpus that holds no lock and *)
(* whose reads are separate transactions.  It fixes a generation, collects *)
(* evidence, checks the model-use policy once more and sends the evidence  *)
(* to the provider, while jobs change the corpus and the policy.           *)
(*                                                                         *)
(* Ranking and limits are left out: retrieval may return any of the text   *)
(* that its filters let through.  The provider call is UsageLedger's.      *)
(***************************************************************************)
EXTENDS CorpusGenerations

CONSTANT Answers

VARIABLE answer  \* answer[a]: an answer in progress

answerVars == <<storeVars, answer>>

NoAnswer == [at |-> "idle", gen |-> 0, evidence |-> {}, late |-> {}]

\* _active_generation_id: one generation for the whole answer.
BeginAnswer(a) ==
  /\ answer[a].at = "idle"
  /\ active # 0
  /\ answer' = [answer EXCEPT ![a] = [NoAnswer EXCEPT !.at = "retrieving",
                                                      !.gen = active]]
  /\ UNCHANGED storeVars

\* Mutant: every search asks for the active generation.
FoundInActive(a) == {v \in ActiveSources : policy[SourceOf[v]]}

\* What exact, keyword and vector search may return now: each joins the
\* generation's chunks with the present policy, cached vectors included.
Found(a) == {v \in gens[answer[a].gen].sources : policy[SourceOf[v]]}

Retrieve(a, v) ==
  /\ answer[a].at = "retrieving"
  /\ v \in Found(a)
  /\ answer' = [answer EXCEPT ![a].evidence = @ \cup {v}]
  /\ UNCHANGED storeVars

\* Mutant: the policy seen by the search is taken to hold still.
PermittedEarlier(vs) == vs

\* The check between on_evidence and the prompt.
Permitted(vs) == {v \in vs : policy[SourceOf[v]]}

Recheck(a) ==
  /\ answer[a].at = "retrieving"
  /\ LET evidence == Permitted(answer[a].evidence)
     IN answer' = [answer EXCEPT ![a] =
          IF evidence = {} THEN NoAnswer
          ELSE [@ EXCEPT !.at = "checked", !.evidence = evidence]]
  /\ UNCHANGED storeVars

\* gateway.answer; the evidence is in the prompt.
Dispatch(a) ==
  /\ answer[a].at = "checked"
  /\ answer' = [answer EXCEPT ![a].at = "sent"]
  /\ UNCHANGED storeVars

\* An answer, an error, a cancellation, or no coverage of the period asked for.
EndAnswer(a) ==
  /\ answer[a].at # "idle"
  /\ answer' = [answer EXCEPT ![a] = NoAnswer]
  /\ UNCHANGED storeVars

\* History: late holds the sources turned off after the last check.
CorpusStep ==
  /\ StoreNext
  /\ answer' = [a \in Answers |->
       IF answer[a].at = "checked"
         THEN [answer[a] EXCEPT !.late =
                 @ \cup {s \in Sources : policy[s] /\ ~policy'[s]}]
         ELSE answer[a]]

AnswerInit == StoreInit /\ answer = [a \in Answers |-> NoAnswer]

AnswerNext ==
  \/ CorpusStep
  \/ \E a \in Answers :
       \/ BeginAnswer(a) \/ Recheck(a) \/ Dispatch(a) \/ EndAnswer(a)
       \/ \E v \in Versions : Retrieve(a, v)

AnswerSpec == AnswerInit /\ [][AnswerNext]_answerVars

(***************************************************************************)
(* Properties.                                                             *)
(***************************************************************************)
\* The evidence of an answer comes from the one generation it began with,
\* whatever is activated meanwhile.
OneGeneration ==
  \A a \in Answers :
    answer[a].at # "idle" =>
      answer[a].evidence \subseteq gens[answer[a].gen].sources

\* No text goes to a provider against the user's policy.  For an answer: what
\* is about to be sent was permitted when the policy was last checked, so it
\* can only be off if it was turned off in the moment since.  For an index
\* run: everything it still has to send is permitted now.
TextLeavesWithConsent ==
  /\ \A a \in Answers : answer[a].at = "checked" =>
       \A v \in answer[a].evidence :
         policy[SourceOf[v]] \/ SourceOf[v] \in answer[a].late
  /\ writer.op = "index" => \A v \in writer.missing : policy[SourceOf[v]]

\* A user who turned the model use of a resource off has it off until he
\* chooses otherwise.
RevocationStands == \A s \in revoked : ~policy[s]
=============================================================================
