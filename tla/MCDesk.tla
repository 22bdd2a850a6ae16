------------------------------- MODULE MCDesk -------------------------------
(***************************************************************************)
(* Instances for TLC: what the requests of researchers touch.  The parts   *)
(* share no state, so a behaviour is of one of them, chosen at the start,  *)
(* while the others rest.                                                  *)
(***************************************************************************)
EXTENDS PropertyPages, LocalSession, InteractiveAnswers, ResearchMatters,
        PropertyDossiers, SourceComparison, HostedLimits, TLC

CONSTANTS q1, q2, q3     \* requests for a hosted answer

VARIABLE part
deskVars == <<part, pageVars, sessionVars, interactiveVars, matterVars, dossierVars,
              comparisonVars, limitVars>>

RequestUser == [r \in AnswerRequests |-> IF r = q3 THEN "exempt" ELSE "user"]

(* Two requests of the same user. *)
Symmetry == Permutations({q1, q2})

(* A source without sections, and a dataset without rows. *)
NothingToCompare ==
  /\ pair = [old |-> [k \in SectionKeys |-> Absent], new |-> [k \in SectionKeys |-> Absent],
             parserChanged |-> FALSE, sameBytes |-> TRUE]
  /\ maker = [r \in Requesters |-> "idle"] /\ stored = {}
NothingToExport ==
  /\ \A v \in Violations : dataset[v] = Gone
  /\ pquery = [b |-> "A", dated |-> FALSE]

(* Rows of a building that is not asked for are like rows that are not      *)
(* there, and the two buildings of an address are alike.                    *)
DistinctStart ==
  /\ pquery.b = "A" => \A v \in Violations : dataset[v].b # "B"
  /\ dataset[1].b # "B"

MCInit ==
  /\ part \in {"pages", "session", "interactive", "matters", "dossiers", "comparison", "limits"}
  /\ Init_Pages /\ (IF part = "pages" THEN DistinctStart ELSE NothingToExport)
  /\ Init_Session /\ Init_Interactive /\ Init_Matters /\ Init_Dossiers /\ Init_Limits
  /\ IF part = "comparison" THEN Init_Comparison ELSE NothingToCompare

Pages ==
  /\ part = "pages" /\ Next_Pages
  /\ UNCHANGED <<part, sessionVars, interactiveVars, matterVars, dossierVars,
                 comparisonVars, limitVars>>
Connects ==
  /\ part = "session" /\ Next_Session
  /\ UNCHANGED <<part, pageVars, interactiveVars, matterVars, dossierVars,
                 comparisonVars, limitVars>>
AnswersQuestions ==
  /\ part = "interactive" /\ Next_Interactive
  /\ UNCHANGED <<part, pageVars, sessionVars, matterVars, dossierVars,
                 comparisonVars, limitVars>>
Saves ==
  /\ part = "matters" /\ Next_Matters
  /\ UNCHANGED <<part, pageVars, sessionVars, interactiveVars, dossierVars,
                 comparisonVars, limitVars>>
Observes ==
  /\ part = "dossiers" /\ Next_Dossiers
  /\ UNCHANGED <<part, pageVars, sessionVars, interactiveVars, matterVars,
                 comparisonVars, limitVars>>
Compares ==
  /\ part = "comparison" /\ Next_Comparison
  /\ UNCHANGED <<part, pageVars, sessionVars, interactiveVars, matterVars, dossierVars,
                 limitVars>>
AnswersHosted ==
  /\ part = "limits" /\ Next_Limits
  /\ UNCHANGED <<part, pageVars, sessionVars, interactiveVars, matterVars, dossierVars,
                 comparisonVars>>

MCNext ==
  \/ Pages \/ Connects \/ AnswersQuestions \/ Saves \/ Observes \/ Compares \/ AnswersHosted
MCSpec == MCInit /\ [][MCNext]_deskVars
=============================================================================
