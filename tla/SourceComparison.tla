-------------------------- MODULE SourceComparison --------------------------
(***************************************************************************)
(* Comparison of two retained versions of a source                         *)
(* (research/comparisons.py): sections are aligned by their key and        *)
(* classified, and a removed and an added section with the same text are   *)
(* marked as a possible renumbering.  The comparison is computed outside   *)
(* the transaction that stores it, and stored once.                        *)
(*                                                                         *)
(* A text is what it normalizes to and whether its layout is the usual     *)
(* one; the citation, title and locator are one value.                     *)
(***************************************************************************)
EXTENDS Naturals, FiniteSets

CONSTANTS SectionKeys,   \* canonical keys
          Texts,         \* normalized texts
          EmptyText,     \* one of them: nothing but white space
          Requesters     \* requests for the comparison

ASSUME TextsAssumption == EmptyText \in Texts

VARIABLES pair,      \* the versions compared, and what is known of them
          maker,     \* a request for the comparison
          stored     \* source_comparisons: the rows stored
comparisonVars == <<pair, maker, stored>>

Absent == [text |-> EmptyText, usual |-> FALSE, meta |-> "absent"]
Sections == {Absent} \cup {[text |-> t, usual |-> TRUE, meta |-> "m"] : t \in Texts}
              \cup {[text |-> t, usual |-> u, meta |-> m] :
                      t \in Texts \ {EmptyText}, u \in BOOLEAN, m \in {"m"}}
              \cup {[text |-> t, usual |-> TRUE, meta |-> "n"] : t \in Texts \ {EmptyText}}
Version == [SectionKeys -> Sections]

(* Two parses with the same parser of the same bytes are the same. *)
Init_Comparison ==
  /\ pair \in [old : Version, new : Version, parserChanged : BOOLEAN, sameBytes : BOOLEAN]
  /\ pair.sameBytes /\ ~pair.parserChanged => pair.old = pair.new
  /\ maker = [r \in Requesters |-> "idle"]
  /\ stored = {}
-----------------------------------------------------------------------------
Keys(p) == {k \in SectionKeys : p.old[k] # Absent \/ p.new[k] # Absent}

(* _classify *)
Classify(p, k) ==
  LET before == p.old[k]
      after == p.new[k]
      metaChanged == before.meta # after.meta
  IN IF before = Absent THEN "added"
     ELSE IF after = Absent THEN "removed"
     ELSE IF before.text # after.text THEN "text_changed"
     ELSE IF /\ p.sameBytes /\ p.parserChanged
             /\ before.usual # after.usual \/ metaChanged THEN "parser_only"
     ELSE IF metaChanged THEN "metadata_only"
     ELSE "unchanged"

Removed(p, t) == {k \in Keys(p) : Classify(p, k) = "removed" /\ p.old[k].text = t}
Added(p, t) == {k \in Keys(p) : Classify(p, k) = "added" /\ p.new[k].text = t}

\* Mutant: one removed section is enough, however many were added.
PossiblyRenumberedOnce(p, t) ==
  t # EmptyText /\ Cardinality(Removed(p, t)) = 1 /\ Added(p, t) # {}

(* _mark_uncertain_renumberings: a unique pair with the same text. *)
PossiblyRenumbered(p, t) ==
  /\ t # EmptyText
  /\ Cardinality(Removed(p, t)) = 1 /\ Cardinality(Added(p, t)) = 1

Changes(p) ==
  [k \in Keys(p) |->
     IF \E t \in Texts : PossiblyRenumbered(p, t) /\ k \in Removed(p, t) \cup Added(p, t)
     THEN "uncertain" ELSE Classify(p, k)]
-----------------------------------------------------------------------------
(* create: a stored comparison is returned; otherwise it is computed ... *)
BeginComparison(r) ==
  /\ maker[r] = "idle"
  /\ maker' = [maker EXCEPT ![r] = IF stored = {} THEN "computed" ELSE "done"]
  /\ UNCHANGED <<pair, stored>>

(* ... and inserted under the hash of its inputs; an identical request may  *)
(* have been first, whose rows are returned then.                           *)
StoreComparison(r) ==
  /\ maker[r] = "computed"
  /\ stored' = IF stored = {} THEN {Changes(pair)} ELSE stored
  /\ maker' = [maker EXCEPT ![r] = "done"]
  /\ UNCHANGED pair

Next_Comparison == \E r \in Requesters : BeginComparison(r) \/ StoreComparison(r)
Spec_Comparison == Init_Comparison /\ [][Next_Comparison]_comparisonVars
-----------------------------------------------------------------------------
Reversed(p) == [p EXCEPT !.old = p.new, !.new = p.old]
Mirrored(change) == CASE change = "added" -> "removed"
                      [] change = "removed" -> "added"
                      [] OTHER -> change

(* A comparison read from the target to the baseline says the same with     *)
(* added and removed exchanged: the alignment favours neither version, the  *)
(* renumberings it suspects included (comparisons.py:422-465).              *)
ComparisonIsSymmetric ==
  \A changes \in stored :
    \A k \in DOMAIN changes : Changes(Reversed(pair))[k] = Mirrored(changes[k])
=============================================================================
