------------------------------ MODULE MCAnswers ------------------------------
(* Instances for TLC: a core source in two editions with one meaning, a     *)
(* pack, and a resource whose two versions differ in the model-use setting. *)
EXTENDS ConsentedAnswers

Src == [v \in Versions |-> CASE v \in {"c1", "c2"} -> "core"
                             [] v = "k1"           -> "pack"
                             [] OTHER              -> "notes"]
Bytes == [v \in Versions |-> IF v = "xOff" THEN "xOn" ELSE v]
Meaning == [v \in Versions |-> IF v = "c2" THEN "c1" ELSE v]
Use == [v \in Versions |-> v # "xOff"]
\* One bundle of a finished generation, and one of the copy an index run left.
TwoBundles ==
  {[sources |-> {"c2"}, profile |-> "p", ready |-> {"c2"}, readiness |-> "hybrid_ready"],
   [sources |-> {"c2"}, profile |-> "p", ready |-> {}, readiness |-> "embedding_staging"]}
=============================================================================
