------------------------------- MODULE MCCorpus -------------------------------
(* Small instances of the corpus runners for TLC; every job has one target. *)
EXTENDS CorpusJobs

CONSTANTS j1, j2, j3

AllTheCorpus == [j \in Jobs |-> "corpus:core"]

KindsForSafety == (j1 :> "import") @@ (j2 :> "install")
KindsForLiveness == (j1 :> "index") @@ (j2 :> "check") @@ (j3 :> "mutation")
KindsForWriters == (j1 :> "lifecycle") @@ (j2 :> "install")

RunnerSymmetry == Permutations(Procs) \cup Permutations(Workers)
=============================================================================
