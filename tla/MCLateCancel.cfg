\* A cancellation that arrives after an import has published.
CONSTANTS
  j1 = j1  j2 = j2  j3 = j3
  Procs = {p1}
  NoProc = NoProc
  LegacyOwner = LegacyOwner
  Jobs = {j1, j2}
  NoJob = NoJob
  KindOf <- KindsForSafety
  Targets = {"corpus:core"}
  TargetOf <- AllTheCorpus
  Resumable = {j1, j2}
  LegacyJobs = {}
  Workers = {w1, w2}
  NoWorker = NoWorker
  Attempts = {}
  Operations = {"none"}
  Costs = {0}
  MonthlyCap = 0
  OperationCap = 0
  MaxConcurrent = 1
  LegacyAttempts = {}
  MaxMonth = 1
SPECIFICATION CorpusSafety
SYMMETRY RunnerSymmetry
CHECK_DEADLOCK FALSE
INVARIANT CommittedIsNotCancelled
