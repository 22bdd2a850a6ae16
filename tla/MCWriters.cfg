\* Two writers of one corpus: a pack removal and an install.
CONSTANTS
  j1 = j1  j2 = j2  j3 = j3
  Procs = {p1, p2}
  NoProc = NoProc
  LegacyOwner = LegacyOwner
  Jobs = {j1, j2}
  NoJob = NoJob
  KindOf <- KindsForWriters
  Targets = {"corpus:core"}
  TargetOf <- AllTheCorpus
  Resumable = {j1, j2}
  LegacyJobs = {}
  Workers = {w1, w2}
  NoWorker = NoWorker
  Attempts = {}
  Operations = {"none"}
  Costs = {0}
  MonthlyCap = 0
  OperationCap = 0
  MaxConcurrent = 1
  LegacyAttempts = {}
  MaxMonth = 1
SPECIFICATION CorpusSafety
SYMMETRY RunnerSymmetry
CHECK_DEADLOCK FALSE
INVARIANT OneWriterPerTarget
