\* The spend ledger alone: three attempts, two of them new, two months.
CONSTANTS
  a1 = a1  a2 = a2  o1 = o1  o2 = o2
  Procs = {p1, p2}
  NoProc = NoProc
  LegacyOwner = LegacyOwner
  Jobs = {}
  Targets = {"none"}
  TargetOf <- NoJobs
  Resumable = {}
  LegacyJobs = {}
  Workers = {}
  NoWorker = NoWorker
  Attempts = {a1, a2, a3}
  Operations = {o1, o2}
  Costs = {0, 2}
  MonthlyCap = 3
  OperationCap = 2
  MaxConcurrent = 2
  LegacyAttempts = {a3}
  MaxMonth = 2
SPECIFICATION LedgerSpec
SYMMETRY Symmetry
CHECK_DEADLOCK FALSE
INVARIANTS
  ResolvedOnce
  SlotIffOutstanding
  BudgetsHold
  LiveCallsAreKept
