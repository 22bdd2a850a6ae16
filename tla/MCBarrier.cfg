\* Job table, one paid call and the barrier.
CONSTANTS
  j1 = j1  j2 = j2
  Procs = {p1, p2, p3}
  NoProc = NoProc
  LegacyOwner = LegacyOwner
  Jobs = {j1, j2, j3}
  Targets = {"t1", "t2"}
  TargetOf <- JobTargets
  Resumable = {j1, j2}
  LegacyJobs = {j3}
  Workers = {w1, w2}
  NoWorker = NoWorker
  Attempts = {a1}
  Operations = {o1}
  Costs = {0}
  MonthlyCap = 0
  OperationCap = 0
  MaxConcurrent = 1
  LegacyAttempts = {a1}
  MaxMonth = 1
SPECIFICATION Spec
SYMMETRY JobSymmetry
CHECK_DEADLOCK FALSE
INVARIANTS
  OneActivePerTarget
  LeaseFencing
  MaintenanceIsExclusive
  BarrierStands
PROPERTIES
  FrozenUnderMaintenance
