\* One part at a time: an upgrade with three faults; two cached pages, one
\* too many, beside one maintenance operation; one upload with two runs; two
\* usage attempts in three months of a clock that is also put back; two
\* attempts to restore; two rows that change three times in four days; two
\* texts that alternate; three runs of the desktop application with two
\* recovery copies; two commands beside two launches, with two custom
\* endpoints; a source in three editions, reissued twice.
CONSTANTS
  MaxFaults = 3
  Keys = {"k1", "k2"}
  Users = {"u1"}
  Exporter = "x"
  ExportPages <- TwoPages
  MaxEntries = 1
  MaxFiles = 2
  MaxCare = 1
  Uploads = {"up"}
  Runs = {"w1", "w2"}
  NoRun = "no run"
  UsageAttempts = {"at1", "at2"}
  Periods = {1, 2}
  LastMonth = 3
  ArtifactMembers = {"f1", "f2"}
  MaxRestores = 2
  HpdRows = {1, 2}
  OverlapDays = 1
  LastLoadDay = 4
  MaxStatusChanges = 3
  SourceTexts = {"v1", "v2"}
  MaxRepublications = 2
  MaxLinks = 2
  MaxRuns = 3
  Endpoints = {"e1", "e2"}
  OwnSlot = {"e2"}
  MaxCommands = 2
  MaxServes = 2
  Editions = {"e1", "e2", "e3"}
  MeaningOf <- SectionsOf
  MaxAttempts = 3
  MaxIssues = 2
SPECIFICATION MCSpec
CHECK_DEADLOCK FALSE
INVARIANTS
  PowerLossIsAtomic
  ReadyWhenRetired
  RowHasFile
  ResumableHasUpload
  HistoryAboveFloorIsWhole
  NoPartialRestore
  NextDeltaMissesNothing
  CurrentTextIsTraceable
  MigrationOwnsWorkspace
  OnlyCheckedEndpoints
  FetchedAsPublished
PROPERTIES
  RefinesAtomicUpgrade
