\* One part at a time: an export of three violations in pages of one, one
\* change and one search beside it; two tabs over two launches; a question
\* with one crash; two matters and two clients that save and edit; two
\* dossier requests for an address that is resolved three times; versions of
\* three sections; three answers of a user and an exempt one in two days of one
\* month, each charged twice its estimate.
CONSTANTS
  Violations = {1, 2, 3}
  Dates = {1, 2}
  Buildings = {"A", "B"}
  QueriedBuildings = {"A", "by address"}
  PageLimit = 1
  MaxPages = 3
  MaxChanges = 1
  MaxLooks = 1
  Tabs = {"t1", "t2"}
  MaxLaunches = 2
  MaxTokens = 3
  MaxSessions = 2
  Questions = {"q1"}
  AnswerWorkers = 1
  MaxAppCrashes = 1
  Matters = {"m1", "m2"}
  SavedItems = {1, 2}
  SaveKeys = {"k1"}
  Clients = {"c1", "c2"}
  MaxEdits = 1
  Addresses = {"a"}
  HpdBuildings = {"b1", "b2"}
  DossierRequests = {"r1", "r2"}
  MaxRevision = 3
  SectionKeys = {1, 2, 3}
  Texts = {"a", ""}
  EmptyText = ""
  Requesters = {"r1"}
  q1 = q1
  q2 = q2
  q3 = q3
  AnswerRequests = {q1, q2, q3}
  HostedUsers = {"user", "exempt"}
  ExemptUsers = {"exempt"}
  UserOf <- RequestUser
  Estimate = 1
  ProviderCosts = {2}
  DailyBudget = 1
  MonthlyBudget = 2
  HourlyLimit = 1
  FirstMonth = 2
  LastDay = 2
SPECIFICATION MCSpec
SYMMETRY Symmetry
CHECK_DEADLOCK FALSE
INVARIANTS
  ExportIsExact
  SessionsHold
  PollIsConsistent
  CallEndsResolved
  SavedWorkIsKept
  ObservationIsOfItsBuilding
  ComparisonIsSymmetric
  SpendWithinBudgets
