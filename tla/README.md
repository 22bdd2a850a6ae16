# NYC Housing Research: a verification project in TLA+

This directory specifies and checks the parts of the local application whose
correctness depends on what several processes, threads, crashes and clocks do
together: the durable job table, the spend ledger, the maintenance barrier, the
schema upgrade, the runners that change the legal corpus, the corpus itself, the
answers that read it, the property cache and its exports, backups, launching,
settings, saved research, and the loads and limits of the hosted service.
`PROJECT.json` ties every definition to the source lines it models, every
property to a run and a mutant, and every hazard of the code to the property
that would catch it.

## The system

A *workspace* is a directory with two SQLite databases (`corpus.sqlite3`,
`state.sqlite3`), immutable artifact files and a few lock files. A web process
(desktop shell or `uvicorn`) and any number of CLI processes open it at the same
time. They share no memory: everything goes through SQLite transactions and OS
file locks.

| Component | State it keeps | Operations | Interacts with |
|---|---|---|---|
| Process ownership (`workspace/locks.py`) | one lock file per process token | `process_owner`, `owner_alive` | every recovery |
| Job table (`jobs/service.py`) | table `jobs`: state, owner, lease, retryable | create, claim, heartbeat, checkpoint, cancel, finish, fail, resume, recover | barrier, runners |
| Maintenance barrier (`maintenance/barrier.py`) | flag in `maintenance_state`, OS lock | enter, leave, `maintenance_active` | job table, ledger, backup, retention, migration |
| Spend ledger (`usage/ledger.py`) | append-only `usage_events`, `paid_call_leases` | reserve, settle, mark uncertain, recover, correct | provider gateway, barrier |
| Provider gateway (`providers/gateway.py`) | a call in progress | answer, embeddings | ledger |
| Schema migration (`storage/migrations.py`) | both databases, manifest, recovery journal and snapshots | migrate, recover | barrier, backup, launcher |
| Corpus and resource runners (`jobs/maintenance.py`, `jobs/resources.py`, `jobs/mutations.py`) | executors, futures, worker threads | submit, run, cancel, resume | job table, corpus database |
| Corpus (`corpus/*.py`) | generations, versions, receipts, artifacts | publish, activate, roll back, index, import, bundle | runners |
| Interactive answers (`jobs/interactive.py`) | in-memory questions and results | submit, poll, cancel, expire | job table, gateway |
| Property cache and exports (`hpd/*.py`, `jobs/property_exports.py`) | cached pages (row and file), pins, export job | search, pin, evict, clear, export | job table, publisher |
| Backup and restore (`maintenance/backup.py`) | archives, staged restores | create, restore | barrier, cache |
| Retention (`maintenance/retention.py`) | usage floor, deletion plans | plan, prune | barrier, jobs, staging files |
| Launcher and desktop shell (`launcher.py`, `desktop.py`) | launch locks, threads, recovery copies | launch, upgrade, recover, close | migration, settings |
| Credentials and settings (`workspace/settings.py`, `credentials/store.py`, `providers/profiles.py`) | `config.json`, credential stores, compatibility checks | setup, update, select, check | gateway |
| Local session (`security/local_session.py`) | launch tokens, sessions, CSRF | issue, exchange, validate, rotate | local API |
| Research (`research/*.py`) | matters, items, links, notes, receipts, identities, observations, comparisons | edit, save, link, delete, observe, compare | local API, connector |
| Source downloads (`corpus/download.py`) | validators beside versions | download, check, install | publishers, corpus |
| Hosted limits (`limits/*.py`) | reservations, answer logs, windows | admit, settle, reset | hosted API |
| Hosted ingestion (`ingestion/*.py`, `cli/ingest.py`) | source versions, artifacts, HPD table and checkpoint | download, parse, purge, load | publishers |

What is hard here, and what a unit test with one process hardly reaches:

* a row of the job table and the thread that works on it are different things;
  a lease may lapse under a live thread, and recovery runs in another process;
* a process dies between two transactions, with a lease, a reservation or the
  maintenance flag in its name;
* admission checks (one job per target, budget caps, concurrency limit, no
  maintenance) race one another;
* the upgrade spans two databases, a manifest and a journal, and a power loss
  keeps an arbitrary part of what was not flushed;
* an answer or an index run reads the corpus and the model-use policy several
  times while other requests change both, and a retry carries old choices;
* a publisher changes its data between two pages, two attempts or two loads;
* a file and the row that names it are written and deleted in two steps;
* a request reads, waits for the network or the user, and writes what it read.

What correctness means, per component: one active job per target and no worker
acting on a row it lost (job table); exclusive, unbroken maintenance (barrier);
every attempt resolved once, no leaked slot, no cap exceeded by admission
(ledger); an upgrade that looks atomic to whoever opens the workspace
(migration); a job published once, every run ending, every queued job begun
(runners); every generation one can return to is complete, and nothing but the
user's own choice changes his resources (corpus); text goes to a provider only
from one generation and with consent (answers); a poll that agrees with itself
and a call that is settled or written off (interactive answers); a row that has
its file and an export that is exact (property cache); archives and restores
that are whole, uploads that can be resumed and a history that says how far it
goes (backup, retention); no migration without the lock (launcher); text only to
endpoints that were checked (settings); one session per token (session); saves
that happen once and edits that are not lost (research); downloads that mean
what was published (downloads); estimated charges within budgets (hosted limits);
loads that leave no gap and versions with their files (hosted ingestion).

## Modules

| Module | Models |
|---|---|
| `Workspace` | processes and their tokens, the maintenance flag, the lock and the phase of its holder |
| `JobService` | the job table; one action per transaction |
| `UsageLedger` | the event log per attempt, the paid-call leases, the month |
| `MaintenanceBarrier` | `JobService` and `UsageLedger` together with the barrier and process start and exit; `Spec` of the workspace |
| `CorpusJobs` | `MaintenanceBarrier` with the corpus and resource runners on top: queues, threads, publication |
| `CorpusGenerations` | versions, generations, artifact files, vectors and the model-use policy; every operation that changes them |
| `ConsentedAnswers` | `CorpusGenerations` with answers that read it while it changes |
| `InteractiveAnswers` | questions of browsers: row, record, run, paid calls, polls |
| `PropertyPages` | pages of a dataset that changes, cached by cursor, strung together by an export |
| `PropertyCache` | rows and files of cached pages, pins, the export job |
| `WorkspaceCare` | `PropertyCache` with backup and pruning on top |
| `Retention` | staged uploads and their jobs, usage history, pruning of both |
| `WorkspaceRestore` | unpacking a backup into a new workspace |
| `Launching` | the desktop application's threads, the terminal, launch locks and recovery copies |
| `WorkspaceSettings` | the settings file, what each process holds of it, credentials, endpoints |
| `LocalSession` | launch tokens, sessions, CSRF tokens of several tabs |
| `ResearchMatters`, `PropertyDossiers`, `SourceComparison` | saved work; identities and observations; comparison of two versions |
| `SourceDownloads` | conditional downloads of official sources |
| `HostedLimits`, `HpdLoading`, `HostedSources` | the hosted service: budgets, the HPD table, source versions |
| `Migration` | the upgrade, its recovery, errors, crashes, power losses |
| `AtomicUpgrade` | what an upgrade promises; `Migration` implements it under the mapping `Face`, `Decided` |
| `SumLemmas` | sums over finite sets, with the induction the proofs use |
| `BarrierProofs` | theorems about `MaintenanceBarrier!Spec`: table, barrier, ledger and budgets |
| `CorpusProofs` | theorems about the runners of `CorpusJobs`, on top of `BarrierProofs` |
| `MigrationProofs` | theorems about `Migration`, with its refinement of `AtomicUpgrade` |
| `StoreProofs` | theorems about `CorpusGenerations` and `ConsentedAnswers` |
| `DeskProofs` | theorems about `LocalSession`, `PropertyDossiers`, `SourceComparison`, `ResearchMatters`, `InteractiveAnswers`, `HostedLimits`, `PropertyPages` |
| `UpkeepProofs` | theorems about `WorkspaceRestore`, `WorkspaceSettings`, `Launching`, `Retention`, `WorkspaceCare` with `PropertyCache` |
| `SourcesProofs` | theorems about `HostedSources`, `SourceDownloads`, `HpdLoading` |
| `MCBarrier`, `MCLedger`, `MCCorpus`, `MCAnswers` | instances for TLC |
| `MCUpkeep`, `MCDesk` | instances of the modules that share no state: a behaviour is of one of them, chosen at the start |

How state and actions correspond to the code:

* An operation that is one SQLite write transaction is one action. A call that
  raises rolls its transaction back; it is a step that changes nothing and does
  not appear. `maintenance_active` clears a stale flag inside the transaction of
  an accepted caller, so every admission action has `flag' = FALSE`
  (`NotUnderMaintenance`).
* Wall-clock leases are `"fresh"` or `"lapsed"`; `LeaseLapses` and `SlotLapses`
  let time pass at any moment, so no property depends on the length of a lease.
* A process token is never reused, so a restart is another member of `Procs`.
  `LegacyOwner` stands for rows an older release wrote without tokens.
* `checkpoint` changes only progress data and has the guard of `heartbeat`; in
  `CorpusJobs` it is part of the step it precedes.
* In `CorpusJobs` a run is a `thread[w]` with a stage: `working` (download,
  embedding, reading the staged upload), `publishing` (the corpus transaction is
  next), `closing` (the last checkpoint and `succeed`), `failing` / `reporting`
  (the two halves of the error handler) and `cancelling`. Consecutive accesses to
  a row are one step where what another process does in between cannot change
  the outcome. The wait and the transaction of `CorpusMaintenanceJobs.resume` are
  one step: two resume requests for the same job in the same process at the same
  instant are outside the model. The paid calls of an index job are left to
  `UsageLedger`. Any access of a run to the job table may fail on the database:
  before the claim the future is gone and the row as it was (`LoseRun`), later the
  error handler runs, and may fail as well (`HandlerFails`). `stranded` remembers
  the jobs of a process to which one of the two has happened since they were last
  scheduled.
* In `Migration`, `corpusDisk`, `stateDisk` and `recoveryDisk` are the values a
  power loss may leave; a flush makes them singletons. Backup and barrier are the
  flag writes they leave in the state database. The launch lock makes migration
  and recovery single-actor.

* In `CorpusGenerations` there is one writer at a time, which is what the job
  target `corpus:core` is for (`two_writers` shows when the job table does not
  deliver it). An operation of one transaction is one step; install, import,
  index run and bundle are split where they write files before the transaction,
  call the provider, or clean up afterwards, and `Interrupt` cuts each of them
  short anywhere. A version stands for all its chunks and vectors. Its bytes and
  its meaning are constants, so parsers are functions from the one to the other.
  `activated_at` is the order of `activations`. An upload that failed keeps its
  request, as its staging directory does; reading the form and creating the job
  are one step. A bundle has the readiness of the generation it was exported from,
  which `import_bundle` activates without a look at it. `check_artifacts`, export
  and `verify` change no generation; the column `enabled` is written and never read.
* In `ConsentedAnswers` each read of an answer is its own transaction. Ranking is
  left out: a search may return any text its filters admit. Cached vectors need
  no state because `_semantic` joins them with the present policy. `late` and
  `revoked` are history variables: what was turned off after an answer's last
  check, and what the user turned off and has not turned on since.

* In `InteractiveAnswers` the lease of a run is the row's state, because a row is
  claimed once. Cancelling is two steps (the row, then the signal), a poll is two
  (the row, then the record), and the run looks at the signal where the gateway
  does. An exception that no handler of the gateway names is outside the model
  and listed as a hazard.
* In `PropertyPages` a page is up to three requests, and the publisher changes
  rows between any two. `kept` is a history variable: the rows left alone since
  a page began to be fetched. Failed attempts that are retried leave no trace.
  Filters other than building and date are left out; they select rows alike on
  every page.
* In `PropertyCache` a search writes the file, then the row, then removes the
  replaced file and evicts, each its own step; sizes are numbers of pages.
  `WorkspaceCare` has the barrier as one step, which `MaintenanceBarrier` is
  about; the process that holds it may die.
* In `Retention` months are numbers, the clock may be put back, and a staged
  file is new or old; the corpus side of an import is `CorpusJobs`'. In
  `WorkspaceRestore` a member is copied and verified in one step, and a power
  loss takes any part of what is not flushed.
* In `Launching` every check of an event, dialog and lock is a step of its thread.
  What an upgrade, a recovery or a copy leaves behind is any of the outcomes
  `Migration` and `WorkspaceRestore` allow. In `WorkspaceSettings` each process
  holds the record it read; a command that waits for input or for a provider's
  answer writes it back later. An override that is refused changes nothing.
* In `ResearchMatters` a method that looks before its first write takes two
  steps, because pysqlite opens the transaction with the first write. A text is
  the sequence of its edits, so a lost edit shows. In `PropertyDossiers` the
  search is awaited between two reads of the identity. `SourceComparison`
  classifies every pair of versions over three keys.
* In `SourceDownloads` ETag and Last-Modified are one validator, and a text is two
  pieces: parts of a file's transfer, or pages of a bundle. The publisher may
  begin to send validators, stop and begin again; `fellBack` remembers that an
  answer without one has kept an older one.
* In `HostedLimits` tokens and dollars are one unit and the admission lock makes
  admission one step. An answer may cost more than the estimate and may come
  without a usage; the cost is that of a request's last provider attempt, the
  one the code could record (see the hazards). In `HpdLoading` a page is one row
  and every row has a status date; `slow` remembers a load that took more days
  than the overlap. In `HostedSources` one ingestion command and one purge run
  at a time. A file is created and filled in two steps: `torn` are the texts
  whose file is a part of them, `cut` remembers those whose writing was killed.

## Runs

| Run | Instance | Shows |
|---|---|---|
| `barrier` | 3 processes, 3 jobs (two on one target, one legacy), 2 workers, 1 paid call | `OneActivePerTarget`, `LeaseFencing`, `MaintenanceIsExclusive`, `BarrierStands`, `FrozenUnderMaintenance` |
| `ledger` | 2 processes, 3 attempts (one legacy), 2 operations, costs 0 and 2, caps 3 and 2, 2 slots, 2 months | `ResolvedOnce`, `SlotIffOutstanding`, `BudgetsHold`, `LiveCallsAreKept` |
| `runners` | 2 processes, an import and an install, 2 runs | `ImportedOnce`, `SucceededIsCommitted`, `LeasedRowHasThread`, `QueuedIsScheduled` |
| `runs_end` | 1 process, index, check, mutation, 2 runs | `RunsEnd`, `QueuedJobsStart` under fairness |
| `store` | a core source in two editions of one meaning, a pack, a resource, 2 bundles (one of an unfinished index run), 3 generations | `VerifiesAtAllTimes`, `RollbackIsSafe`, `ResourcesAreKept` |
| `answers` | a resource with two versions of the same bytes, one answer, 3 generations, 1 failed upload | `OneGeneration`, `TextLeavesWithConsent` |
| `upkeep` | migration: all five migratable pairs, 3 faults | `PowerLossIsAtomic`, `ReadyWhenRetired`, `RefinesAtomicUpgrade` (with its liveness) |
| | cache and care: 2 pages where 1 fits, a user and an export, one backup or pruning | `RowHasFile` |
| | uploads: an upload with 2 runs; history: 2 paid attempts, 3 months of a clock that is put back, 2 periods | `ResumableHasUpload`, `HistoryAboveFloorIsWhole` |
| | restore: 5 members, one perhaps damaged, 2 attempts | `NoPartialRestore` |
| | loading: 2 rows, 3 changes in 4 days, overlap of 1; sources: 2 texts that alternate | `NextDeltaMissesNothing`, `CurrentTextIsTraceable` |
| | launching: 3 runs, 2 recovery copies and a terminal; settings: 2 commands, 2 launches, 2 endpoints | `MigrationOwnsWorkspace`, `OnlyCheckedEndpoints` |
| | downloads: 3 editions, two of them alike, reissued twice, 3 attempts | `FetchedAsPublished` |
| `desk` | pages: 3 rows, 2 dates, 2 buildings, pages of 1, one change, one search beside the export | `ExportIsExact` |
| | session: 2 tabs, 2 launches, 3 tokens; interactive: a question, 1 crash | `SessionsHold`, `PollIsConsistent`, `CallEndsResolved` |
| | matters: 2 matters, 2 items, 1 key, 2 clients; dossiers: 2 requests, 3 resolutions | `SavedWorkIsKept`, `ObservationIsOfItsBuilding` |
| | comparison: all pairs of versions of 3 sections; limits: 3 requests, 2 users, 2 days of one month, charges of twice the estimate | `ComparisonIsSymmetric`, `SpendWithinBudgets` |
| `two_writers` | 2 processes, a removal and an install | violated: two processes publish at the same time |
| `late_cancel` | 1 process, an import | violated: a committed import is reported as cancelled |
| `revocation` | as `answers`, without an answer | violated: retrying an upload turns model use on again |
| `backup_cache` | as `upkeep` | violated: an archive has a cache row and not its file |

Why the bounds are enough. The barrier's races need a process that enters, one
that admits work and one that crashed before; two jobs on a target show every
admission conflict, the third one recovery of another target. Costs and caps are
chosen so that one reservation fits, two do not fit an operation, and a month
boundary decides. Three faults are an interrupted upgrade, an interrupted
recovery and one more. Two worker ids are the old run and the new run of one
job; a worker id is a fresh uuid in the code, so running out of them ends
nothing but the model, and `QueuedJobsStart` exempts that. Processes and workers
are interchangeable and symmetric in the runs without liveness. Three
generations are an active one, the one to roll back to, and a copy an index run
left behind, or a bundle's generation and its merge; of the two bundles one may
be activated at any time and the other becomes active only as it is imported; two editions with one meaning make an install reuse a
stored version and discard the file it wrote; two versions of one content share
a file. `ContentOf` and `UseOf` keep apart what the policy and the artifact
cleanup tell apart. `upkeep` and `desk` run one part at a time, which loses
nothing: the parts share no variable (uploads and history share the phases of a
pruning, which plans for each by itself), and where two of them touch the same
table, each has the steps of the other that matter to it. A page of one row puts
a boundary after every row; three rows are two with one date and one without,
and two pages where one fits evict on every store. Two requests with one key or
one token are every race of that kind. An overlap of one day and four days are a
load begun, interrupted and resumed inside the overlap and outside it. Two usage
attempts are one that the first pruning drops and one that was not resolved
then. A daily budget of one estimate and a monthly one of two make the second
request of a day and the third of the month one too many, and each is charged
twice its estimate; that a month ends is left to the theorem. Three runs of the
desktop application follow a copy, and a copy of it. Requests of the same hosted
user are interchangeable and symmetric in `desk`.

`CHECK_DEADLOCK FALSE` everywhere: every process may have exited for good.

Fairness. `CorpusJobs` assumes weak fairness of each thread's own steps (the OS
schedules it, a download is a finite list of requests with time-outs, a corpus
transaction ends) and of an executor with a free thread and a waiting future.
Nothing is assumed of users, of other processes, of the clock, of errors of the
database, or of recovery, which the code runs only at start-up and before
maintenance. `Migration` assumes
that a running operation goes on and that a blocked workspace is opened again,
which `start_workspace` answers with recovery; nobody has to start an upgrade,
and faults are bounded. `upkeep` states this fairness for the behaviours of that
part (`Upgrades`) and none for the others, whose properties are invariants.

### Where the code and its documents disagree

The four violated properties quote the documents; `PROJECT.json` has the lines.
`two_writers` and half of `late_cancel` have one cause: `recover_interrupted`
treats a lapsed lease as proof that the worker is gone even when `owner_alive`
says its process lives, while publishing renews no lease. The barrier's `enter`
recovers first, so a backup may begin beside such a worker, too. The ledger's
recovery does not do that (`LiveCallsAreKept`). The late cancellation is a second
cause: `succeed` and the error handler do not know that the corpus transaction
has committed. What does hold in spite of both is `ImportedOnce`: the receipt
inside the corpus transaction keeps two runs of one import from publishing twice.

`revocation` is about consent. A replacement carries the model-use setting its
form had, and writes it when it runs. If it failed and is resumed after the user
turned model use off, it turns it on again; the version check does not notice,
because the switch changes no version. What does hold is `TextLeavesWithConsent`:
whatever the policy is, no answer and no index run sends text it did not allow at
the last check, and that check is the last thing before the prompt.

`backup_cache` is about the barrier's reach. Storing a page asks for the flag;
the eviction and the removal of the replaced file that follow do not, and a
backup reads the cache rows twice. What does hold is `RowHasFile`: the live cache
never has a row without its file.

One more is reachable in `WorkspaceSettings` and stated by no run: after
`start --offline`, which "does not change saved settings" (docs/Setup.md:84), any
change of a setting in the browser saves the whole record, offline included.

The repository states nothing about the following weaknesses. The properties say
by name what they exclude, so that each shows that nothing else goes wrong, and
the hazards list them with their lines:

* `ResourceJobs.resume` can leave an import queued with no future
  (`QueuedIsScheduled` is about corpus jobs), and a foreground mutation that is
  cancelled late keeps its row leased (`LeasedRowHasThread` is about runners).
* A database error while the workspace is opened or a job is claimed ends the
  future and leaves the row queued in a process that lives; one in the error
  handler leaves the row leased to no thread. `QueuedIsScheduled`,
  `QueuedJobsStart` and `LeasedRowHasThread` exempt the jobs in `stranded`.
* A bundle can be exported from an unfinished index run and is activated on
  import, so that a generation that is not ready for search may be the active one
  or the one to roll back to. `RollbackIsSafe` says that no other is
  (`MayBeActive`).
* A download that is killed while it writes an artifact leaves a part of the text
  under the hash of the whole, and the next one takes it. A version whose text is
  in `cut` may have such an artifact; no other (`CurrentTextIsTraceable`). A text
  the publisher returns to keeps its superseded version, so the current version
  need not be what is served now.
* An answer without a validator keeps the older one beside the newer text, and a
  later 304 may then confirm a text that is not the publisher's.
  `FetchedAsPublished` is claimed of every text that was transferred, and of a
  confirmed one until `fellBack`.
* The estimate of a hosted request leaves out the system text, the question and
  the metadata of the passages, so an answer may cost more; and an answer without
  a usage is logged and settled at no cost. `SpendWithinBudgets` counts a charge
  up to its estimate, and nothing for an answer that does not say (`Counted`).

## Proofs

Every theorem is for arbitrary constants: any sets of processes, jobs, workers,
attempts, versions, bundles, tabs, clients, pages, editions and rows, and any
bounds. What a module assumes of its constants is a named `ASSUME` that TLC
evaluates in the runs:

| Assumption | Says |
|---|---|
| `OwnersAssumption`, `JobsAssumption` | owner values are distinct; constants have their types; an older release left at most one job per target |
| `LedgerAssumption` | caps are naturals, attempts are finite, an older release left no more reservations than slots |
| `SourcesAssumption`, `BundlesAssumption` | versions are finite in number; a bundle has at most one version of a source, as a generation has, and one of the readinesses a generation has |
| `MattersAssumption` | a save key is neither of the two words that mark an item which is unused or deleted |
| `LaunchAssumption` | the number of recovery copies is a natural number |
| `DownloadAssumption` | no edition's validator is the mark of a missing one; at least one attempt is made |
| `LimitsAssumption` | the budgets and the possible costs are naturals and the estimate is positive, requests are finite in number and each has a user, the exempt users are users |
| `PageAssumption` | ids are naturals and finite in number, dates are positive, a page holds at least one row, no building has the name of the mark for none |
| `LoadingAssumption` | ids and days are naturals, and there is a violation that may be published |

Every safety property of the passing runs is proved. None of the
interesting ones is inductive as it stands. What each needs, and why:

`BarrierProofs`. `MaintenanceIsExclusive`
needs `BarrierStands` (a flag somebody may clear as stale belongs to no live
holder) and the exactness of the admission guards; recovery keeps
`MaintenanceIsExclusive` only because it moves rows out of the active states;
`OneActivePerTarget` needs the types of the rows. `Inv` is their conjunction; its
proof has one step per action and under it one per invariant the action can
disturb. `TargetsAreExclusive`, `LeasesFence`, `MaintenanceExcludesWork` and
`BarrierIsKept` are its parts.

The ledger is in the same module. The strengthening is `LedgerOK(log, slot)`: a
history has one of five shapes, with the owner and month of its reservation
carried along; a lease exists exactly when the history has length one; leases
are bounded in number. The shape makes `StatusOf` a function of the length,
which is what the guards test. It is a predicate of two values and not of the
variables because recovery and the operation that follows it happen in one
transaction: `RecoveredOK` shows that recovery preserves it, each operation then
starts from the recovered values. `TypeCorrect` and `ConcurrencyIsBounded` (paid
calls in flight never exceed the limit) are proved and not checked by a run of
their own. `WorkIsFrozen` (an action property) follows from both invariants:
under the flag no attempt is open, so recovery and settlement change nothing.

`BudgetsHold` is about sums, and holds of what the books show and not of what is
due: recovery, a settlement below the reservation and a correction move the two
apart. `BudgetInv` therefore bounds what every open or uncertain attempt may
still come to (`Due`), which only a reservation raises, and a reservation raises
it by what its guard has just counted. Each other operation replaces an outcome by
one that is at most as dear (`Weaker`), and sums are monotone.

`SumLemmas`. The library's induction theorems take an operator as a parameter and
cannot be instantiated by the provers, so induction is over a *set* of numbers
(`InductiveSet`, from the well-foundedness of `<`). The community module defines a
sum by a recursive function on subsets; `SumIsTable` shows that such a function
exists and agrees with its restrictions, and `SumSplit`, `SumMonotone`, `SumOfSums`,
`SumOneMore` and `SumCovered` are what the budgets use.

`CorpusProofs`. First, every step of the runners is a step of the job table, the
ledger or the barrier, or leaves them alone (`RunnersUseTheTable`: a
specification implements another), so `Inv` is at hand. `RunnerInv` then adds
what ties a thread to its row: a thread belongs to a live process and has drawn
its worker id (`ThreadsLive`), a row names a process that was started
(`RowsNameStarted`, so a process that starts has no queued row yet), a thread
that acknowledges a cancellation was asked for one (`CancellingIsAsked`), and
one that only has to report success has published (`ClosingIsPublished`).
`ImportedOnce` needs none of the leases: it is the receipt inside the corpus
transaction that carries it.

`MigrationProofs`. The state of a power loss is a set of values per file, so the
invariant says what every member of the set can be at each point of an upgrade,
a recovery or a rollback (`AtPoint`): the snapshots are of the old pair
(`SnapIsOld`), the recovery directory is durable before a database is touched
(`DirIsDurable`), what a process sees is among what may survive
(`SeenIsOnDisk`), and the manifest follows the verdict (`ManifestAgrees`). The
refinement `UpgradeIsAtomic` maps every step to a step of `AtomicUpgrade` or to
a stutter; its liveness half is left to TLC.

`StoreProofs`. `StoreInv` has the invariants of the store at rest
(`GenerationsAreSound`: a generation's versions are stored, indexed and, where
it says so, embedded; `StoredHasFile`; `HistoryIsSound`: no generation is
activated twice in the history, the active one is last, all are validated or a
bundle's) and one for each operation that is split in two (`InstallSound`,
`ImportSound`, `BundleSound`, `IndexSound`): what it remembers from before is
still true when it commits, which holds because files are only removed when no
stored version has them, and the writer is alone. `ResourcesKept` is an action
property from the same invariant. `AnswerInv` adds that an answer's generation
is there, with the versions it had (`AnswersHaveGeneration`), that everything an
answer is about to send was permitted at its last check (`AnswerHasConsent`),
and that what an index run has still to send is permitted now
(`IndexHasConsent`).

`DeskProofs`. `SessionsAreSafe` needs that token ids are distinct over launches
(`TokensAreDistinct`) and that CSRF tokens are derived from their session
(`CsrfIsDerived`). `ObservationIsOfItsBuilding` and `SavedWorkIsKept` are
inductive given their types, because the code looks again inside the transaction
that writes. `ComparisonsAreSymmetric` is about the classification itself:
exchanging the two versions exchanges added and removed and keeps the rest.
`InteractiveInv` says in which order a row, its record, its result and its run
can be (`RunOrder`), that what a half-finished poll has read stays true of a row
that is over (`PollSound`), and that an attempt is reserved only while its run
waits for the provider (`ReservedIsSent`). `LimitInv` bounds what the admitted
requests may be counted for at most (`Committed`), as `BudgetInv` does for the
ledger: the admission lock makes the estimate it counts the one it adds, and
whatever an answer costs, its log and its settlement are worth what is counted
of it (`CountedFits`).

`ExportIsExact` is about a dataset that changes between the requests of a page
and between the pages of an export, some of them cached or stale. `PagesInv`
says of every page, wherever it is kept, that it covers the rows that were left
alone since it was asked for (`SoundPage`): a row of its building behind its
cursor is listed, or lies behind its end if it has a successor, and a first page
is of the building of all such rows. A half-read page has all the dated ones
(`SearchInv`). An export then needs no induction over its pages: `ExportInv` has
each of these rows listed so far, or ahead of the cursor in the cursor's
building, and the next page moves the cursor (`NextPage`). `Ranks` and
`ByRankIsSorted` show that a finite total order lists its set in order, which
gives what a request returns (`TopFacts`) and what combining pages keeps
(`CombineFacts`).

`UpkeepProofs`. `RestoreInv`: what is staged was verified, and the target is only
renamed to when everything is flushed. `SettingsInv`: every record of the settings,
on disk or held by a process, is vouched for by checks that were made. `LaunchInv`:
the main thread holds the locks from launch to exit (`LocksAreHeld`), and when it
gives them back the bootstrap thread is over or will find the cancellation set
(`LocksGoLast`, from `EventsAreTrue` and `WindingUp`).
`HistoryInv`, `UploadInv`: what a plan has chosen is still old, or still needless,
when it is carried out. `CacheInv`: a file name is used once (`FilesAreOld`,
`RowsAreApart`), so a removal under way can only hit a file that no row names any
more (`DropsAreDead`), a page being stored has a file of its own (`PendingIsOwn`),
and under the flag the files a pruning plans to remove are those of rows it has
planned to delete (`CareIsApart`).

`SourcesProofs`. `VersionsInv`: the version retrieved last is the current one,
no two have one text, a purge under way has chosen superseded ones only, and a
file with a part of a text is being written or was killed (`TornIsCut`).
`DownloadInv`: until an answer without a validator has kept an older one, a
stored validator names an edition of the same meaning as the text it is stored
with (`TagsAreTrue`), even where a version keeps its own artifact and takes
another edition's validator, so "not modified" stands for what is served now.
`LoadingInv`: what the next delta would not ask for is stored *while a load is
under way, too* (`OldIsStored`), and whatever an unfinished load has passed is
stored as published or has changed since the load was begun (`PassedIsFresh`),
in the order of its own mode; when it ends within the overlap, the second of
these is as good as the first.

The attempts changed the model where it could not be reasoned about or was
wrong: `SourceComparison!Classify` was a `CASE` whose arms overlap, and is the
chain of tests that the code has; `CorpusGenerations!Retained` is a set of
positions; sums are `SumFunction` of the community modules; the order of rows in
`PropertyPages` was a sort by a built-in of TLC that the prover cannot open, and is
the rank of each row now (`InOrder`); the assumptions above name what the proofs
turned out to use.

Left to TLC is liveness: `RunsEnd`, `QueuedJobsStart`, and the liveness half of
`RefinesAtomicUpgrade`. Fairness and ENABLED are beyond the prover. The four
violated properties are counterexamples and are shown by TLC alone.

## Not modelled, and the plan

`PROJECT.json` lists the components and what is left out of each. Not modelled
are: parsers of documents, ranking, prompting, citations and rendering, whose
data and not whose control is what matters; diagnostics, evaluation and release
tools, which change nothing; accounts and cookies of the hosted service; archive
and wire formats. Offline extensions have an inventory and no installer.

What could follow: the gateway's stream reading as a component of its own, with the
calls it makes in the ledger; the paid calls of an index job inside
`CorpusJobs`, so that one theorem spans both; and a joint model of two requests that
resume one job in the same process at the same instant.
