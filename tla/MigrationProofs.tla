--------------------------- MODULE MigrationProofs ---------------------------
(***************************************************************************)
(* Proofs about the schema upgrade, for any number of errors, crashes and  *)
(* power losses.  PowerLossIsAtomic only speaks of the disk; what makes it *)
(* inductive is which of the two pairs the databases hold at every point   *)
(* of the operation, and that the recovery directory is on disk for        *)
(* certain as long as they hold neither.                                   *)
(***************************************************************************)
EXTENDS Migration, TLAPS

Phases == {"none", "pending", "committed", "rolled_back"}
Verdicts == {"committed", "rolled_back"}
StateSchemas == [schema : {"1", "1+tables", "2"}, flag : BOOLEAN]
Points == {"idle", "backing_up", "backed_up", "entered", "published", "migrating",
           "manifested", "flushed", "restoring", "restored_corpus", "restored",
           "closing", "abandoning", "left", "retired", "checking"}

Types ==
  /\ corpus \in 1..3 /\ corpusDisk \subseteq 1..3
  /\ state \in StateSchemas /\ stateDisk \subseteq StateSchemas
  /\ recovery \in Phases /\ recoveryDisk \subseteq Phases
  /\ snap.corpus \in 1..3 /\ snap.state \in StateSchemas
  /\ origin \in MIGRATABLE_VERSIONS
  /\ pc \in Points

\* What a process sees may survive a power loss.
SeenIsOnDisk ==
  corpus \in corpusDisk /\ state \in stateDisk /\ recovery \in recoveryDisk

OldOnDisk == WholeOnDisk({origin})
NewOnDisk == WholeOnDisk({CURRENT_VERSIONS})

\* The snapshots are of the pair the workspace had before any upgrade.
SnapIsOld == <<snap.corpus, StateVersion(snap.state)>> = origin

\* A directory that may be lost is only there while the old pair is whole,
\* and a verdict is on disk as soon as it is seen.
DirIsDurable ==
  /\ recovery = "pending" /\ recoveryDisk # {"pending"} => OldOnDisk
  /\ recovery \in Verdicts => recoveryDisk = {recovery}
  /\ recovery = "none" => "pending" \notin recoveryDisk

\* The manifest follows the verdict.
ManifestAgrees ==
  /\ "committed" \in recoveryDisk => manifest = CURRENT_VERSIONS
  /\ "rolled_back" \in recoveryDisk => manifest = origin

\* What holds at each point of the operation.
AtPoint ==
  /\ pc \in {"backing_up", "backed_up", "entered"} => recovery = "none" /\ OldOnDisk
  /\ pc = "published" => recovery = "pending" /\ OldOnDisk
  /\ pc \in {"migrating", "manifested", "flushed"} =>
       recovery = "pending" /\ recoveryDisk = {"pending"}
  /\ pc = "manifested" => SchemaVersions = CURRENT_VERSIONS
  /\ pc = "flushed" => NewOnDisk
  /\ pc \in {"manifested", "flushed"} => manifest = CURRENT_VERSIONS
  /\ pc \in {"restoring", "restored_corpus", "restored"} => recovery = "pending"
  /\ pc = "restored_corpus" => corpus = snap.corpus
  /\ pc = "restored" => corpus = snap.corpus /\ state = snap.state
  /\ pc \in {"closing", "checking", "left"} => recovery \in Verdicts
  /\ pc = "left" => ~state.flag
  /\ pc = "retired" => recovery = "none"

MigrationInv ==
  /\ Types /\ SeenIsOnDisk /\ SnapIsOld /\ DirIsDurable
  /\ PowerLossIsAtomic /\ ManifestAgrees /\ AtPoint /\ ReadyWhenRetired

-----------------------------------------------------------------------------
\* The current pair is none of those an upgrade starts from.
LEMMA CurrentIsNotOld == origin \in MIGRATABLE_VERSIONS => origin # CURRENT_VERSIONS
BY DEF MIGRATABLE_VERSIONS, CURRENT_VERSIONS

\* What is whole on disk is what a process sees.
LEMMA SeenVersions ==
  ASSUME Types, SeenIsOnDisk
  PROVE  /\ OldOnDisk => SchemaVersions = origin
         /\ NewOnDisk => SchemaVersions = CURRENT_VERSIONS
         /\ ~(OldOnDisk /\ NewOnDisk)
BY CurrentIsNotOld DEF Types, SeenIsOnDisk, OldOnDisk, NewOnDisk, WholeOnDisk, SchemaVersions

\* Raising or lowering the maintenance flag changes no version.
LEMMA FlagKeepsVersions ==
  ASSUME Types, SeenIsOnDisk, NEW b \in BOOLEAN, WriteFlag(b),
         UNCHANGED <<corpus, corpusDisk, origin>>
  PROVE  /\ OldOnDisk => OldOnDisk'
         /\ NewOnDisk => NewOnDisk'
         /\ SchemaVersions' = SchemaVersions
         /\ state' \in StateSchemas /\ stateDisk' \subseteq StateSchemas
         /\ state' \in stateDisk' /\ corpus' \in corpusDisk'
         /\ state'.flag = b
BY DEF Types, SeenIsOnDisk, StateSchemas, WriteFlag, WriteState, OldOnDisk, NewOnDisk,
       WholeOnDisk, SchemaVersions, StateVersion, CURRENT_VERSIONS

\* A flush leaves on disk what is seen.
LEMMA FlushFacts ==
  ASSUME Types, SeenIsOnDisk, FlushDatabases, UNCHANGED origin
  PROVE  /\ SchemaVersions' = SchemaVersions
         /\ OldOnDisk' <=> SchemaVersions = origin
         /\ NewOnDisk' <=> SchemaVersions = CURRENT_VERSIONS
         /\ corpus' \in 1..3 /\ corpusDisk' \subseteq 1..3
         /\ state' \in StateSchemas /\ stateDisk' = {state}
         /\ state' \in stateDisk' /\ corpus' \in corpusDisk'
         /\ state' = state /\ corpus' = corpus
BY DEF Types, SeenIsOnDisk, FlushDatabases, OldOnDisk, NewOnDisk, WholeOnDisk,
       SchemaVersions, CURRENT_VERSIONS

-----------------------------------------------------------------------------
\* The invariant of the upgrade holds at the start.
LEMMA MigrationInit == Init => MigrationInv
<1> SUFFICES ASSUME Init PROVE MigrationInv
  OBVIOUS
<1> USE DEF Init
<1>1. Types
  BY DEF Types, StateSchemas, Phases, Points, MIGRATABLE_VERSIONS
<1>2. <<corpus, StateVersion(state)>> = origin
  BY DEF MIGRATABLE_VERSIONS, StateVersion
<1>3. OldOnDisk
  BY <1>2 DEF OldOnDisk, WholeOnDisk
<1>4. SnapIsOld
  BY <1>2 DEF SnapIsOld
<1>5. QED
  BY <1>1, <1>3, <1>4 DEF MigrationInv, SeenIsOnDisk, DirIsDurable, Verdicts, OldOnDisk,
       PowerLossIsAtomic, ManifestAgrees, AtPoint, ReadyWhenRetired

-----------------------------------------------------------------------------
(* Steps that only raise or lower the flag. *)
LEMMA FlagSteps ==
  ASSUME MigrationInv,
         BeginMigrate \/ BackUp \/ EnterBarrier \/ LeaveBarrier \/ CheckVersions
  PROVE  MigrationInv'
<1> USE DEF MigrationInv
<1>1. PICK b \in BOOLEAN : WriteFlag(b)
  BY DEF BeginMigrate, BackUp, EnterBarrier, LeaveBarrier, CheckVersions
<1>2. UNCHANGED <<corpus, corpusDisk, recovery, recoveryDisk, snap, manifest, origin>>
  BY DEF BeginMigrate, BackUp, EnterBarrier, LeaveBarrier, CheckVersions, dirVars
<1>3. /\ OldOnDisk => OldOnDisk'
      /\ NewOnDisk => NewOnDisk'
      /\ SchemaVersions' = SchemaVersions
      /\ state' \in StateSchemas /\ stateDisk' \subseteq StateSchemas
      /\ state' \in stateDisk' /\ corpus' \in corpusDisk'
      /\ state'.flag = b
  BY <1>1, <1>2, FlagKeepsVersions
<1>4. Types' /\ SeenIsOnDisk' /\ SnapIsOld' /\ DirIsDurable' /\ ManifestAgrees'
  <2>1. pc' \in Points
    BY DEF BeginMigrate, BackUp, EnterBarrier, LeaveBarrier, CheckVersions, Step, Points
  <2>2. QED
    BY <1>2, <1>3, <2>1 DEF Types, SeenIsOnDisk, SnapIsOld, DirIsDurable, ManifestAgrees,
         CURRENT_VERSIONS
<1>5. PowerLossIsAtomic'
  BY <1>2, <1>3 DEF PowerLossIsAtomic, OldOnDisk, NewOnDisk
<1>6. BeginMigrate => OldOnDisk'
  BY <1>3, SeenVersions, CurrentIsNotOld
     DEF BeginMigrate, PowerLossIsAtomic, OldOnDisk, NewOnDisk, SeenIsOnDisk,
         MIGRATABLE_VERSIONS, CURRENT_VERSIONS
<1>7. AtPoint' /\ ReadyWhenRetired'
  <2>1. CASE BeginMigrate
    BY <1>2, <1>6, <2>1 DEF BeginMigrate, AtPoint, ReadyWhenRetired
  <2>2. CASE BackUp
    BY <1>2, <1>3, <2>2 DEF BackUp, Step, AtPoint, ReadyWhenRetired
  <2>3. CASE EnterBarrier
    BY <1>2, <1>3, <2>3 DEF EnterBarrier, Step, AtPoint, ReadyWhenRetired
  <2>4. CASE LeaveBarrier
    <3>1. ~state'.flag
      BY <1>1, <1>2, <2>4 DEF LeaveBarrier, WriteFlag, WriteState, Types, StateSchemas
    <3>2. QED
      BY <1>2, <3>1, <2>4 DEF LeaveBarrier, Step, AtPoint, ReadyWhenRetired
  <2>5. CASE CheckVersions
    <3>1. ~state'.flag
      BY <1>1, <1>2, <2>5 DEF CheckVersions, WriteFlag, WriteState, Types, StateSchemas
    <3>2. QED
      BY <1>2, <3>1, <2>5 DEF CheckVersions, Step, AtPoint, ReadyWhenRetired
  <2>6. QED
    BY <2>1, <2>2, <2>3, <2>4, <2>5
<1>8. QED
  BY <1>4, <1>5, <1>7

(* Steps that change the recovery directory and flush, or neither. *)
LEMMA PublishStep ==
  ASSUME MigrationInv, PublishRecovery
  PROVE  MigrationInv'
<1> USE DEF MigrationInv, PublishRecovery, Step, databaseVars
<1>1. OldOnDisk /\ OldOnDisk' /\ recovery = "none"
  BY DEF AtPoint, OldOnDisk, WholeOnDisk
<1>2. SnapIsOld'
  BY <1>1, SeenVersions DEF SnapIsOld, SchemaVersions
<1>3. Types' /\ SeenIsOnDisk' /\ DirIsDurable' /\ ManifestAgrees' /\ AtPoint'
  BY <1>1 DEF Types, SeenIsOnDisk, DirIsDurable, ManifestAgrees, AtPoint, Phases, Points,
       Verdicts, CURRENT_VERSIONS
<1>4. PowerLossIsAtomic' /\ ReadyWhenRetired'
  BY <1>1 DEF PowerLossIsAtomic, ReadyWhenRetired, OldOnDisk, WholeOnDisk, CURRENT_VERSIONS
<1>5. QED
  BY <1>2, <1>3, <1>4

\* Flushing the recovery directory's parent keeps the invariant of the upgrade.
LEMMA SyncSteps ==
  ASSUME MigrationInv, SyncRecovery \/ SyncRetired
  PROVE  MigrationInv'
<1> USE DEF MigrationInv, SyncRecovery, SyncRetired, Step, databaseVars
<1>1. /\ OldOnDisk' <=> OldOnDisk
      /\ NewOnDisk' <=> NewOnDisk
  BY DEF OldOnDisk, NewOnDisk, WholeOnDisk, CURRENT_VERSIONS
<1>2. recoveryDisk' = {recovery} /\ (pc = "retired" => recovery = "none")
  BY DEF AtPoint
<1>3. QED
  BY <1>1, <1>2 DEF Types, SeenIsOnDisk, SnapIsOld, DirIsDurable, ManifestAgrees, AtPoint,
       PowerLossIsAtomic, ReadyWhenRetired, OldOnDisk, NewOnDisk, Phases, Points, Verdicts,
       CURRENT_VERSIONS

\* So does giving up the recovery directory.
LEMMA RetireStep ==
  ASSUME MigrationInv, RetireRecovery
  PROVE  MigrationInv'
<1> USE DEF MigrationInv, RetireRecovery, Step
<1>1. recovery \in Verdicts /\ recoveryDisk = {recovery} /\ ~state.flag
  BY DEF AtPoint, DirIsDurable
<1>2. /\ SchemaVersions' = SchemaVersions
      /\ OldOnDisk' <=> SchemaVersions = origin
      /\ NewOnDisk' <=> SchemaVersions = CURRENT_VERSIONS
      /\ corpus' \in 1..3 /\ corpusDisk' \subseteq 1..3
      /\ state' \in StateSchemas /\ stateDisk' = {state}
      /\ state' \in stateDisk' /\ corpus' \in corpusDisk'
      /\ state' = state /\ corpus' = corpus
  BY FlushFacts
<1>3. \/ recovery = "committed" /\ SchemaVersions = CURRENT_VERSIONS /\ manifest = CURRENT_VERSIONS
      \/ recovery = "rolled_back" /\ SchemaVersions = origin /\ manifest = origin
  BY <1>1, SeenVersions DEF PowerLossIsAtomic, ManifestAgrees, OldOnDisk, NewOnDisk, Verdicts
<1>4. PowerLossIsAtomic'
  BY <1>1, <1>2, <1>3 DEF PowerLossIsAtomic, OldOnDisk, NewOnDisk, Verdicts
<1>5. Types' /\ SeenIsOnDisk' /\ SnapIsOld'
  BY <1>1, <1>2 DEF Types, SeenIsOnDisk, SnapIsOld, Phases, Points, Verdicts
<1>6. DirIsDurable' /\ ManifestAgrees' /\ AtPoint' /\ ReadyWhenRetired'
  BY <1>1, <1>2, <1>3 DEF DirIsDurable, ManifestAgrees, AtPoint, ReadyWhenRetired, Verdicts,
       CURRENT_VERSIONS
<1>7. QED
  BY <1>4, <1>5, <1>6

(* The upgrade writes while the pending directory is on disk. *)
LEMMA MigrateSteps ==
  ASSUME MigrationInv, MigrateCorpus \/ MigrateState \/ WriteManifest
  PROVE  MigrationInv'
<1> USE DEF MigrationInv, MigrateCorpus, MigrateState, WriteManifest, Step, databaseVars, dirVars
<1>1. recovery = "pending" /\ recoveryDisk = {"pending"}
  BY DEF AtPoint
<1>2. UNCHANGED <<recovery, recoveryDisk, snap, origin>>
  OBVIOUS
<1>3. Types' /\ SeenIsOnDisk'
  <2>1. CASE MigrateCorpus
    BY <2>1 DEF WriteCorpus, Types, SeenIsOnDisk, Points
  <2>2. CASE MigrateState
    BY <2>2 DEF WriteState, Types, SeenIsOnDisk, Points, StateSchemas
  <2>3. CASE WriteManifest
    BY <2>3 DEF Types, SeenIsOnDisk, Points
  <2>4. QED
    BY <2>1, <2>2, <2>3
<1>4. SnapIsOld' /\ DirIsDurable' /\ PowerLossIsAtomic' /\ ManifestAgrees'
  BY <1>1, <1>2 DEF SnapIsOld, DirIsDurable, PowerLossIsAtomic, ManifestAgrees, Verdicts
<1>5. AtPoint' /\ ReadyWhenRetired'
  BY <1>1, <1>2 DEF AtPoint, ReadyWhenRetired, SchemaVersions, CURRENT_VERSIONS
<1>6. QED
  BY <1>3, <1>4, <1>5

\* So does flushing the upgraded databases.
LEMMA FlushStep ==
  ASSUME MigrationInv, FlushUpgrade
  PROVE  MigrationInv'
<1> USE DEF MigrationInv, FlushUpgrade, Step, dirVars
<1>1. recovery = "pending" /\ recoveryDisk = {"pending"} /\ SchemaVersions = CURRENT_VERSIONS
  BY DEF AtPoint
<1>2. /\ NewOnDisk' <=> SchemaVersions = CURRENT_VERSIONS
      /\ corpus' \in 1..3 /\ corpusDisk' \subseteq 1..3
      /\ state' \in StateSchemas /\ stateDisk' = {state}
      /\ state' \in stateDisk' /\ corpus' \in corpusDisk'
  BY FlushFacts
<1>3. QED
  BY <1>1, <1>2 DEF Types, SeenIsOnDisk, SnapIsOld, DirIsDurable, PowerLossIsAtomic,
       ManifestAgrees, AtPoint, ReadyWhenRetired, Points, Verdicts, CURRENT_VERSIONS

\* The journal's verdict is written on databases that are flushed.
LEMMA CommitStep ==
  ASSUME MigrationInv, pc = "flushed", FinishJournal("committed"),
         pc' \in {"closing", "abandoning"}, UNCHANGED <<databaseVars, manifest, origin>>
  PROVE  MigrationInv'
<1> USE DEF MigrationInv, FinishJournal, databaseVars
<1>1. NewOnDisk /\ NewOnDisk' /\ manifest = CURRENT_VERSIONS
  BY DEF AtPoint, NewOnDisk, WholeOnDisk, CURRENT_VERSIONS
<1>2. QED
  BY <1>1 DEF Types, SeenIsOnDisk, SnapIsOld, DirIsDurable, PowerLossIsAtomic, NewOnDisk,
       ManifestAgrees, AtPoint, ReadyWhenRetired, Phases, Points, Verdicts, CURRENT_VERSIONS

-----------------------------------------------------------------------------
(* The restore writes the old pair; if the directory may be lost, there is  *)
(* nothing else on disk.                                                    *)
LEMMA RestoreSteps ==
  ASSUME MigrationInv, RestoreCorpus \/ RestoreState
  PROVE  MigrationInv'
<1> USE DEF MigrationInv, RestoreCorpus, RestoreState, Step, dirVars
<1>1. recovery = "pending"
  BY DEF AtPoint
<1>2. UNCHANGED <<recovery, recoveryDisk, snap, manifest, origin>>
  OBVIOUS
<1>3. Types' /\ SeenIsOnDisk'
  BY DEF WriteCorpus, WriteState, Types, SeenIsOnDisk, Points
<1>4. OldOnDisk => OldOnDisk'
  BY DEF WriteCorpus, WriteState, OldOnDisk, WholeOnDisk, SnapIsOld, Types, SeenIsOnDisk
<1>5. SnapIsOld' /\ DirIsDurable' /\ ManifestAgrees'
  BY <1>1, <1>2, <1>4 DEF SnapIsOld, DirIsDurable, ManifestAgrees, Verdicts, CURRENT_VERSIONS
<1>6. PowerLossIsAtomic'
  <2>1. CASE recoveryDisk = {"pending"}
    BY <1>2, <2>1 DEF PowerLossIsAtomic
  <2>2. CASE recoveryDisk # {"pending"}
    BY <1>1, <1>2, <1>4, <2>2, SeenVersions
       DEF PowerLossIsAtomic, DirIsDurable, OldOnDisk, NewOnDisk
  <2>3. QED
    BY <2>1, <2>2
<1>7. AtPoint' /\ ReadyWhenRetired'
  BY <1>1, <1>2 DEF AtPoint, ReadyWhenRetired, WriteCorpus, WriteState
<1>8. QED
  BY <1>3, <1>5, <1>6, <1>7

\* So does the rollback, with the old pair restored.
LEMMA RollBackStep ==
  ASSUME MigrationInv, RollBack
  PROVE  MigrationInv'
<1> USE DEF MigrationInv, RollBack, FinishJournal
<1>1. SchemaVersions = origin /\ manifest' = origin
  BY DEF AtPoint, SnapIsOld, SchemaVersions
<1>2. /\ OldOnDisk'
      /\ corpus' \in 1..3 /\ corpusDisk' \subseteq 1..3
      /\ state' \in StateSchemas /\ stateDisk' = {state}
      /\ state' \in stateDisk' /\ corpus' \in corpusDisk'
  BY <1>1, FlushFacts
<1>3. pc' \in {"closing", "checking"}
  OBVIOUS
<1>4. Types' /\ SeenIsOnDisk' /\ SnapIsOld' /\ DirIsDurable' /\ ManifestAgrees'
  BY <1>1, <1>2, <1>3 DEF Types, SeenIsOnDisk, SnapIsOld, DirIsDurable, ManifestAgrees,
       Phases, Points, Verdicts
<1>5. PowerLossIsAtomic' /\ AtPoint' /\ ReadyWhenRetired'
  BY <1>2, <1>3 DEF PowerLossIsAtomic, AtPoint, ReadyWhenRetired, OldOnDisk, Verdicts
<1>6. QED
  BY <1>4, <1>5

-----------------------------------------------------------------------------
(* Steps that only move on: recovery begins, an error, a crash. *)
LEMMA MoveSteps ==
  ASSUME MigrationInv, UNCHANGED <<databaseVars, dirVars, manifest, origin>>,
         \/ pc' \in {"idle", "abandoning"}
         \/ pc' = "restoring" /\ recovery = "pending"
         \/ pc' = "checking" /\ recovery \in Verdicts
         \/ pc' = pc
  PROVE  MigrationInv'
<1> USE DEF MigrationInv, databaseVars, dirVars
<1>1. /\ OldOnDisk' <=> OldOnDisk
      /\ NewOnDisk' <=> NewOnDisk
      /\ SchemaVersions' = SchemaVersions
  BY DEF OldOnDisk, NewOnDisk, WholeOnDisk, SchemaVersions, CURRENT_VERSIONS
<1>2. Types' /\ SeenIsOnDisk' /\ SnapIsOld' /\ DirIsDurable' /\ ManifestAgrees'
  BY <1>1 DEF Types, SeenIsOnDisk, SnapIsOld, DirIsDurable, ManifestAgrees, Points,
       CURRENT_VERSIONS
<1>3. PowerLossIsAtomic'
  BY <1>1 DEF PowerLossIsAtomic, OldOnDisk, NewOnDisk
<1>4. AtPoint' /\ ReadyWhenRetired'
  BY <1>1 DEF AtPoint, ReadyWhenRetired, CURRENT_VERSIONS
<1>5. QED
  BY <1>2, <1>3, <1>4

\* Whatever combination of writes survives is one the invariant allows.
LEMMA PowerLossStep ==
  ASSUME MigrationInv, PowerLoss
  PROVE  MigrationInv'
<1> USE DEF MigrationInv, PowerLoss
<1>1. Types' /\ SeenIsOnDisk' /\ SnapIsOld' /\ ManifestAgrees'
  BY DEF Types, SeenIsOnDisk, SnapIsOld, ManifestAgrees, Points, CURRENT_VERSIONS
<1>2. /\ OldOnDisk => OldOnDisk'
      /\ NewOnDisk => NewOnDisk'
  BY DEF OldOnDisk, NewOnDisk, WholeOnDisk, CURRENT_VERSIONS
<1>3. PowerLossIsAtomic'
  BY <1>2 DEF PowerLossIsAtomic, OldOnDisk, NewOnDisk
<1>4. DirIsDurable' /\ AtPoint' /\ ReadyWhenRetired'
  BY DEF DirIsDurable, AtPoint, ReadyWhenRetired, Verdicts
<1>5. QED
  BY <1>1, <1>3, <1>4

\* The invariant of the upgrade is inductive.
LEMMA MigrationNext == MigrationInv /\ [Next]_vars => MigrationInv'
<1> SUFFICES ASSUME MigrationInv, [Next]_vars PROVE MigrationInv'
  OBVIOUS
<1>1. CASE CommitJournal
  BY <1>1, CommitStep DEF CommitJournal, Step
<1>2. CASE BeginRecover
  BY <1>2, MoveSteps DEF BeginRecover, MigrationInv, Types, Phases, Verdicts
<1>3. CASE UpgradeFails
  BY <1>3, MoveSteps DEF UpgradeFails, MigrationInv, AtPoint
<1>4. CASE Abandon
  BY <1>4, MoveSteps, CommitStep DEF Abandon
<1>5. CASE Halt
  BY <1>5, MoveSteps DEF Halt
<1>6. CASE UNCHANGED vars
  BY <1>6, MoveSteps DEF vars
<1>7. QED
  BY <1>1, <1>2, <1>3, <1>4, <1>5, <1>6, FlagSteps, PublishStep, SyncSteps, RetireStep,
     MigrateSteps, FlushStep, RestoreSteps, RollBackStep, PowerLossStep DEF Next, Upgrade

-----------------------------------------------------------------------------
(***************************************************************************)
(* The inductive invariant holds in every reachable state.                 *)
(***************************************************************************)
THEOREM MigrationInvariance == Spec => []MigrationInv
BY MigrationInit, MigrationNext, PTL DEF Spec

(***************************************************************************)
(* However many errors, crashes and power losses interrupt upgrades and    *)
(* recoveries, no power loss exposes a half-upgraded workspace             *)
(* (migrations.py:174-209, 270-343).                                       *)
(***************************************************************************)
THEOREM NoHalfUpgrade == Spec => []PowerLossIsAtomic
<1>1. MigrationInv => PowerLossIsAtomic
  BY DEF MigrationInv
<1>2. QED
  BY <1>1, MigrationInvariance, PTL

(***************************************************************************)
(* When the recovery directory is retired the manifest is right and the    *)
(* maintenance flag is down, on disk too (migrations.py:204-209, 377-393). *)
(***************************************************************************)
THEOREM RetiredIsReady == Spec => []ReadyWhenRetired
<1>1. MigrationInv => ReadyWhenRetired
  BY DEF MigrationInv
<1>2. QED
  BY <1>1, MigrationInvariance, PTL

-----------------------------------------------------------------------------
(* The refinement, step by step. *)

\* While the directory does not change and the versions of an open workspace
\* do not either, nothing is seen of a step.
LEMMA Unseen ==
  ASSUME UNCHANGED <<recovery, origin>>,
         recovery = "none" => SchemaVersions' = SchemaVersions
  PROVE  UNCHANGED <<Face, Decided>>
BY DEF Face, Decided, CURRENT_VERSIONS

\* A step of the upgrade is a step of the atomic one, or a stutter.
LEMMA StepRefines ==
  MigrationInv /\ MigrationInv' /\ [Next]_vars => [Atomic!Next]_(Atomic!upgradeVars)
<1> SUFFICES ASSUME MigrationInv, MigrationInv', [Next]_vars
             PROVE  Atomic!Next \/ UNCHANGED <<Face, Decided>>
  BY DEF Atomic!upgradeVars
<1> USE DEF Atomic!Next, Atomic!Block, Atomic!Decide, Atomic!Unblock
<1>0. Types /\ origin # CURRENT_VERSIONS
  BY CurrentIsNotOld DEF MigrationInv, Types
<1>1. CASE BeginMigrate \/ BackUp \/ EnterBarrier \/ LeaveBarrier \/ CheckVersions
  <2>1. PICK b \in BOOLEAN : WriteFlag(b)
    BY <1>1 DEF BeginMigrate, BackUp, EnterBarrier, LeaveBarrier, CheckVersions
  <2>2. UNCHANGED <<corpus, corpusDisk, recovery, origin>>
    BY <1>1 DEF BeginMigrate, BackUp, EnterBarrier, LeaveBarrier, CheckVersions, dirVars
  <2>3. SchemaVersions' = SchemaVersions
    BY <2>1, <2>2, FlagKeepsVersions DEF MigrationInv
  <2>4. QED
    BY <2>2, <2>3, Unseen
<1>2. CASE PublishRecovery
  <2>1. recovery = "none" /\ SchemaVersions = origin /\ recovery' = "pending"
    BY <1>2, SeenVersions DEF MigrationInv, AtPoint, PublishRecovery, Step
  <2>2. QED
    BY <1>0, <2>1 DEF Face, Decided
<1>3. CASE SyncRecovery \/ SyncRetired \/ MigrateCorpus \/ MigrateState \/ WriteManifest
           \/ FlushUpgrade \/ RestoreCorpus \/ RestoreState \/ BeginRecover
           \/ UpgradeFails \/ Halt \/ UNCHANGED vars
  <2>1. UNCHANGED <<recovery, origin>>
    BY <1>3 DEF SyncRecovery, SyncRetired, MigrateCorpus, MigrateState, WriteManifest,
         FlushUpgrade, RestoreCorpus, RestoreState, BeginRecover, UpgradeFails, Halt,
         vars, dirVars
  <2>2. recovery = "none" => UNCHANGED <<corpus, state>>
    BY <1>3 DEF SyncRecovery, SyncRetired, MigrateCorpus, MigrateState, WriteManifest,
         FlushUpgrade, RestoreCorpus, RestoreState, BeginRecover, UpgradeFails, Halt,
         vars, databaseVars, MigrationInv, AtPoint, Step, FlushDatabases
  <2>3. QED
    BY <2>1, <2>2, Unseen DEF SchemaVersions
<1>4. CASE CommitJournal \/ RollBack \/ Abandon
  <2>1. \/ recovery = "pending" /\ recovery' \in Verdicts
        \/ UNCHANGED <<recovery, origin, corpus, state>>
    BY <1>4 DEF CommitJournal, RollBack, Abandon, Step, FinishJournal, MigrationInv, AtPoint,
         Verdicts, databaseVars, dirVars
  <2>2. CASE recovery = "pending" /\ recovery' \in Verdicts
    BY <2>2 DEF Face, Decided, Verdicts
  <2>3. CASE UNCHANGED <<recovery, origin, corpus, state>>
    BY <2>3, Unseen DEF SchemaVersions
  <2>4. QED
    BY <2>1, <2>2, <2>3
<1>5. CASE RetireRecovery
  <2>1. recovery \in Verdicts /\ recoveryDisk = {recovery} /\ recovery' = "none"
    BY <1>5 DEF RetireRecovery, Step, MigrationInv, AtPoint, DirIsDurable
  <2>2. SchemaVersions' = SchemaVersions /\ origin' = origin
    BY <1>5 DEF RetireRecovery, FlushDatabases, SchemaVersions
  <2>3. \/ recovery = "committed" /\ SchemaVersions = CURRENT_VERSIONS
        \/ recovery = "rolled_back" /\ SchemaVersions = origin
    BY <2>1, SeenVersions
       DEF MigrationInv, PowerLossIsAtomic, OldOnDisk, NewOnDisk, Verdicts
  <2>4. QED
    BY <1>0, <2>1, <2>2, <2>3 DEF Face, Decided, CURRENT_VERSIONS
<1>6. CASE PowerLoss
  <2>1. recovery' \in recoveryDisk /\ origin' = origin
    BY <1>6 DEF PowerLoss
  <2>2. /\ OldOnDisk => OldOnDisk' /\ SchemaVersions' = origin /\ SchemaVersions = origin
        /\ NewOnDisk => NewOnDisk' /\ SchemaVersions' = CURRENT_VERSIONS
                        /\ SchemaVersions = CURRENT_VERSIONS
    BY <1>6 DEF PowerLoss, OldOnDisk, NewOnDisk, WholeOnDisk, CURRENT_VERSIONS, SchemaVersions,
         MigrationInv, SeenIsOnDisk
  <2>3. CASE recovery = recovery'
    <3>1. recovery = "none" => OldOnDisk \/ NewOnDisk
      BY DEF MigrationInv, SeenIsOnDisk, PowerLossIsAtomic, OldOnDisk, NewOnDisk
    <3>2. QED
      BY <2>1, <2>2, <2>3, <3>1, Unseen
  <2>4. CASE recovery = "pending" /\ recovery' # "pending"
    <3>1. OldOnDisk /\ ~NewOnDisk
      BY <2>1, <2>4, SeenVersions DEF MigrationInv, DirIsDurable
    <3>2. recovery' # "committed"
      BY <2>1, <3>1 DEF MigrationInv, PowerLossIsAtomic, NewOnDisk
    <3>3. QED
      BY <1>0, <2>1, <2>2, <2>4, <3>1, <3>2 DEF Face, Decided
  <2>5. CASE recovery \in Verdicts
    BY <2>1, <2>3, <2>5 DEF MigrationInv, DirIsDurable
  <2>6. CASE recovery = "none" /\ recovery' # "none"
    <3>1. recovery' \in Verdicts
      BY <2>1, <2>6 DEF MigrationInv, DirIsDurable, Types, Phases, Verdicts
    <3>2. \/ recovery' = "committed" /\ SchemaVersions = CURRENT_VERSIONS
          \/ recovery' = "rolled_back" /\ SchemaVersions = origin
      BY <2>1, <2>2, <3>1 DEF MigrationInv, PowerLossIsAtomic, OldOnDisk, NewOnDisk, Verdicts
    <3>3. QED
      BY <1>0, <2>1, <2>6, <3>2 DEF Face, Decided
  <2>7. QED
    BY <1>0, <2>3, <2>4, <2>5, <2>6 DEF Types, Phases, Verdicts
<1>7. QED
  BY <1>1, <1>2, <1>3, <1>4, <1>5, <1>6 DEF Next, Upgrade

(***************************************************************************)
(* The upgrade with its journal, snapshots, flushes and recoveries is an   *)
(* atomic one to whoever opens the workspace: the old pair, a refusal or   *)
(* the new pair, and never the old pair again once the journal is          *)
(* committed (migrations.py:174-209, database.py:34-39).                   *)
(***************************************************************************)
THEOREM UpgradeIsAtomic == Spec => Atomic!Safety
<1>1. Init => Atomic!Init
  <2> SUFFICES ASSUME Init PROVE Atomic!Init
    OBVIOUS
  <2>1. recovery = "none" /\ SchemaVersions = origin /\ origin # CURRENT_VERSIONS
    BY CurrentIsNotOld DEF Init, SchemaVersions, StateVersion, MIGRATABLE_VERSIONS
  <2>2. QED
    BY <2>1 DEF Atomic!Init, Face, Decided
<1>2. QED
  BY <1>1, StepRefines, MigrationInvariance, PTL DEF Spec, Atomic!Safety
=============================================================================
