------------------------------- MODULE Migration -------------------------------
(***************************************************************************)
(* The two-database schema upgrade and its crash recovery                  *)
(* (app/storage/migrations.py; the backup it takes first and the barrier   *)
(* it runs under are app/maintenance).  All of it happens under the launch *)
(* lock, so there is one actor; what interleaves with it are errors,       *)
(* process crashes and power losses, at every step.                        *)
(*                                                                         *)
(* A database write reaches the disk for certain only when it is flushed:  *)
(* corpusDisk, stateDisk and recoveryDisk are the sets of values a power   *)
(* loss may leave behind.                                                  *)
(***************************************************************************)
EXTENDS Naturals

CONSTANT MaxFaults  \* bound: errors, crashes and power losses per behaviour

ASSUME FaultsAssumption == MaxFaults \in Nat

VARIABLES
  corpus, corpusDisk,      \* schema of corpus.sqlite3
  state, stateDisk,        \* schema of state.sqlite3 and its maintenance flag
  manifest,                \* workspace.json: <<corpus, state>> versions
  recovery, recoveryDisk,  \* phase of .migration-recovery/journal.json, or "none"
  snap,                    \* the two snapshots in .migration-recovery
  origin,                  \* the versions the workspace had before any upgrade
  mode, pc,                \* the running operation and where it stands
  faults

databaseVars == <<corpus, corpusDisk, state, stateDisk>>
dirVars == <<recovery, recoveryDisk, snap>>
vars == <<databaseVars, dirVars, manifest, origin, mode, pc, faults>>

\* The state schema "1+tables": create_all has run, the version row still says 1.
StateVersion(s) == IF s.schema = "2" THEN 2 ELSE 1

CURRENT_VERSIONS == <<3, 2>>
MIGRATABLE_VERSIONS == {<<1, 1>>, <<1, 2>>, <<2, 1>>, <<2, 2>>, <<3, 1>>}
SchemaVersions == <<corpus, StateVersion(state)>>

Init ==
  /\ origin \in MIGRATABLE_VERSIONS
  /\ corpus = origin[1] /\ corpusDisk = {corpus}
  /\ state = [schema |-> IF origin[2] = 1 THEN "1" ELSE "2", flag |-> FALSE]
  /\ stateDisk = {state}
  /\ manifest = origin
  /\ recovery = "none" /\ recoveryDisk = {"none"}
  /\ snap = [corpus |-> corpus, state |-> state]
  /\ mode = "migrate" /\ pc = "idle"
  /\ faults = 0

-----------------------------------------------------------------------------
Step(from, to) == pc = from /\ pc' = to /\ UNCHANGED <<mode, faults>>

WriteCorpus(v) == corpus' = v /\ corpusDisk' = corpusDisk \cup {v}
WriteState(s) == state' = s /\ stateDisk' = stateDisk \cup {s}
WriteFlag(b) == WriteState([state EXCEPT !.flag = b])

\* _flush_databases: both databases checkpointed and synced.
FlushDatabases ==
  /\ corpusDisk' = {corpus} /\ stateDisk' = {state}
  /\ UNCHANGED <<corpus, state>>

\* _finish_journal: an atomic, synced rewrite of journal.json.
FinishJournal(phase) ==
  recovery' = phase /\ recoveryDisk' = {phase} /\ UNCHANGED snap

-----------------------------------------------------------------------------
(* migrate_workspace_locked *)

\* No recovery directory and a migratable pair: take the backup first, under
\* a barrier of its own.
BeginMigrate ==
  /\ recovery = "none"
  /\ SchemaVersions \in MIGRATABLE_VERSIONS
  /\ pc = "idle" /\ pc' = "backing_up" /\ mode' = "migrate"
  /\ WriteFlag(TRUE)
  /\ UNCHANGED <<corpus, corpusDisk, dirVars, manifest, origin, faults>>

BackUp ==
  /\ Step("backing_up", "backed_up")
  /\ WriteFlag(FALSE)
  /\ UNCHANGED <<corpus, corpusDisk, dirVars, manifest, origin>>

EnterBarrier ==
  /\ Step("backed_up", "entered")
  /\ WriteFlag(TRUE)
  /\ UNCHANGED <<corpus, corpusDisk, dirVars, manifest, origin>>

\* _prepare_recovery: snapshots and a pending journal, staged and renamed...
PublishRecovery ==
  /\ Step("entered", "published")
  /\ snap' = [corpus |-> corpus, state |-> state]
  /\ recovery' = "pending"
  /\ recoveryDisk' = recoveryDisk \cup {"pending"}
  /\ UNCHANGED <<databaseVars, manifest, origin>>

\* ... and the rename made durable before the first DDL statement.
SyncRecovery ==
  /\ Step("published", "migrating")
  /\ recoveryDisk' = {recovery}
  /\ UNCHANGED <<databaseVars, recovery, snap, manifest, origin>>

\* Each _migrate_* step is a transaction of its own; the state upgrade is two.
MigrateCorpus ==
  /\ Step("migrating", "migrating")
  /\ corpus < 3
  /\ WriteCorpus(corpus + 1)
  /\ UNCHANGED <<state, stateDisk, dirVars, manifest, origin>>

MigrateState ==
  /\ Step("migrating", "migrating")
  /\ corpus = 3
  /\ \/ state.schema = "1" /\ WriteState([state EXCEPT !.schema = "1+tables"])
     \/ state.schema = "1+tables" /\ WriteState([state EXCEPT !.schema = "2"])
  /\ UNCHANGED <<corpus, corpusDisk, dirVars, manifest, origin>>

WriteManifest ==
  /\ Step("migrating", "manifested")
  /\ SchemaVersions = CURRENT_VERSIONS
  /\ manifest' = CURRENT_VERSIONS
  /\ UNCHANGED <<databaseVars, dirVars, origin>>

\* Mutant: the journal is committed on unflushed databases.
FlushUpgradeSkipped ==
  /\ Step("manifested", "flushed")
  /\ UNCHANGED <<databaseVars, dirVars, manifest, origin>>

FlushUpgrade ==
  /\ Step("manifested", "flushed")
  /\ FlushDatabases
  /\ UNCHANGED <<dirVars, manifest, origin>>

CommitJournal ==
  /\ Step("flushed", "closing")
  /\ FinishJournal("committed")
  /\ UNCHANGED <<databaseVars, manifest, origin>>

-----------------------------------------------------------------------------
(* _restore_snapshots, shared by a failed migration and by recovery. Both   *)
(* snapshots are verified before either database is touched.                *)

RestoreCorpus ==
  /\ Step("restoring", "restored_corpus")
  /\ WriteCorpus(snap.corpus)
  /\ UNCHANGED <<state, stateDisk, dirVars, manifest, origin>>

RestoreState ==
  /\ Step("restored_corpus", "restored")
  /\ WriteState(snap.state)
  /\ UNCHANGED <<corpus, corpusDisk, dirVars, manifest, origin>>

\* The old manifest, a flush, and the journal's verdict.
RollBack ==
  /\ pc = "restored"
  /\ pc' = (IF mode = "migrate" THEN "closing" ELSE "checking")
  /\ manifest' = <<snap.corpus, StateVersion(snap.state)>>
  /\ FlushDatabases
  /\ FinishJournal("rolled_back")
  /\ UNCHANGED <<origin, mode, faults>>

-----------------------------------------------------------------------------
(* The finally clause: leave the barrier, then retire the recovery          *)
(* directory if the journal has reached a verdict.                          *)

LeaveBarrier ==
  /\ \/ Step("closing", "left")
     \/ Step("abandoning", "idle")
  /\ WriteFlag(FALSE)
  /\ UNCHANGED <<corpus, corpusDisk, dirVars, manifest, origin>>

\* _flush_databases, then _cleanup_recovery's rename...
RetireRecovery ==
  /\ Step("left", "retired")
  /\ FlushDatabases
  /\ recovery' = "none"
  /\ recoveryDisk' = recoveryDisk \cup {"none"}
  /\ UNCHANGED <<snap, manifest, origin>>

\* ... and its sync; deleting the renamed directory changes nothing any more.
SyncRetired ==
  /\ Step("retired", "idle")
  /\ recoveryDisk' = {"none"}
  /\ UNCHANGED <<databaseVars, recovery, snap, manifest, origin>>

-----------------------------------------------------------------------------
(* recover_workspace_locked *)

\* Mutant: recovery trusts a pending journal and keeps the databases.
BeginRecoverTrusting ==
  /\ recovery # "none"
  /\ pc = "idle" /\ pc' = "checking" /\ mode' = "recover"
  /\ UNCHANGED <<databaseVars, dirVars, manifest, origin, faults>>

BeginRecover ==
  /\ recovery # "none"
  /\ pc = "idle"
  /\ pc' = (IF recovery = "pending" THEN "restoring" ELSE "checking")
  /\ mode' = "recover"
  /\ UNCHANGED <<databaseVars, dirVars, manifest, origin, faults>>

\* What storage.versions() must be before recovery lets go.
ExpectedVersions ==
  IF recovery = "committed" THEN CURRENT_VERSIONS
  ELSE <<snap.corpus, StateVersion(snap.state)>>

\* Mutant: recovery leaves the flag the snapshot carried.
CheckVersionsKeepingFlag ==
  /\ Step("checking", "left")
  /\ SchemaVersions = ExpectedVersions
  /\ UNCHANGED <<databaseVars, dirVars, manifest, origin>>

CheckVersions ==
  /\ Step("checking", "left")
  /\ SchemaVersions = ExpectedVersions
  /\ WriteFlag(FALSE)
  /\ UNCHANGED <<corpus, corpusDisk, dirVars, manifest, origin>>

-----------------------------------------------------------------------------
(* Faults *)

Fault == faults < MaxFaults /\ faults' = faults + 1

\* An exception in the upgrade itself rolls back at once.
UpgradeFails ==
  /\ pc \in {"migrating", "manifested"}
  /\ pc' = "restoring"
  /\ Fault
  /\ UNCHANGED <<databaseVars, dirVars, manifest, origin, mode>>

\* An exception before the journal is in memory, in the restore, or in the
\* commit of the journal (whose rename may have happened): leave the barrier
\* and keep the recovery directory.
Abandon ==
  /\ mode = "migrate"
  /\ \/ /\ pc \in {"entered", "published", "restoring", "restored_corpus", "restored"}
        /\ UNCHANGED dirVars
     \/ /\ pc = "flushed"
        /\ FinishJournal("committed") \/ UNCHANGED dirVars
  /\ pc' = "abandoning"
  /\ Fault
  /\ UNCHANGED <<databaseVars, manifest, origin, mode>>

\* An exception anywhere else ends the operation, and a crash ends it anywhere.
Halt ==
  /\ pc # "idle"
  /\ pc' = "idle"
  /\ Fault
  /\ UNCHANGED <<databaseVars, dirVars, manifest, origin, mode>>

PowerLoss ==
  /\ pc' = "idle"
  /\ corpus' \in corpusDisk /\ corpusDisk' = {corpus'}
  /\ state' \in stateDisk /\ stateDisk' = {state'}
  /\ recovery' \in recoveryDisk /\ recoveryDisk' = {recovery'}
  /\ Fault
  /\ UNCHANGED <<snap, manifest, origin, mode>>

-----------------------------------------------------------------------------
Upgrade ==
  \/ BackUp \/ EnterBarrier \/ PublishRecovery \/ SyncRecovery
  \/ MigrateCorpus \/ MigrateState \/ WriteManifest \/ FlushUpgrade \/ CommitJournal
  \/ RestoreCorpus \/ RestoreState \/ RollBack
  \/ LeaveBarrier \/ RetireRecovery \/ SyncRetired
  \/ BeginRecover \/ CheckVersions

Next ==
  \/ BeginMigrate
  \/ Upgrade
  \/ UpgradeFails \/ Abandon \/ Halt \/ PowerLoss

\* A running operation goes on, and somebody reopens a workspace that needs
\* recovery (start_workspace recovers on every launch).  Nobody has to start
\* an upgrade.
Spec == Init /\ [][Next]_vars /\ WF_vars(Upgrade)

-----------------------------------------------------------------------------
(***************************************************************************)
(* At no moment can a power loss expose a half-upgraded workspace: whatever*)
(* combination of unflushed writes survives, either the recovery directory *)
(* survives too, or both databases are the original pair, or both are the  *)
(* current one; and a journal that has reached a verdict is only ever on   *)
(* disk with databases that agree with it (migrations.py:174-209,          *)
(* 270-343; docs/Updating.md:30-38).                                       *)
(***************************************************************************)
WholeOnDisk(vs) ==
  \A c \in corpusDisk, s \in stateDisk : <<c, StateVersion(s)>> \in vs

PowerLossIsAtomic ==
  /\ "none" \in recoveryDisk =>
       WholeOnDisk({origin}) \/ WholeOnDisk({CURRENT_VERSIONS})
  /\ "committed" \in recoveryDisk => WholeOnDisk({CURRENT_VERSIONS})
  /\ "rolled_back" \in recoveryDisk => WholeOnDisk({origin})

(***************************************************************************)
(* When the recovery directory goes away the workspace is ready for use:   *)
(* the manifest names the versions the databases have, and the maintenance *)
(* flag that the snapshots carry has been taken down again                 *)
(* (migrations.py:204-209, 377-393).                                       *)
(***************************************************************************)
ReadyWhenRetired ==
  pc = "retired" => /\ manifest = SchemaVersions
                    /\ \A s \in stateDisk : ~s.flag

(***************************************************************************)
(* The upgrade as an atomic one: what opening the workspace finds is the   *)
(* old pair, a refusal, or the new pair (LocalStorage.open refuses while   *)
(* the recovery directory exists, database.py:34-39), and a refusal does   *)
(* not last.                                                               *)
(***************************************************************************)
Face ==
  IF recovery # "none" THEN "blocked"
  ELSE IF SchemaVersions = CURRENT_VERSIONS THEN "new"
  ELSE IF SchemaVersions = origin THEN "old"
  ELSE "mixed"

Decided ==
  recovery = "committed" \/ (recovery = "none" /\ SchemaVersions = CURRENT_VERSIONS)

Atomic == INSTANCE AtomicUpgrade WITH face <- Face, decided <- Decided

RefinesAtomicUpgrade == Atomic!Spec
=============================================================================
