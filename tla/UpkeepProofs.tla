---------------------------- MODULE UpkeepProofs ----------------------------
(***************************************************************************)
(* Proofs about what keeps a workspace in order: restoring a backup,       *)
(* pruning, the property cache beside a backup, launching, and the         *)
(* settings.  The parts share no variable, so every theorem is of one      *)
(* part's own specification.                                               *)
(***************************************************************************)
EXTENDS WorkspaceRestore, Retention, WorkspaceCare, Launching, WorkspaceSettings,
        TLAPS

(***************************************************************************)
(* WorkspaceRestore.                                                       *)
(***************************************************************************)

\* A stage holds what the archive declared; from the moment it is flushed it
\* holds all of it under the identity of the destination, and what is renamed
\* is flushed, so that a power loss takes nothing of it.
StageIsSound ==
  /\ stage.files \subseteq Members \ damaged
  /\ stage.pc = "flush" => stage.files = Members /\ stage.owner = "destination"
RestoredIsDurable ==
  dest.exists => /\ dest.files = Members /\ dest.flushed = Members
                 /\ damaged = {} /\ dest.owner = "destination"
RestoreInv ==
  /\ stage \in [pc : {"idle", "copy", "flush"}, files : SUBSET Members,
                flushed : SUBSET Members, owner : {"archive", "destination"}]
  /\ dest \in [exists : BOOLEAN, files : SUBSET Members, flushed : SUBSET Members,
               owner : {"archive", "destination"}]
  /\ ~dest.exists => dest.files = {}
  /\ damaged \subseteq Members
  /\ StageIsSound
  /\ RestoredIsDurable

\* A restored workspace appears whole, undamaged and under its own identity,
\* or not at all, for every archive.
THEOREM RestoresAreWhole == Spec_Restore => []NoPartialRestore
<1> DEFINE S == [pc : {"idle", "copy", "flush"}, files : SUBSET Members,
                 flushed : SUBSET Members, owner : {"archive", "destination"}]
           D == [exists : BOOLEAN, files : SUBSET Members, flushed : SUBSET Members,
                 owner : {"archive", "destination"}]
<1>0. /\ NoStage \in S /\ NoStage.files = {} /\ NoStage.pc = "idle"
      /\ NoDest \in D /\ NoDest.files = {} /\ ~NoDest.exists
  BY DEF NoStage, NoDest
<1>1. Init_Restore => RestoreInv
  BY <1>0 DEF Init_Restore, RestoreInv, StageIsSound, RestoredIsDurable
<1>2. RestoreInv /\ [Next_Restore]_restoreVars => RestoreInv'
  <2> SUFFICES ASSUME RestoreInv, [Next_Restore]_restoreVars
               PROVE  RestoreInv'
    OBVIOUS
  <2>0. stage \in S /\ dest \in D
    BY DEF RestoreInv
  <2>1. CASE BeginRestore
    <3>1. /\ stage'.pc = "copy" /\ stage'.files = {} /\ stage' \in S
      BY <2>1 DEF BeginRestore, NoStage
    <3> QED BY <2>1, <3>1 DEF BeginRestore, RestoreInv, StageIsSound, RestoredIsDurable
  <2>2. ASSUME NEW m \in Members, CopyMember(m)
        PROVE  RestoreInv'
    <3>1. CASE m \in damaged
      BY <1>0, <2>2, <3>1 DEF CopyMember, RestoreInv, StageIsSound, RestoredIsDurable
    <3>2. CASE m \notin damaged
      <4>1. /\ stage'.pc = "copy" /\ stage'.files = stage.files \cup {m}
            /\ stage' \in S
        BY <2>0, <2>2, <3>2 DEF CopyMember
      <4> QED BY <2>2, <3>2, <4>1
              DEF CopyMember, RestoreInv, StageIsSound, RestoredIsDurable
    <3> QED BY <3>1, <3>2
  <2>3. CASE PrepareStage
    <3>1. CASE stage' = NoStage
      BY <1>0, <2>3, <3>1 DEF PrepareStage, RestoreInv, StageIsSound, RestoredIsDurable
    <3>2. CASE stage' = [stage EXCEPT !.pc = "flush", !.owner = "destination"]
      <4>1. /\ stage'.pc = "flush" /\ stage'.files = stage.files
            /\ stage'.owner = "destination" /\ stage' \in S
        BY <2>0, <3>2
      <4> QED BY <2>3, <4>1
              DEF PrepareStage, RestoreInv, StageIsSound, RestoredIsDurable
    <3> QED BY <2>3, <3>1, <3>2 DEF PrepareStage
  <2>4. ASSUME NEW m \in Members, FlushFile(m)
        PROVE  RestoreInv'
    <3>1. /\ stage'.pc = stage.pc /\ stage'.files = stage.files
          /\ stage'.owner = stage.owner /\ stage' \in S
      BY <2>0, <2>4 DEF FlushFile
    <3> QED BY <2>4, <3>1 DEF FlushFile, RestoreInv, StageIsSound, RestoredIsDurable
  <2>5. CASE RenameStage
    <3>1. /\ stage.files = Members /\ stage.flushed = Members
          /\ stage.owner = "destination" /\ damaged = {}
      BY <2>5 DEF RenameStage, RestoreInv, StageIsSound
    <3>2. dest' = [exists |-> TRUE, files |-> Members, flushed |-> Members,
                   owner |-> "destination"]
      BY <2>5, <3>1 DEF RenameStage
    <3>3. dest' \in D
      BY <3>2
    <3> QED BY <1>0, <2>5, <3>1, <3>2, <3>3
            DEF RenameStage, RestoreInv, StageIsSound, RestoredIsDurable
  <2>6. CASE LosePower
    <3>1. PICK lost \in SUBSET (dest.files \ dest.flushed) :
            dest' = [dest EXCEPT !.files = @ \ lost]
      BY <2>6 DEF LosePower
    <3>2. /\ dest' \in D /\ dest'.files = dest.files \ lost
          /\ dest'.exists = dest.exists /\ dest'.flushed = dest.flushed
          /\ dest'.owner = dest.owner
      BY <2>0, <3>1
    <3>3. stage' = NoStage /\ damaged' = damaged
      BY <2>6 DEF LosePower
    <3>4. RestoredIsDurable' /\ (~dest'.exists => dest'.files = {})
      BY <3>1, <3>2, <3>3 DEF RestoreInv, RestoredIsDurable
    <3> QED BY <1>0, <3>2, <3>3, <3>4 DEF RestoreInv, StageIsSound
  <2>7. CASE UNCHANGED restoreVars
    BY <2>7 DEF restoreVars, RestoreInv, StageIsSound, RestoredIsDurable
  <2> QED BY <2>1, <2>2, <2>3, <2>4, <2>5, <2>6, <2>7 DEF Next_Restore
<1>3. RestoreInv => NoPartialRestore
  BY DEF RestoreInv, RestoredIsDurable, NoPartialRestore
<1> QED BY <1>1, <1>2, <1>3, PTL DEF Spec_Restore

(***************************************************************************)
(* WorkspaceSettings.                                                      *)
(***************************************************************************)
SettingsRecords ==
  [profile : {"fake", "openai"}, override : Endpoints \cup {Packaged},
   check : {NoCheck} \cup {Fingerprint(e) : e \in Endpoints}, offline : BOOLEAN]

\* The check in a record of settings, whoever holds it and however old it is,
\* is the fingerprint of an endpoint that did answer.
Vouched(s, answered) ==
  /\ s \in SettingsRecords
  /\ s.check = NoCheck \/ \E e \in answered : s.check = Fingerprint(e)

SettingsInv ==
  /\ context \in [Processes -> SettingsRecords]
  /\ \A p \in Processes : Vouched(context[p], passed)
  /\ Vouched(config, passed)
  /\ Vouched(policy, passed)
  /\ OnlyCheckedEndpoints

\* What the settings endpoints and commands make of a record.
LEMMA VouchedChanges ==
  ASSUME NEW P, NEW s, Vouched(s, P)
  PROVE  /\ \A b \in BOOLEAN : Vouched([s EXCEPT !.offline = b], P)
         /\ \A b \in BOOLEAN : Vouched([s EXCEPT !.offline = @ \/ b], P)
         /\ \A id \in {"fake", "openai"} : Vouched([s EXCEPT !.profile = id], P)
         /\ \A e \in Endpoints \cup {Packaged} :
              Vouched([s EXCEPT !.override = e, !.check = NoCheck], P)
         /\ \A e \in P \cap Endpoints :
              Vouched([s EXCEPT !.check = Fingerprint(e)], P)
<1>0. s \in SettingsRecords
  BY DEF Vouched
<1>1. ASSUME NEW b \in BOOLEAN
      PROVE  Vouched([s EXCEPT !.offline = b], P)
  <2>1. /\ [s EXCEPT !.offline = b] \in SettingsRecords
        /\ [s EXCEPT !.offline = b].check = s.check
    BY <1>0 DEF SettingsRecords
  <2> QED BY <2>1 DEF Vouched
<1>2. ASSUME NEW b \in BOOLEAN
      PROVE  Vouched([s EXCEPT !.offline = @ \/ b], P)
  <2>1. /\ [s EXCEPT !.offline = @ \/ b] \in SettingsRecords
        /\ [s EXCEPT !.offline = @ \/ b].check = s.check
    BY <1>0 DEF SettingsRecords
  <2> QED BY <2>1 DEF Vouched
<1>3. ASSUME NEW id \in {"fake", "openai"}
      PROVE  Vouched([s EXCEPT !.profile = id], P)
  <2>1. /\ [s EXCEPT !.profile = id] \in SettingsRecords
        /\ [s EXCEPT !.profile = id].check = s.check
    BY <1>0 DEF SettingsRecords
  <2> QED BY <2>1 DEF Vouched
<1>4. ASSUME NEW e \in Endpoints \cup {Packaged}
      PROVE  Vouched([s EXCEPT !.override = e, !.check = NoCheck], P)
  <2>1. /\ [s EXCEPT !.override = e, !.check = NoCheck] \in SettingsRecords
        /\ [s EXCEPT !.override = e, !.check = NoCheck].check = NoCheck
    BY <1>0 DEF SettingsRecords
  <2> QED BY <2>1 DEF Vouched
<1>5. ASSUME NEW e \in P \cap Endpoints
      PROVE  Vouched([s EXCEPT !.check = Fingerprint(e)], P)
  <2>1. /\ [s EXCEPT !.check = Fingerprint(e)] \in SettingsRecords
        /\ [s EXCEPT !.check = Fingerprint(e)].check = Fingerprint(e)
    BY <1>0 DEF SettingsRecords
  <2> QED BY <2>1 DEF Vouched
<1> QED BY <1>1, <1>2, <1>3, <1>4, <1>5

\* A step that writes vouched records and sends to nobody.
LEMMA SettingsMove ==
  ASSUME SettingsInv, NEW p \in Processes, NEW s, Vouched(s, passed'),
         \/ UNCHANGED context
         \/ context' = [context EXCEPT ![p] = s],
         Vouched(config', passed') \/ UNCHANGED config,
         Vouched(policy', passed') \/ UNCHANGED policy,
         passed \subseteq passed', UNCHANGED sentTo
  PROVE  SettingsInv'
<1>1. \A t : Vouched(t, passed) => Vouched(t, passed')
  BY DEF Vouched
<1>2. s \in SettingsRecords
  BY DEF Vouched
<1>3. context' \in [Processes -> SettingsRecords]
  BY <1>2 DEF SettingsInv
<1>4. \A q \in Processes : Vouched(context'[q], passed')
  BY <1>1 DEF SettingsInv
<1>5. OnlyCheckedEndpoints'
  BY DEF SettingsInv, OnlyCheckedEndpoints
<1> QED BY <1>1, <1>3, <1>4, <1>5 DEF SettingsInv

\* Questions and passages only go to custom endpoints that answered a check of
\* their own, whatever stale record a process writes back.
THEOREM EndpointsAreChecked == Spec_Settings => []OnlyCheckedEndpoints
<1>0. \A P : Vouched(Defaults, P)
  <2>1. Defaults \in SettingsRecords /\ Defaults.check = NoCheck
    BY DEF Defaults, SettingsRecords
  <2> QED BY <2>1 DEF Vouched
<1>1. Init_Settings => SettingsInv
  <2> SUFFICES ASSUME Init_Settings PROVE SettingsInv
    OBVIOUS
  <2>1. Vouched(config, passed)
    <3>1. CASE config = Defaults
      BY <1>0, <3>1
    <3>2. ASSUME NEW e \in Endpoints,
                 config = [Defaults EXCEPT !.profile = "openai", !.override = e]
          PROVE  Vouched(config, passed)
      <4>1. config \in SettingsRecords /\ config.check = NoCheck
        BY <3>2 DEF Defaults, SettingsRecords
      <4> QED BY <4>1 DEF Vouched
    <3> QED BY <3>1, <3>2 DEF Init_Settings
  <2>2. Defaults \in SettingsRecords
    BY <1>0 DEF Vouched
  <2> QED BY <1>0, <2>1, <2>2 DEF Init_Settings, SettingsInv, OnlyCheckedEndpoints
<1>2. SettingsInv /\ [Next_Settings]_settingsVars => SettingsInv'
  <2> SUFFICES ASSUME SettingsInv, [Next_Settings]_settingsVars
               PROVE  SettingsInv'
    OBVIOUS
  <2>0. /\ \A p \in Processes : Vouched(context[p], passed)
        /\ Vouched(config, passed) /\ Vouched(policy, passed)
        /\ Web \in Processes /\ Commands \subseteq Processes
        /\ context \in [Processes -> SettingsRecords]
    BY DEF SettingsInv, Processes
  <2>1. \A flag \in BOOLEAN : Vouched(Loaded(flag), passed)
    BY <2>0, VouchedChanges DEF Loaded
  <2>2. ASSUME NEW flag \in BOOLEAN, StartWeb(flag)
        PROVE  SettingsInv'
    BY <2>0, <2>1, <2>2, SettingsMove DEF StartWeb, Opens
  <2>3. CASE StopWeb
    BY <1>0, <2>0, <2>3, SettingsMove DEF StopWeb, Exits
  <2>4. ASSUME NEW asked \in {"other field", "offline", "online"}, UpdateSettings(asked)
        PROVE  SettingsInv'
    <3> DEFINE c == IF asked = "other field" THEN context[Web]
                    ELSE [context[Web] EXCEPT !.offline = (asked = "offline")]
    <3>1. Vouched(c, passed)
      BY <2>0, VouchedChanges
    <3>2. /\ config' = c /\ policy' = c /\ context' = [context EXCEPT ![Web] = c]
          /\ UNCHANGED <<passed, sentTo>>
      BY <2>4 DEF UpdateSettings, Save
    <3> HIDE DEF c
    <3> QED BY <2>0, <3>1, <3>2, SettingsMove
  <2>5. ASSUME NEW store \in Stores, NEW slot \in Slots, ReplaceCredential(store, slot)
        PROVE  SettingsInv'
    <3>1. Vouched(Activated(context[Web]), passed)
      BY <2>0, VouchedChanges DEF Activated
    <3>2. /\ \/ UNCHANGED <<config, context>>
             \/ /\ config' = Activated(context[Web])
                /\ context' = [context EXCEPT ![Web] = Activated(context[Web])]
          /\ UNCHANGED <<policy, passed, sentTo>>
      BY <2>5 DEF ReplaceCredential, Save
    <3> QED BY <2>0, <3>1, <3>2, SettingsMove
  <2>6. ASSUME NEW p \in Commands, NEW flag \in BOOLEAN,
               BeginCommand(p, flag) \/ BeginSetup(p, flag)
        PROVE  SettingsInv'
    BY <2>0, <2>1, <2>6, SettingsMove DEF BeginCommand, BeginSetup, Opens, Save
  <2>7. ASSUME NEW p \in Commands, NEW store \in Stores, Setup(p, store)
        PROVE  SettingsInv'
    <3>1. Vouched(Activated(context[p]), passed)
      BY <2>0, VouchedChanges DEF Activated
    <3> QED BY <1>0, <2>0, <2>7, <3>1, SettingsMove DEF Setup, Save, Exits
  <2>8. ASSUME NEW p \in Commands, NEW store \in Stores, NEW slot \in Slots,
               SetCredential(p, store, slot) \/ DeleteCredential(p, store, slot)
        PROVE  SettingsInv'
    BY <1>0, <2>0, <2>8, SettingsMove DEF SetCredential, DeleteCredential, Exits
  <2>9. ASSUME NEW p \in Commands, NEW s, Vouched(s, passed), SaveAndExit(p, s)
        PROVE  SettingsInv'
    BY <1>0, <2>0, <2>9, SettingsMove DEF SaveAndExit, Save, Exits
  <2>10. ASSUME NEW p \in Commands, NEW id \in {"fake", "openai"}, SelectProfile(p, id)
         PROVE  SettingsInv'
    BY <2>0, <2>9, <2>10, VouchedChanges DEF SelectProfile
  <2>11. ASSUME NEW p \in Commands, NEW e \in Endpoints, ConfigureEndpoint(p, e)
         PROVE  SettingsInv'
    BY <2>0, <2>9, <2>11, VouchedChanges DEF ConfigureEndpoint
  <2>12. ASSUME NEW p \in Commands, ClearEndpoint(p)
         PROVE  SettingsInv'
    <3> DEFINE s == IF context[p].profile = "fake" THEN context[p]
                    ELSE [context[p] EXCEPT !.override = Packaged, !.check = NoCheck]
    <3>1. Vouched(s, passed)
      BY <2>0, VouchedChanges
    <3>2. SaveAndExit(p, s)
      BY <2>12 DEF ClearEndpoint
    <3> QED BY <2>9, <3>1, <3>2
  <2>13. ASSUME NEW p \in Commands, CheckProfile(p)
         PROVE  SettingsInv'
    <3> DEFINE e == context[p].override
    <3>1. /\ e # Packaged /\ passed' = passed \cup {e}
          /\ config' = [context[p] EXCEPT !.check = Fingerprint(e)]
          /\ context' = [context EXCEPT ![p] = Defaults]
          /\ UNCHANGED <<policy, sentTo>>
      BY <2>13 DEF CheckProfile, Answers, Save, Exits
    <3>2. e \in Endpoints
      BY <2>0, <3>1 DEF Vouched, SettingsRecords
    <3>3. Vouched(context[p], passed')
      BY <2>0, <3>1 DEF Vouched
    <3>4. Vouched(config', passed')
      BY <3>1, <3>2, <3>3, VouchedChanges
    <3> QED BY <1>0, <2>0, <3>1, <3>4, SettingsMove
  <2>14. ASSUME NEW p \in Commands, CommandEnds(p)
         PROVE  SettingsInv'
    BY <1>0, <2>0, <2>14, SettingsMove DEF CommandEnds, Exits
  <2>15. ASSUME NEW p \in Processes, Dispatch(p)
         PROVE  SettingsInv'
    <3>1. PICK s : /\ Vouched(s, passed) /\ Verified(s)
                   /\ sentTo' = sentTo \cup {s.override}
      BY <2>0, <2>15 DEF Dispatch
    <3>2. s.override \in passed \cup {Packaged}
      BY <3>1 DEF Vouched, Verified, Fingerprint, NoCheck
    <3>3. /\ UNCHANGED <<config, policy, passed>>
          /\ UNCHANGED context \/ context' = [context EXCEPT ![p] = Defaults]
      BY <2>15 DEF Dispatch, Exits
    <3>4. /\ context' \in [Processes -> SettingsRecords]
          /\ \A q \in Processes : Vouched(context'[q], passed)
      BY <1>0, <2>0, <3>3 DEF Vouched
    <3> QED BY <3>1, <3>2, <3>3, <3>4 DEF SettingsInv, OnlyCheckedEndpoints
  <2>16. CASE UNCHANGED settingsVars
    BY <2>16 DEF settingsVars, SettingsInv, OnlyCheckedEndpoints
  <2> QED BY <2>2, <2>3, <2>4, <2>5, <2>6, <2>7, <2>8, <2>10, <2>11, <2>12, <2>13,
             <2>14, <2>15, <2>16 DEF Next_Settings
<1>3. SettingsInv => OnlyCheckedEndpoints
  BY DEF SettingsInv
<1> QED BY <1>1, <1>2, <1>3, PTL DEF Spec_Settings

(***************************************************************************)
(* Launching.                                                              *)
(***************************************************************************)

\* The stages of the bootstrap thread that need the launch locks.
Migrating == Upgrading \cup {"recovering", "restoring", "locking", "selecting"}

LaunchTypes ==
  /\ owner \in [Folders -> {"nobody", "desktop", "terminal"}]
  /\ workspace \in Folders /\ last \in Folders

\* Once the window is closed the event is set for good.
WindingUp == main \in {"stopping", "joining", "stopped", "waiting", "closing"} => cancelled

\* The two events tell the truth about the bootstrap thread.
EventsAreTrue ==
  /\ boot \notin {"pending", "done"} => started
  /\ done => boot = "done"

\* When the locks go the bootstrap thread is over, or has yet to begin and will
\* find the event set.
LocksGoLast ==
  main \in {"idle", "closing", "exited"} =>
    /\ boot \notin Migrating
    /\ boot # "done" => cancelled

\* The main thread holds the locks from launch to exit; the terminal has its own.
LocksAreHeld ==
  /\ main \notin {"idle", "exited"} => owner[1] = "desktop" /\ owner[workspace] = "desktop"
  /\ terminal # "idle" => owner[1] = "terminal"

\* A copy is only begun where there is room for one more.
CopyHasRoom == boot \in {"yesCopy", "restoring", "locking"} => workspace < MaxLinks + 1

LaunchInv ==
  LaunchTypes /\ WindingUp /\ EventsAreTrue /\ LocksGoLast /\ LocksAreHeld /\ CopyHasRoom

\* The steps of the bootstrap thread that leave the locks alone.
LEMMA BootMoves ==
  ASSUME LaunchInv, UNCHANGED <<owner, workspace, main, cancelled, started, terminal>>,
         last' = last \/ last' = workspace,
         boot # "pending", boot # "done", done' = (boot' = "done"),
         boot' \in Migrating => boot \in Migrating \/ ~cancelled,
         boot' \in {"yesCopy", "restoring", "locking"} => workspace < MaxLinks + 1
  PROVE  LaunchInv'
<1>1. LaunchTypes' /\ WindingUp' /\ LocksAreHeld' /\ CopyHasRoom'
  BY DEF LaunchInv, LaunchTypes, WindingUp, LocksAreHeld, CopyHasRoom
<1>2. EventsAreTrue'
  BY DEF LaunchInv, EventsAreTrue
<1>3. LocksGoLast'
  BY DEF LaunchInv, LocksGoLast
<1> QED BY <1>1, <1>2, <1>3 DEF LaunchInv

\* While the bootstrap thread recovers, upgrades or copies a workspace, the
\* application holds its locks and no terminal is inside, for any number of
\* copies and launches.
THEOREM MigrationsAreOwned == Spec_Launching => []MigrationOwnsWorkspace
<1>0. 1 \in Folders
  BY LaunchAssumption DEF Folders
<1>1. Init_Launching => LaunchInv
  BY <1>0 DEF Init_Launching, LaunchInv, LaunchTypes, WindingUp, EventsAreTrue,
     LocksGoLast, LocksAreHeld, CopyHasRoom, Migrating, Upgrading
<1>2. LaunchInv /\ [Next_Launching]_launchVars => LaunchInv'
  <2> SUFFICES ASSUME LaunchInv, [Next_Launching]_launchVars
               PROVE  LaunchInv'
    OBVIOUS
  <2>0. /\ owner \in [Folders -> {"nobody", "desktop", "terminal"}]
        /\ workspace \in Folders /\ last \in Folders
    BY DEF LaunchInv, LaunchTypes
  <2>1. CASE Launch
    <3>1. /\ owner'[1] = "desktop" /\ owner'[last] = "desktop"
          /\ owner' \in [Folders -> {"nobody", "desktop", "terminal"}]
          /\ owner[1] = "nobody"
      BY <1>0, <2>0, <2>1, LaunchAssumption DEF Launch, SelectRecovered, Folders
    <3>2. /\ main' = "window" /\ boot' = "pending" /\ ~done' /\ workspace' = last
          /\ UNCHANGED <<last, terminal>>
      BY <2>1 DEF Launch, SelectRecovered
    <3> QED BY <2>0, <3>1, <3>2 DEF LaunchInv, LaunchTypes, WindingUp, EventsAreTrue,
            LocksGoLast, LocksAreHeld, CopyHasRoom
  <2>2. CASE CloseWindow
    BY <2>2 DEF CloseWindow, Main, bootVars, LaunchInv, LaunchTypes, WindingUp,
       EventsAreTrue, LocksGoLast, LocksAreHeld, CopyHasRoom
  <2>3. CASE StopRuntime \/ JoinServer
    <3>1. /\ main \in {"stopping", "joining"} /\ main' \in {"joining", "stopped"}
          /\ UNCHANGED <<owner, cancelled, last, terminal, bootVars>>
      BY <2>3 DEF StopRuntime, JoinServer, Main
    <3> QED BY <3>1 DEF bootVars, LaunchInv, LaunchTypes, WindingUp,
            EventsAreTrue, LocksGoLast, LocksAreHeld, CopyHasRoom
  <2>4. CASE LookAtBootstrap \/ WaitForBootstrap
    <3>1. /\ main \in {"stopped", "waiting"}
          /\ main' = "waiting" \/ (main' = "closing" /\ (done \/ ~started))
          /\ UNCHANGED <<owner, cancelled, last, terminal, bootVars>>
      BY <2>4 DEF LookAtBootstrap, WaitForBootstrap, Main
    <3>2. cancelled /\ (done \/ ~started => boot \in {"pending", "done"})
      BY <3>1 DEF LaunchInv, WindingUp, EventsAreTrue
    <3>3. LocksGoLast'
      BY <3>1, <3>2 DEF bootVars, LocksGoLast, Migrating, Upgrading
    <3> QED BY <3>1, <3>2, <3>3 DEF bootVars, LaunchInv, LaunchTypes, WindingUp,
            EventsAreTrue, LocksAreHeld, CopyHasRoom
  <2>5. CASE CloseLocks \/ Crash
    <3>1. /\ main' = "exited" /\ owner' = Freed
          /\ UNCHANGED <<cancelled, started, workspace, last, terminal>>
          /\ \/ main = "closing" /\ UNCHANGED <<boot, done>>
             \/ boot' = "done" /\ done'
      BY <2>5 DEF CloseLocks, Crash, Main, bootVars
    <3>2. /\ owner' \in [Folders -> {"nobody", "desktop", "terminal"}]
          /\ owner[1] = "terminal" => owner'[1] = "terminal"
      BY <1>0, <2>0, <3>1 DEF Freed
    <3>3. LocksGoLast' /\ CopyHasRoom'
      BY <3>1 DEF LaunchInv, LocksGoLast, CopyHasRoom, Migrating, Upgrading
    <3> QED BY <3>1, <3>2, <3>3 DEF LaunchInv, LaunchTypes, WindingUp,
            EventsAreTrue, LocksAreHeld
  <2>6. CASE BootstrapBegins
    <3>1. /\ boot = "pending" /\ boot' = "preparing" /\ started'
          /\ UNCHANGED <<done, main, cancelled, owner, workspace, last, terminal>>
      BY <2>6 DEF BootstrapBegins, mainVars, Leaves
    <3>2. LocksGoLast' /\ CopyHasRoom'
      BY <3>1 DEF LaunchInv, LocksGoLast, CopyHasRoom, Migrating, Upgrading
    <3> QED BY <3>1, <3>2 DEF LaunchInv, LaunchTypes, WindingUp,
            EventsAreTrue, LocksAreHeld
  <2>7. CASE CopyLocked
    <3>1. /\ boot = "locking" /\ boot' = "upgradingCopy" /\ ~done'
          /\ UNCHANGED <<started, main, cancelled, last, terminal>>
          /\ owner' = [owner EXCEPT ![workspace + 1] = "desktop"]
          /\ workspace' = workspace + 1
      BY <2>7 DEF CopyLocked, Boot, mainVars
    <3>2. /\ main \notin {"idle", "closing", "exited"} /\ owner[1] = "desktop"
          /\ workspace < MaxLinks + 1
      BY <3>1 DEF LaunchInv, LocksGoLast, LocksAreHeld, CopyHasRoom, Migrating
    <3>3. workspace + 1 \in Folders /\ workspace + 1 # 1
      BY <2>0, <3>2, LaunchAssumption DEF Folders
    <3>4. /\ owner' \in [Folders -> {"nobody", "desktop", "terminal"}]
          /\ owner'[1] = "desktop" /\ owner'[workspace'] = "desktop"
      BY <1>0, <2>0, <3>1, <3>2, <3>3
    <3> QED BY <2>0, <3>1, <3>2, <3>3, <3>4 DEF LaunchInv, LaunchTypes, WindingUp,
            EventsAreTrue, LocksGoLast, LocksAreHeld, CopyHasRoom
  <2>8. CASE Prepare \/ PrepareAgain
    <3>1. boot \in {"preparing", "repaired"}
          /\ boot' \in {"prepared", "askRecovery", "askUpgrade", "done"}
      BY <2>8 DEF Prepare, PrepareAgain, Boot
    <3>2. /\ UNCHANGED <<owner, workspace, main, cancelled, started, terminal, last>>
          /\ done' = (boot' = "done")
      BY <2>8 DEF Prepare, PrepareAgain, Boot, mainVars, Leaves
    <3> QED BY <3>1, <3>2, BootMoves DEF Migrating, Upgrading
  <2>9. ASSUME NEW q \in Questions,
               DialogOpens(q) \/ DialogRefused(q) \/ Declines(q) \/ Confirms(q)
        PROVE  LaunchInv'
    <3>1. /\ UNCHANGED <<owner, workspace, main, cancelled, started, terminal, last>>
          /\ done' = (boot' = "done")
      BY <2>9 DEF DialogOpens, DialogRefused, Declines, Confirms, Boot, mainVars, Leaves
    <3>2. boot \in {"askRecovery", "askUpgrade", "askCopy", "yesRecovery",
                    "yesUpgrade", "yesCopy"}
      BY <2>9 DEF DialogOpens, DialogRefused, Declines, Confirms, Boot, Questions,
         Asks, Confirmed
    <3>3. boot' \in Migrating => ~cancelled
      BY <2>9 DEF DialogOpens, DialogRefused, Declines, Confirms, Boot, Questions,
         Confirmed, Migrating, Upgrading
    <3>4. boot' \in {"yesCopy", "restoring", "locking"} => workspace < MaxLinks + 1
      <4>1. CASE DialogOpens(q)
        BY <4>1 DEF DialogOpens, Boot, Questions, Confirmed, Offered
      <4>2. CASE DialogRefused(q) \/ Declines(q)
        BY <4>2 DEF DialogRefused, Declines, Boot
      <4>3. CASE Confirms(q)
        BY <4>3 DEF Confirms, Boot, Questions, Confirmed, Doing, LaunchInv, CopyHasRoom
      <4> QED BY <2>9, <4>1, <4>2, <4>3
    <3> QED BY <3>1, <3>2, <3>3, <3>4, BootMoves
  <2>10. ASSUME NEW c \in Outcomes,
                UpgradeEnds(c) \/ RecoveryEnds(c) \/ CopyUpgraded(c)
         PROVE  LaunchInv'
    <3>1. /\ UNCHANGED <<owner, workspace, main, cancelled, started, terminal, last>>
          /\ done' = (boot' = "done")
      BY <2>10 DEF UpgradeEnds, RecoveryEnds, CopyUpgraded, Boot, mainVars
    <3>2. /\ boot \in {"upgrading", "recovering", "upgradingCopy"}
          /\ boot' \in {"repaired", "done", "askCopy", "askUpgrade", "selecting"}
      BY <2>10 DEF UpgradeEnds, RecoveryEnds, CopyUpgraded, Boot
    <3> QED BY <3>1, <3>2, BootMoves DEF Migrating, Upgrading
  <2>11. CASE CopyRestored
    <3>1. /\ UNCHANGED <<owner, workspace, main, cancelled, started, terminal, last>>
          /\ boot = "restoring" /\ boot' = "locking" /\ done' = (boot' = "done")
      BY <2>11 DEF CopyRestored, Boot, mainVars
    <3>2. workspace < MaxLinks + 1
      BY <3>1 DEF LaunchInv, CopyHasRoom
    <3> QED BY <3>1, <3>2, BootMoves DEF Migrating
  <2>12. CASE CopySelected
    <3>1. /\ UNCHANGED <<owner, workspace, main, cancelled, started, terminal>>
          /\ last' = workspace
          /\ boot = "selecting" /\ boot' = "repaired" /\ done' = (boot' = "done")
      BY <2>12 DEF CopySelected, Boot, mainVars
    <3> QED BY <3>1, BootMoves DEF Migrating
  <2>13. ASSUME \/ EnterServer \/ PublishRuntime \/ TakeBack \/ PassCheck \/ PrepareSources
                \/ \E ready \in BOOLEAN : StartBackground(ready)
                \/ \E l \in {"installed", "unfinished"} : SourcesEnd(l)
         PROVE  LaunchInv'
    <3>1. /\ UNCHANGED <<owner, workspace, main, cancelled, started, terminal, last>>
          /\ done' = (boot' = "done")
      BY <2>13 DEF EnterServer, PublishRuntime, TakeBack, PassCheck, StartBackground,
         PrepareSources, SourcesEnd, Boot, mainVars, Leaves
    <3>2. /\ boot \in {"prepared", "entered", "published", "starting", "loaded", "sources"}
          /\ boot' \in {"done", "entered", "published", "starting", "loaded", "sources"}
      BY <2>13 DEF EnterServer, PublishRuntime, TakeBack, PassCheck, StartBackground,
         PrepareSources, SourcesEnd, Boot
    <3> QED BY <3>1, <3>2, BootMoves DEF Migrating, Upgrading
  <2>14. CASE ServerEnds
    BY <2>14 DEF ServerEnds, mainVars, bootVars, LaunchInv, LaunchTypes, WindingUp,
       EventsAreTrue, LocksGoLast, LocksAreHeld, CopyHasRoom
  <2>15. ASSUME \/ TerminalLocks \/ TerminalPrepares
                \/ \E c \in Outcomes \cup {"new", "unsupported"} : TerminalRecovers(c)
                \/ \E l \in {"none", "installed", "unfinished"} : TerminalServes(l)
                \/ \E from \in {"locked", "recovered", "prepared", "serving"} :
                     TerminalLeaves(from)
         PROVE  LaunchInv'
    <3>1. UNCHANGED <<last, mainVars, bootVars>>
      BY <2>15 DEF TerminalLocks, TerminalPrepares, TerminalRecovers, TerminalServes,
         TerminalLeaves, Terminal
    <3>2. \/ terminal # "idle" /\ UNCHANGED owner
          \/ owner[1] = "nobody" /\ owner' = [owner EXCEPT ![1] = "terminal"]
          \/ /\ terminal # "idle" /\ terminal' = "idle"
             /\ owner' = [owner EXCEPT ![1] = "nobody"]
      BY <2>15 DEF TerminalLocks, TerminalPrepares, TerminalRecovers, TerminalServes,
         TerminalLeaves, Terminal
    <3>3. /\ owner' \in [Folders -> {"nobody", "desktop", "terminal"}]
          /\ LocksAreHeld'
      BY <1>0, <2>0, <3>1, <3>2 DEF LaunchInv, LocksAreHeld, mainVars, bootVars
    <3> QED BY <2>0, <3>1, <3>3 DEF LaunchInv, LaunchTypes, WindingUp, EventsAreTrue,
            LocksGoLast, CopyHasRoom, mainVars, bootVars
  <2>16. CASE UNCHANGED launchVars
    BY <2>16 DEF launchVars, mainVars, bootVars, LaunchInv, LaunchTypes, WindingUp,
       EventsAreTrue, LocksGoLast, LocksAreHeld, CopyHasRoom
  <2> QED BY <2>1, <2>2, <2>3, <2>4, <2>5, <2>6, <2>7, <2>8, <2>9, <2>10, <2>11, <2>12,
             <2>13, <2>14, <2>15, <2>16 DEF Next_Launching
<1>3. LaunchInv => MigrationOwnsWorkspace
  BY <1>0 DEF LaunchInv, LocksGoLast, LocksAreHeld, MigrationOwnsWorkspace, Migrating
<1> QED BY <1>1, <1>2, <1>3, PTL DEF Spec_Launching

(***************************************************************************)
(* Retention: usage history.                                               *)
(***************************************************************************)
AttemptRows == [made : Nat, last : Nat, status : {"none", "reserved", "settled", "uncertain"}]

\* What a pruning plans to delete is resolved for good and ended before the
\* cutoff it records, although the month and the period may move on meanwhile.
PlannedIsOld ==
  prune.pc = "rows" =>
    \A a \in prune.usage : usage[a].status = "settled" /\ usage[a].last < prune.cutoff

HistoryInv ==
  /\ usage \in [UsageAttempts -> AttemptRows]
  /\ month \in Nat /\ period \in Nat /\ floor \in Int
  /\ prune \in [pc : {"idle", "rows", "files"}, rows : SUBSET Uploads,
                files : SUBSET Uploads, usage : SUBSET UsageAttempts, cutoff : Int]
  /\ \A d \in dropped : d.last \in Nat
  /\ PlannedIsOld
  /\ HistoryAboveFloorIsWhole

\* The recorded floor is honest: every attempt that ended in its month or later
\* is still in the history, for all periods and orders of prunings, wherever
\* the clock was put in between.
THEOREM HistoryIsWhole == Spec_Retention => []HistoryAboveFloorIsWhole
<1> DEFINE P == [pc : {"idle", "rows", "files"}, rows : SUBSET Uploads,
                 files : SUBSET Uploads, usage : SUBSET UsageAttempts, cutoff : Int]
<1>0. /\ NotPruning \in P /\ NotPruning.pc = "idle" /\ NoAttempt \in AttemptRows
  BY DEF NotPruning, NoAttempt, AttemptRows
<1>1. Init_Retention => HistoryInv
  BY <1>0, RetentionAssumption DEF Init_Retention, HistoryInv, PlannedIsOld,
     HistoryAboveFloorIsWhole
<1>2. HistoryInv /\ [Next_Retention]_retentionVars => HistoryInv'
  <2> SUFFICES ASSUME HistoryInv, [Next_Retention]_retentionVars
               PROVE  HistoryInv'
    OBVIOUS
  <2>0. /\ usage \in [UsageAttempts -> AttemptRows] /\ prune \in P
        /\ month \in Nat /\ period \in Nat /\ floor \in Int
    BY DEF HistoryInv
  <2>1. CASE UNCHANGED usageVars /\ UNCHANGED prune
    BY <2>1 DEF usageVars, HistoryInv, PlannedIsOld, HistoryAboveFloorIsWhole
  <2>2. ASSUME NEW a \in UsageAttempts, ReserveUsage(a)
        PROVE  HistoryInv'
    <3> DEFINE r == [made |-> month, last |-> month, status |-> "reserved"]
    <3>1. r \in AttemptRows
      BY <2>0 DEF AttemptRows
    <3>2. /\ usage' = [usage EXCEPT ![a] = r] /\ prune.pc = "idle"
          /\ UNCHANGED <<prune, dropped, month, period, floor>>
      BY <2>2 DEF ReserveUsage
    <3> HIDE DEF r
    <3> QED BY <2>0, <3>1, <3>2 DEF HistoryInv, PlannedIsOld, HistoryAboveFloorIsWhole
  <2>3. ASSUME NEW a \in UsageAttempts, NEW s \in {"settled", "uncertain"},
               ResolveUsage(a, s)
        PROVE  HistoryInv'
    <3> DEFINE r == [usage[a] EXCEPT !.last = IF @ > month THEN @ ELSE month, !.status = s]
    <3>1. r \in AttemptRows
      BY <2>0 DEF AttemptRows
    <3>2. /\ usage' = [usage EXCEPT ![a] = r] /\ usage[a].status # "settled"
          /\ UNCHANGED <<prune, dropped, month, period, floor>>
      BY <2>0, <2>3 DEF ResolveUsage
    <3> HIDE DEF r
    <3>3. PlannedIsOld'
      BY <2>0, <3>2 DEF HistoryInv, PlannedIsOld
    <3> QED BY <2>0, <3>1, <3>2, <3>3 DEF HistoryInv, HistoryAboveFloorIsWhole
  <2>4. ASSUME NEW m \in 1..LastMonth, ClockMoves(m) PROVE HistoryInv'
    BY <2>0, <2>4, RetentionAssumption
       DEF ClockMoves, HistoryInv, PlannedIsOld, HistoryAboveFloorIsWhole
  <2>5. ASSUME NEW n \in Periods, SetPeriod(n)
        PROVE  HistoryInv'
    BY <2>5, RetentionAssumption DEF SetPeriod, HistoryInv, PlannedIsOld,
       HistoryAboveFloorIsWhole
  <2>6. CASE PlanRetention
    <3> DEFINE p == [pc |-> "rows",
               rows |-> {u \in Uploads : sjob[u].state \in Finished /\ sjob[u].aged},
               files |-> {u \in Unprotected : staged[u] = "old"},
               usage |-> PrunableUsage, cutoff |-> UsageCutoff]
    <3>0. UsageCutoff \in Int /\ PrunableUsage \subseteq UsageAttempts
          /\ Unprotected \subseteq Uploads
      BY <2>0 DEF UsageCutoff, PrunableUsage, Unprotected
    <3>1. prune' = p /\ UNCHANGED usageVars
      BY <2>6 DEF PlanRetention
    <3>2. p \in P /\ p.usage = PrunableUsage /\ p.cutoff = UsageCutoff
      BY <3>0
    <3> HIDE DEF p
    <3>3. PlannedIsOld'
      BY <3>1, <3>2 DEF PlannedIsOld, PrunableUsage, usageVars
    <3> QED BY <3>1, <3>2, <3>3 DEF HistoryInv, usageVars, HistoryAboveFloorIsWhole
  <2>7. CASE DeleteRows
    <3>1. prune' \in P /\ prune'.pc = "files"
      BY <2>0, <2>7 DEF DeleteRows
    <3>2. usage' \in [UsageAttempts -> AttemptRows]
      BY <1>0, <2>0, <2>7 DEF DeleteRows
    <3>3. /\ floor' \in Int /\ floor <= floor'
          /\ prune.usage # {} => prune.cutoff <= floor'
      BY <2>0, <2>7 DEF DeleteRows, RecordedFloor
    <3>4. ASSUME NEW d \in dropped'
          PROVE  d.last \in Nat /\ d.last < floor'
      <4>1. CASE d \in dropped
        BY <2>0, <3>3, <4>1 DEF HistoryInv, HistoryAboveFloorIsWhole
      <4>2. ASSUME NEW a \in prune.usage, d = [id |-> a, last |-> usage[a].last]
            PROVE  d.last \in Nat /\ d.last < floor'
        <5>1. a \in UsageAttempts /\ usage[a].last \in Nat
          BY <2>0, <4>2 DEF AttemptRows
        <5>2. usage[a].last < prune.cutoff
          BY <2>7 DEF HistoryInv, PlannedIsOld, DeleteRows
        <5>3. prune.cutoff \in Int
          BY <2>0
        <5>4. d.last = usage[a].last
          BY <4>2
        <5>5. prune.cutoff <= floor' /\ floor' \in Int
          BY <3>3
        <5> QED BY <5>1, <5>2, <5>3, <5>4, <5>5
      <4> QED BY <2>7, <4>1, <4>2 DEF DeleteRows
    <3>5. UNCHANGED <<month, period>>
      BY <2>7 DEF DeleteRows
    <3> QED BY <3>1, <3>2, <3>3, <3>4, <3>5 DEF HistoryInv, PlannedIsOld,
            HistoryAboveFloorIsWhole
  <2>8. CASE DeleteFiles \/ CrashPruning
    BY <1>0, <2>8 DEF DeleteFiles, CrashPruning, usageVars, HistoryInv, PlannedIsOld,
       HistoryAboveFloorIsWhole
  <2>9. CASE UNCHANGED retentionVars
    BY <2>1, <2>9 DEF retentionVars, usageVars
  <2>10. ASSUME NEW u \in Uploads,
                \/ StageUpload(u) \/ CreateJob(u) \/ CancelUpload(u) \/ ResumeUpload(u)
                \/ PauseQueued(u) \/ GrowOld(u) \/ \E w \in Runs : ClaimUpload(w, u)
         PROVE  HistoryInv'
    BY <2>1, <2>10 DEF StageUpload, CreateJob, CancelUpload, ResumeUpload, PauseQueued,
       GrowOld, ClaimUpload
  <2>11. ASSUME NEW w \in Runs,
                \/ \E end \in {"succeeded", "failed", "rejected"} : EndUpload(w, end)
                \/ CleanUpload(w) \/ \E dies \in BOOLEAN : InterruptUpload(w, dies)
         PROVE  HistoryInv'
    BY <2>1, <2>11 DEF EndUpload, CleanUpload, InterruptUpload
  <2> QED BY <2>2, <2>3, <2>4, <2>5, <2>6, <2>7, <2>8, <2>9, <2>10, <2>11
          DEF Next_Retention
<1>3. HistoryInv => HistoryAboveFloorIsWhole
  BY DEF HistoryInv
<1> QED BY <1>1, <1>2, <1>3, PTL DEF Spec_Retention

(***************************************************************************)
(* Retention: uploads.                                                     *)
(***************************************************************************)
UploadRows ==
  [state : Needed \cup Finished \cup {"none", "gone"}, owner : Runs \cup {NoRun},
   aged : BOOLEAN]
UploadRuns == [pc : {"idle", "work", "clean"}, job : Uploads \cup {"none"}]

\* Whatever is planned for deletion belongs to no job that could read it; while
\* the flag is up no job becomes one that could.
PlannedIsUnneeded ==
  prune.pc # "idle" => \A u \in prune.files : sjob[u].state \notin Needed

UploadInv ==
  /\ staged \in [Uploads -> {"no", "new", "old"}]
  /\ sjob \in [Uploads -> UploadRows]
  /\ srun \in [Runs -> UploadRuns]
  /\ \A w \in Runs : srun[w].pc # "idle" => srun[w].job \in Uploads
  /\ prune.pc # "idle" => prune.files \subseteq Uploads
  /\ PlannedIsUnneeded
  /\ ResumableHasUpload

\* A step that changes one job row, needed after it only if needed before it, or
\* while nothing is pruned and the upload is there.
LEMMA OneUpload ==
  ASSUME UploadInv, NEW u \in Uploads, NEW r \in UploadRows, NEW f \in {"no", "new", "old"},
         sjob' = [sjob EXCEPT ![u] = r], staged' = [staged EXCEPT ![u] = f],
         srun' \in [Runs -> UploadRuns],
         \A w \in Runs : srun'[w].pc # "idle" => srun'[w].job \in Uploads,
         UNCHANGED prune,
         r.state \in Needed => f # "no",
         r.state \in Needed => sjob[u].state \in Needed \/ prune.pc = "idle"
  PROVE  UploadInv'
<1>1. staged' \in [Uploads -> {"no", "new", "old"}] /\ sjob' \in [Uploads -> UploadRows]
  BY DEF UploadInv
<1>2. ASSUME NEW v \in Uploads
      PROVE  /\ sjob'[v].state \in Needed => staged'[v] # "no"
             /\ sjob'[v].state \in Needed => sjob[v].state \in Needed \/ prune.pc = "idle"
  BY DEF UploadInv, ResumableHasUpload
<1>3. PlannedIsUnneeded' /\ ResumableHasUpload'
  BY <1>2 DEF UploadInv, PlannedIsUnneeded, ResumableHasUpload
<1> QED BY <1>1, <1>3 DEF UploadInv

\* An import that is under way or may be resumed still has its upload, for any
\* number of uploads, workers and prunings.
THEOREM UploadsAreKept == Spec_Retention => []ResumableHasUpload
<1>0. /\ NoJobRow \in UploadRows /\ NoJobRow.state = "none"
      /\ IdleRun \in UploadRuns /\ IdleRun.pc = "idle"
      /\ NotPruning.pc = "idle" /\ "none" \notin Needed
  BY DEF NoJobRow, IdleRun, NotPruning, UploadRows, UploadRuns, Needed, ActiveStates
<1>1. Init_Retention => UploadInv
  BY <1>0 DEF Init_Retention, UploadInv, PlannedIsUnneeded, ResumableHasUpload
<1>2. UploadInv /\ [Next_Retention]_retentionVars => UploadInv'
  <2> SUFFICES ASSUME UploadInv, [Next_Retention]_retentionVars
               PROVE  UploadInv'
    OBVIOUS
  <2>0. /\ staged \in [Uploads -> {"no", "new", "old"}]
        /\ sjob \in [Uploads -> UploadRows] /\ srun \in [Runs -> UploadRuns]
        /\ \A w \in Runs : srun[w].pc # "idle" => srun[w].job \in Uploads
        /\ \A u \in Uploads : sjob[u].state \in Needed => staged[u] # "no"
    BY DEF UploadInv, ResumableHasUpload
  <2>a. \A u \in Uploads : /\ sjob' = sjob => sjob' = [sjob EXCEPT ![u] = sjob[u]]
                           /\ staged' = staged => staged' = [staged EXCEPT ![u] = staged[u]]
    BY <2>0
  <2>b. /\ {"queued", "running", "cancel_requested", "paused", "failed"} \subseteq Needed
        /\ \A s \in {"cancelled", "gone", "none", "succeeded", "rejected"} : s \notin Needed
        /\ \A u \in Uploads : sjob[u] \in UploadRows
    BY <2>0 DEF Needed, ActiveStates
  <2>1. ASSUME NEW u \in Uploads, StageUpload(u)
        PROVE  UploadInv'
    <3>1. /\ staged' = [staged EXCEPT ![u] = "new"] /\ UNCHANGED <<sjob, srun, prune>>
      BY <2>1 DEF StageUpload
    <3> QED BY <2>0, <2>a, <2>b, <3>1, OneUpload
  <2>2. ASSUME NEW u \in Uploads, CreateJob(u)
        PROVE  UploadInv'
    <3>0. staged[u] = "new" /\ sjob[u].state = "none" /\ UNCHANGED <<srun, prune>>
      BY <1>0, <2>2 DEF CreateJob
    <3>1. CASE prune.pc = "idle" /\ ~TargetTaken(u)
      <4> DEFINE r == [sjob[u] EXCEPT !.state = "queued"]
      <4>1. r \in UploadRows
        BY <2>b DEF UploadRows
      <4>2. sjob' = [sjob EXCEPT ![u] = r] /\ staged' = staged
        BY <2>0, <2>2, <3>1 DEF CreateJob
      <4> HIDE DEF r
      <4> QED BY <2>0, <2>a, <3>0, <3>1, <4>1, <4>2, OneUpload
    <3>2. CASE ~(prune.pc = "idle" /\ ~TargetTaken(u))
      <4>1. staged' = [staged EXCEPT ![u] = "no"] /\ sjob' = sjob
        BY <2>2, <3>2 DEF CreateJob
      <4>2. /\ sjob' = [sjob EXCEPT ![u] = sjob[u]] /\ sjob[u] \in UploadRows
            /\ sjob[u].state \notin Needed
        BY <2>a, <2>b, <3>0, <4>1
      <4>3. srun' \in [Runs -> UploadRuns]
            /\ \A w \in Runs : srun'[w].pc # "idle" => srun'[w].job \in Uploads
        BY <2>0, <3>0
      <4> QED BY <3>0, <4>1, <4>2, <4>3, OneUpload
    <3> QED BY <3>1, <3>2
  <2>3. ASSUME NEW u \in Uploads, NEW w \in Runs, ClaimUpload(w, u)
        PROVE  UploadInv'
    <3> DEFINE r == [sjob[u] EXCEPT !.state = "running", !.owner = w, !.aged = FALSE]
               x == [pc |-> "work", job |-> u]
    <3>1. r \in UploadRows /\ x \in UploadRuns /\ x.job \in Uploads
      BY <2>b DEF UploadRows, UploadRuns
    <3>2. /\ sjob' = [sjob EXCEPT ![u] = r] /\ srun' = [srun EXCEPT ![w] = x]
          /\ UNCHANGED <<staged, prune>> /\ sjob[u].state = "queued"
      BY <2>0, <2>3 DEF ClaimUpload
    <3> HIDE DEF r, x
    <3>3. srun' \in [Runs -> UploadRuns]
      BY <2>0, <3>1, <3>2
    <3>4. \A v \in Runs : srun'[v].pc # "idle" => srun'[v].job \in Uploads
      BY <2>0, <3>1, <3>2
    <3>5. /\ staged' = [staged EXCEPT ![u] = staged[u]]
          /\ staged[u] \in {"no", "new", "old"} /\ staged[u] # "no"
          /\ sjob[u].state \in Needed
      BY <2>0, <2>a, <2>b, <3>2
    <3> QED BY <3>1, <3>2, <3>3, <3>4, <3>5, OneUpload
  <2>4. ASSUME NEW w \in Runs, NEW end \in {"succeeded", "failed", "rejected"},
               EndUpload(w, end)
        PROVE  UploadInv'
    <3> DEFINE u == srun[w].job
               x == [srun[w] EXCEPT !.pc = "clean"]
    <3>0. /\ u \in Uploads /\ UNCHANGED <<staged, prune>>
          /\ srun' = [srun EXCEPT ![w] = x]
      BY <2>0, <2>4 DEF EndUpload
    <3>1. x \in UploadRuns /\ x.job = u
      BY <2>0 DEF UploadRuns
    <3>2. srun' \in [Runs -> UploadRuns]
      BY <2>0, <3>0, <3>1
    <3>3. \A v \in Runs : srun'[v].pc # "idle" => srun'[v].job \in Uploads
      BY <2>0, <3>0, <3>1
    <3>4. CASE sjob' = sjob
      <4> HIDE DEF u, x
      <4>1. /\ sjob' = [sjob EXCEPT ![u] = sjob[u]] /\ sjob[u] \in UploadRows
            /\ staged' = [staged EXCEPT ![u] = staged[u]]
            /\ staged[u] \in {"no", "new", "old"}
            /\ sjob[u].state \in Needed => staged[u] # "no"
        BY <2>0, <2>a, <3>0, <3>4
      <4> QED BY <3>0, <3>2, <3>3, <4>1, OneUpload
    <3>5. ASSUME Owns(w), NEW s \in Ends(u, end),
                 sjob' = [sjob EXCEPT ![u].owner = NoRun, ![u].aged = FALSE,
                                      ![u].state = s]
          PROVE  UploadInv'
      <4> DEFINE r == [sjob[u] EXCEPT !.owner = NoRun, !.aged = FALSE, !.state = s]
      <4>1. s \in {"cancelled", "succeeded", "failed", "rejected"}
        BY <3>5 DEF Ends
      <4>2. r \in UploadRows
        BY <2>b, <3>0, <4>1 DEF UploadRows, Needed, Finished
      <4>3. sjob' = [sjob EXCEPT ![u] = r]
        BY <2>0, <3>0, <3>5
      <4>4. sjob[u].state \in Needed
        BY <2>b, <3>5 DEF Owns
      <4> HIDE DEF r, x, u
      <4>5. /\ staged' = [staged EXCEPT ![u] = staged[u]]
            /\ staged[u] \in {"no", "new", "old"} /\ staged[u] # "no"
        BY <2>0, <2>a, <3>0, <4>4
      <4> QED BY <3>0, <3>2, <3>3, <4>2, <4>3, <4>4, <4>5, OneUpload
    <3> QED BY <2>4, <3>4, <3>5 DEF EndUpload
  <2>5. ASSUME NEW w \in Runs, CleanUpload(w)
        PROVE  UploadInv'
    <3> DEFINE u == srun[w].job
    <3>0. /\ u \in Uploads /\ UNCHANGED <<sjob, prune>>
          /\ srun' = [srun EXCEPT ![w] = IdleRun]
      BY <2>0, <2>5 DEF CleanUpload
    <3>1. srun' \in [Runs -> UploadRuns]
      BY <1>0, <2>0, <3>0
    <3>2. \A v \in Runs : srun'[v].pc # "idle" => srun'[v].job \in Uploads
      BY <1>0, <2>0, <3>0
    <3>3. \/ staged' = staged
          \/ staged' = [staged EXCEPT ![u] = "no"] /\ sjob[u].state \notin Needed
      BY <2>5, <2>b DEF CleanUpload, Finished
    <3> HIDE DEF u
    <3> QED BY <2>0, <2>a, <2>b, <3>0, <3>1, <3>2, <3>3, OneUpload
  <2>6. ASSUME NEW u \in Uploads, CancelUpload(u) \/ ResumeUpload(u) \/ PauseQueued(u)
        PROVE  UploadInv'
    <3>1. UNCHANGED <<srun, prune>>
      BY <2>6 DEF CancelUpload, ResumeUpload, PauseQueued
    <3>2. PICK r \in UploadRows, f \in {"no", "new", "old"} :
            /\ sjob' = [sjob EXCEPT ![u] = r] /\ staged' = [staged EXCEPT ![u] = f]
            /\ sjob[u].state \in Needed
            /\ r.state \in Needed => f = staged[u]
      <4>1. CASE sjob[u].state = "running"
                 /\ sjob' = [sjob EXCEPT ![u].state = "cancel_requested"]
                 /\ UNCHANGED staged
        <5> DEFINE r == [sjob[u] EXCEPT !.state = "cancel_requested"]
        <5>1. r \in UploadRows
          BY <2>b DEF UploadRows
        <5>2. sjob' = [sjob EXCEPT ![u] = r]
          BY <2>0, <4>1
        <5>3. staged' = [staged EXCEPT ![u] = staged[u]] /\ staged[u] \in {"no", "new", "old"}
          BY <2>0, <4>1
        <5>4. sjob[u].state \in Needed
          BY <2>b, <4>1
        <5> HIDE DEF r
        <5> QED BY <5>1, <5>2, <5>3, <5>4
      <4>2. CASE sjob[u].state \in {"queued", "paused"}
                 /\ sjob' = [sjob EXCEPT ![u].state = "cancelled", ![u].aged = FALSE]
                 /\ staged' = [staged EXCEPT ![u] = "no"]
        <5> DEFINE r == [sjob[u] EXCEPT !.state = "cancelled", !.aged = FALSE]
        <5>1. r \in UploadRows /\ r.state = "cancelled"
          BY <2>b DEF UploadRows, Finished
        <5>2. sjob' = [sjob EXCEPT ![u] = r]
          BY <2>0, <4>2
        <5> HIDE DEF r
        <5> QED BY <2>0, <2>b, <4>2, <5>1, <5>2
      <4>3. CASE ResumeUpload(u)
        <5> DEFINE r == [sjob[u] EXCEPT !.state = "queued", !.aged = FALSE]
        <5>1. r \in UploadRows
          BY <2>b DEF UploadRows
        <5>2. /\ sjob' = [sjob EXCEPT ![u] = r] /\ UNCHANGED staged
              /\ sjob[u].state \in Needed
          BY <2>0, <2>b, <4>3 DEF ResumeUpload
        <5> HIDE DEF r
        <5> QED BY <2>0, <2>a, <5>1, <5>2
      <4>4. CASE PauseQueued(u)
        <5> DEFINE r == [sjob[u] EXCEPT !.state = "paused"]
        <5>1. r \in UploadRows
          BY <2>b DEF UploadRows
        <5>2. /\ sjob' = [sjob EXCEPT ![u] = r] /\ UNCHANGED staged
              /\ sjob[u].state \in Needed
          BY <2>0, <2>b, <4>4 DEF PauseQueued
        <5> HIDE DEF r
        <5> QED BY <2>0, <2>a, <5>1, <5>2
      <4> QED BY <2>6, <4>1, <4>2, <4>3, <4>4 DEF CancelUpload
    <3> QED BY <2>0, <3>1, <3>2, OneUpload
  <2>7. ASSUME NEW w \in Runs, NEW dies \in BOOLEAN, InterruptUpload(w, dies)
        PROVE  UploadInv'
    <3> DEFINE u == srun[w].job
               r == [sjob[u] EXCEPT !.state = "paused", !.owner = NoRun]
    <3>0. u \in Uploads /\ UNCHANGED <<staged, prune>>
      BY <2>0, <2>7 DEF InterruptUpload
    <3>1. /\ srun' \in [Runs -> UploadRuns]
          /\ \A v \in Runs : srun'[v].pc # "idle" => srun'[v].job \in Uploads
      BY <1>0, <2>0, <2>7 DEF InterruptUpload
    <3>2. r \in UploadRows
      BY <2>b, <3>0 DEF UploadRows
    <3>3. \/ sjob' = sjob
          \/ sjob' = [sjob EXCEPT ![u] = r] /\ sjob[u].state \in Needed
      BY <2>0, <2>7, <2>b, <3>0 DEF InterruptUpload, Owns
    <3> HIDE DEF u, r
    <3> QED BY <2>0, <2>a, <2>b, <3>0, <3>1, <3>2, <3>3, OneUpload
  <2>8. ASSUME NEW u \in Uploads, GrowOld(u)
        PROVE  UploadInv'
    <3> DEFINE r == [sjob[u] EXCEPT !.aged = TRUE]
    <3>0. UNCHANGED <<srun, prune>>
      BY <2>8 DEF GrowOld
    <3>1. r \in UploadRows /\ r.state = sjob[u].state
      BY <2>b DEF UploadRows
    <3>2. \/ staged' = [staged EXCEPT ![u] = "old"] /\ sjob' = sjob
          \/ staged' = staged /\ sjob' = [sjob EXCEPT ![u] = r]
      BY <2>0, <2>8 DEF GrowOld
    <3> HIDE DEF r
    <3> QED BY <2>0, <2>a, <2>b, <3>0, <3>1, <3>2, OneUpload
  <2>9. CASE UNCHANGED uploadVars /\ UNCHANGED prune
    BY <2>9 DEF uploadVars, UploadInv, PlannedIsUnneeded, ResumableHasUpload
  <2>10. CASE PlanRetention
    <3>1. /\ prune'.files = {u \in Unprotected : staged[u] = "old"}
          /\ UNCHANGED uploadVars
      BY <2>10 DEF PlanRetention
    <3> QED BY <3>1 DEF uploadVars, UploadInv, PlannedIsUnneeded, ResumableHasUpload,
            Unprotected
  <2>11. CASE DeleteRows
    <3> DEFINE g == [NoJobRow EXCEPT !.state = "gone"]
    <3>0. g \in UploadRows /\ g.state = "gone"
      BY DEF NoJobRow, UploadRows
    <3>1. /\ sjob' = [u \in Uploads |-> IF u \in prune.rows THEN g ELSE sjob[u]]
          /\ UNCHANGED <<staged, srun>> /\ prune' = [prune EXCEPT !.pc = "files"]
          /\ prune.pc = "rows"
      BY <2>11 DEF DeleteRows
    <3> HIDE DEF g
    <3>2. sjob' \in [Uploads -> UploadRows]
      BY <2>0, <3>0, <3>1
    <3>3. \A u \in Uploads : sjob'[u].state \in Needed => sjob'[u] = sjob[u]
      BY <2>b, <3>0, <3>1
    <3>4. prune'.files = prune.files
      BY <3>1
    <3>5. PlannedIsUnneeded' /\ ResumableHasUpload'
      BY <3>1, <3>3, <3>4 DEF UploadInv, PlannedIsUnneeded, ResumableHasUpload
    <3> QED BY <3>1, <3>2, <3>4, <3>5 DEF UploadInv
  <2>12. CASE DeleteFiles
    <3>1. /\ staged' = [u \in Uploads |-> IF u \in prune.files THEN "no" ELSE staged[u]]
          /\ prune' = NotPruning /\ UNCHANGED <<sjob, srun>> /\ prune.pc # "idle"
      BY <2>12 DEF DeleteFiles
    <3>2. staged' \in [Uploads -> {"no", "new", "old"}]
      BY <2>0, <3>1
    <3>3. ResumableHasUpload'
      BY <3>1 DEF UploadInv, PlannedIsUnneeded, ResumableHasUpload
    <3> QED BY <1>0, <3>1, <3>2, <3>3 DEF UploadInv, PlannedIsUnneeded
  <2>13. CASE CrashPruning
    BY <1>0, <2>13 DEF CrashPruning, uploadVars, UploadInv, PlannedIsUnneeded,
       ResumableHasUpload
  <2>14. CASE UNCHANGED retentionVars
    BY <2>9, <2>14 DEF retentionVars, uploadVars
  <2>15. ASSUME \/ \E a \in UsageAttempts :
                     ReserveUsage(a) \/ \E s \in {"settled", "uncertain"} : ResolveUsage(a, s)
                \/ \E m \in 1..LastMonth : ClockMoves(m)
                \/ \E n \in Periods : SetPeriod(n)
         PROVE  UploadInv'
    BY <2>9, <2>15 DEF ReserveUsage, ResolveUsage, ClockMoves, SetPeriod
  <2> QED BY <2>1, <2>2, <2>3, <2>4, <2>5, <2>6, <2>7, <2>8, <2>10, <2>11, <2>12, <2>13,
             <2>14, <2>15 DEF Next_Retention
<1>3. UploadInv => ResumableHasUpload
  BY DEF UploadInv
<1> QED BY <1>1, <1>2, <1>3, PTL DEF Spec_Retention

(***************************************************************************)
(* The property cache, beside backups and prunings (WorkspaceCare).        *)
(***************************************************************************)
CacheRows == [file : Nat, pinned : BOOLEAN]
CacheThreads ==
  [pc : {"idle", "open", "fetch", "store", "tidy", "evict", "unlink", "clear", "page",
         "pin", "unpin", "finish", "failing", "release"},
   key : Keys \cup {"none"}, file : Nat, drop : SUBSET Nat]
ExportJobs ==
  [state : {"none", "running", "cancel_requested", "paused", "failed", "succeeded",
            "cancelled"},
   page : Nat, pins : SUBSET Keys]
CareRecords ==
  [pc : {"idle", "copy", "list", "zip", "plan", "rows", "files"}, cache : BOOLEAN,
   rows : [Keys -> CacheRows], keys : SUBSET Keys, files : SUBSET Nat]

\* The stages of a thread that works on a page.
Keyed == {"open", "fetch", "store", "tidy", "evict", "unlink", "pin"}

CacheTypes ==
  /\ crow \in [Keys -> CacheRows]
  /\ thr \in [Threads -> CacheThreads]
  /\ xjob \in ExportJobs
  /\ care \in CareRecords
  /\ cfiles \subseteq Nat /\ fetched \in Nat
  /\ \A t \in Threads : thr[t].pc \in Keyed => thr[t].key \in Keys

\* Every file anyone knows of was fetched before, so the next one is new.
FilesAreOld ==
  /\ \A k \in Keys : crow[k].file <= fetched
  /\ \A t \in Threads : \A f \in thr[t].drop : f <= fetched
  /\ \A f \in care.files : f <= fetched
  /\ \A t \in Threads : thr[t].pc = "store" => thr[t].file <= fetched

\* No two rows have one file.
RowsAreApart ==
  /\ \A k \in Keys : crow[k].pinned => crow[k].file # NoPageFile
  /\ \A k, l \in Keys : crow[k].file = crow[l].file /\ crow[k].file # NoPageFile => k = l

\* A file that was written and whose row was not is known to its thread alone.
PendingIsOwn ==
  \A t \in Threads : thr[t].pc = "store" =>
    /\ thr[t].file \in cfiles /\ thr[t].file # NoPageFile
    /\ \A k \in Keys : crow[k].file # thr[t].file
    /\ \A s \in Threads : /\ thr[t].file \notin thr[s].drop
                          /\ s # t /\ thr[s].pc = "store" => thr[s].file # thr[t].file
    /\ thr[t].file \notin care.files

\* Files that are to be unlinked have lost their row for good.
DropsAreDead ==
  \A t \in Threads : thr[t].pc \in {"unlink", "clear"} =>
    \A k \in Keys : crow[k].file # NoPageFile => crow[k].file \notin thr[t].drop

\* Under the flag no row is stored, so the files planned for pruning are those
\* of planned rows until these are deleted, and of no row after that.
CareIsApart ==
  /\ care.pc # "idle" => maint \in {"backup", "prune"}
  /\ care.pc \in {"rows", "files"} =>
       \A k \in Keys : crow[k].file # NoPageFile /\ crow[k].file \in care.files =>
                         care.pc = "rows" /\ k \in care.keys

CacheInv == /\ CacheTypes /\ FilesAreOld /\ RowsAreApart /\ PendingIsOwn
            /\ DropsAreDead /\ CareIsApart /\ RowHasFile

\* A row is there when it has a file.
LEMMA RowIsItsFile ==
  ASSUME NEW r \in CacheRows, r.pinned => r.file # NoPageFile
  PROVE  r = NoRow <=> r.file = NoPageFile
<1>1. r = NoRow => r.file = NoPageFile
  BY DEF NoRow
<1>2. ASSUME r.file = NoPageFile PROVE r = NoRow
  <2>1. r.pinned = FALSE
    BY <1>2 DEF CacheRows
  <2>2. r = [file |-> r.file, pinned |-> r.pinned]
    BY DEF CacheRows
  <2> QED BY <1>2, <2>1, <2>2 DEF NoRow
<1> QED BY <1>1, <1>2

\* The same of all rows of the table.
LEMMA CachedRows ==
  ASSUME CacheTypes, RowsAreApart
  PROVE  /\ \A k \in Keys : crow[k] = NoRow <=> crow[k].file = NoPageFile
         /\ Rows_Cached = {k \in Keys : crow[k].file # NoPageFile}
<1>1. ASSUME NEW k \in Keys
      PROVE  crow[k] = NoRow <=> crow[k].file = NoPageFile
  BY RowIsItsFile DEF CacheTypes, RowsAreApart
<1> QED BY <1>1 DEF Rows_Cached

\* The steps that change no row's file: a thread goes on without a new file or a
\* new one to drop, or pins change.
LEMMA ThreadMoves ==
  ASSUME CacheInv, NEW t \in Threads, NEW x \in CacheThreads,
         thr' = [thr EXCEPT ![t] = x],
         \/ x = thr[t]
         \/ /\ x.pc \notin {"store", "unlink", "clear"} /\ x.drop \subseteq thr[t].drop
            /\ x.pc \in Keyed => x.key \in Keys,
         crow' \in [Keys -> CacheRows],
         \A k \in Keys : /\ crow'[k].file = crow[k].file
                         /\ crow'[k].pinned => crow'[k].file # NoPageFile,
         xjob' \in ExportJobs, UNCHANGED <<cfiles, fetched, maint, care>>
  PROVE  CacheInv'
<1>0. /\ thr \in [Threads -> CacheThreads] /\ CacheTypes /\ RowsAreApart
      /\ \A s \in Threads : thr'[s] = IF s = t THEN x ELSE thr[s]
  BY DEF CacheInv, CacheTypes
<1>1. CacheTypes'
  BY <1>0 DEF CacheInv, CacheTypes
<1>2. RowsAreApart'
  BY DEF CacheInv, RowsAreApart
<1>3. FilesAreOld'
  BY <1>0 DEF CacheInv, FilesAreOld
<1>4. PendingIsOwn'
  BY <1>0 DEF CacheInv, PendingIsOwn
<1>5. DropsAreDead'
  BY <1>0 DEF CacheInv, DropsAreDead
<1>6. CareIsApart'
  BY DEF CacheInv, CareIsApart
<1>7. RowHasFile'
  <2>1. Rows_Cached = {k \in Keys : crow[k].file # NoPageFile}
    BY <1>0, CachedRows
  <2>2. ASSUME NEW k \in Keys, crow'[k] # NoRow
        PROVE  crow'[k].file \in cfiles'
    <3>1. crow'[k].file # NoPageFile
      BY <2>2, RowIsItsFile
    <3> QED BY <2>1, <3>1 DEF CacheInv, RowHasFile
  <2> QED BY <2>2 DEF RowHasFile, Rows_Cached
<1> QED BY <1>1, <1>2, <1>3, <1>4, <1>5, <1>6, <1>7 DEF CacheInv

\* The steps that delete rows: the thread may unlink their files next.
LEMMA RowsGo ==
  ASSUME CacheInv, NEW t \in Threads, NEW x \in CacheThreads, NEW V \in SUBSET Rows_Cached,
         thr' = [thr EXCEPT ![t] = x], x.pc \in {"unlink", "clear"},
         x.pc \in Keyed => x.key \in Keys,
         x.drop = {crow[k].file : k \in V},
         crow' = [k \in Keys |-> IF k \in V THEN NoRow ELSE crow[k]],
         UNCHANGED <<cfiles, fetched, maint, xjob, care>>
  PROVE  CacheInv'
<1>0. /\ thr \in [Threads -> CacheThreads] /\ CacheTypes /\ RowsAreApart
      /\ crow \in [Keys -> CacheRows]
      /\ \A s \in Threads : thr'[s] = IF s = t THEN x ELSE thr[s]
  BY DEF CacheInv, CacheTypes
<1>a. NoRow \in CacheRows /\ NoRow.file = NoPageFile /\ NoPageFile = 0 /\ ~NoRow.pinned
  BY DEF NoRow, CacheRows, NoPageFile
<1>b. /\ V \subseteq Keys
      /\ \A k \in V : crow[k].file # NoPageFile
      /\ \A k \in Keys : crow[k] # NoRow <=> crow[k].file # NoPageFile
  BY <1>0, CachedRows DEF Rows_Cached
<1>c. \A k \in Keys : /\ crow'[k] \in CacheRows
                      /\ k \in V => crow'[k] = NoRow
                      /\ k \notin V => crow'[k] = crow[k]
  BY <1>0, <1>a
<1>1. CacheTypes'
  <2>1. crow' \in [Keys -> CacheRows]
    BY <1>c
  <2> QED BY <1>0, <2>1 DEF CacheInv, CacheTypes
<1>2. RowsAreApart'
  BY <1>0, <1>a, <1>c DEF RowsAreApart
<1>d. fetched \in Nat /\ \A k \in Keys : crow[k].file <= fetched /\ crow[k].file \in Nat
  BY <1>0 DEF CacheInv, CacheTypes, FilesAreOld, CacheRows
<1>e. \A f \in x.drop : f <= fetched
  BY <1>b, <1>d
<1>3. FilesAreOld'
  <2>1. \A k \in Keys : crow'[k].file <= fetched
    BY <1>a, <1>c, <1>d
  <2> QED BY <1>0, <1>e, <2>1 DEF CacheInv, FilesAreOld
<1>4. PendingIsOwn'
  <2>1. ASSUME NEW s \in Threads, thr'[s].pc = "store"
        PROVE  s # t /\ thr'[s] = thr[s] /\ thr[s].pc = "store"
    BY <1>0, <2>1
  <2>2. ASSUME NEW s \in Threads, thr'[s].pc = "store", NEW k \in Keys
        PROVE  crow'[k].file # thr'[s].file
    BY <1>a, <1>c, <2>1, <2>2 DEF CacheInv, PendingIsOwn
  <2>3. ASSUME NEW s \in Threads, thr'[s].pc = "store"
        PROVE  thr'[s].file \notin x.drop
    BY <1>b, <2>1, <2>3 DEF CacheInv, PendingIsOwn
  <2> QED BY <1>0, <2>1, <2>2, <2>3 DEF CacheInv, PendingIsOwn
<1>5. DropsAreDead'
  <2>1. ASSUME NEW s \in Threads, thr'[s].pc \in {"unlink", "clear"},
               NEW k \in Keys, crow'[k].file # NoPageFile
        PROVE  crow'[k].file \notin thr'[s].drop
    <3>1. k \notin V /\ crow'[k] = crow[k]
      BY <1>a, <1>c, <2>1
    <3>2. CASE s = t
      <4>1. \A l \in V : crow[l].file # crow[k].file
        BY <1>b, <2>1, <3>1 DEF CacheInv, RowsAreApart
      <4> QED BY <1>0, <3>1, <3>2, <4>1
    <3>3. CASE s # t
      BY <1>0, <2>1, <3>1, <3>3 DEF CacheInv, DropsAreDead
    <3> QED BY <3>2, <3>3
  <2> QED BY <2>1 DEF DropsAreDead
<1>6. CareIsApart'
  BY <1>a, <1>c DEF CacheInv, CareIsApart
<1>7. RowHasFile'
  BY <1>a, <1>b, <1>c DEF CacheInv, RowHasFile, Rows_Cached
<1> QED BY <1>1, <1>2, <1>3, <1>4, <1>5, <1>6, <1>7 DEF CacheInv

\* The steps that delete files of no row: thread t goes on without any.
LEMMA FilesGo ==
  ASSUME CacheInv, NEW t \in Threads, NEW x \in CacheThreads, NEW D,
         thr' = [thr EXCEPT ![t] = x],
         x.pc \notin {"store", "unlink", "clear"}, x.drop = {},
         x.pc \in Keyed => x.key \in Keys,
         cfiles' = cfiles \ D, D \subseteq thr[t].drop,
         \A k \in Keys : crow[k].file # NoPageFile => crow[k].file \notin D,
         UNCHANGED <<crow, fetched, maint, xjob, care>>
  PROVE  CacheInv'
<1>0. /\ thr \in [Threads -> CacheThreads] /\ CacheTypes /\ RowsAreApart
      /\ \A s \in Threads : thr'[s] = IF s = t THEN x ELSE thr[s]
  BY DEF CacheInv, CacheTypes
<1>1. CacheTypes'
  BY <1>0 DEF CacheInv, CacheTypes
<1>2. RowsAreApart' /\ CareIsApart'
  BY DEF CacheInv, RowsAreApart, CareIsApart
<1>3. FilesAreOld'
  BY <1>0 DEF CacheInv, FilesAreOld
<1>4. PendingIsOwn'
  <2>1. ASSUME NEW s \in Threads, thr'[s].pc = "store"
        PROVE  /\ s # t /\ thr'[s] = thr[s] /\ thr[s].pc = "store"
               /\ thr[s].file \in cfiles'
    BY <1>0, <2>1 DEF CacheInv, PendingIsOwn
  <2> QED BY <1>0, <2>1 DEF CacheInv, PendingIsOwn
<1>5. DropsAreDead'
  BY <1>0 DEF CacheInv, DropsAreDead
<1>6. RowHasFile'
  BY <1>0, CachedRows DEF CacheInv, RowHasFile, Rows_Cached
<1> QED BY <1>1, <1>2, <1>3, <1>4, <1>5, <1>6 DEF CacheInv

\* A fetched page gets a file that nobody knows of.
LEMMA WriteFileInv ==
  ASSUME CacheInv, NEW t \in Threads, WriteFile(t), UNCHANGED careVars
  PROVE  CacheInv'
<1> DEFINE x == [thr[t] EXCEPT !.pc = "store", !.file = fetched + 1]
<1>0. /\ thr \in [Threads -> CacheThreads] /\ CacheTypes /\ fetched \in Nat
      /\ care \in CareRecords /\ thr[t].key \in Keys
      /\ crow \in [Keys -> CacheRows]
  BY DEF CacheInv, CacheTypes, WriteFile, Keyed
<1>1. /\ fetched' = fetched + 1 /\ cfiles' = cfiles \cup {fetched + 1}
      /\ thr' = [thr EXCEPT ![t] = x]
      /\ UNCHANGED <<crow, maint, xjob, care>>
  BY <1>0 DEF WriteFile, careVars
<1>2. /\ x \in CacheThreads /\ x.pc = "store" /\ x.file = fetched + 1
      /\ x.drop = thr[t].drop /\ x.key = thr[t].key
  <2>1. thr[t] \in CacheThreads /\ fetched + 1 \in Nat
    BY <1>0
  <2>2. x \in CacheThreads
    BY <2>1 DEF CacheThreads
  <2> QED BY <2>1, <2>2 DEF CacheThreads
<1> HIDE DEF x
<1>3. \A s \in Threads : thr'[s] = IF s = t THEN x ELSE thr[s]
  BY <1>0, <1>1
<1>4. CacheTypes'
  BY <1>0, <1>1, <1>2, <1>3 DEF CacheTypes
<1>5. RowsAreApart' /\ CareIsApart'
  BY <1>1 DEF CacheInv, RowsAreApart, CareIsApart
<1>a. \A s \in Threads : thr[s].file \in Nat /\ thr[s].drop \subseteq Nat
  BY <1>0 DEF CacheThreads
<1>b. \A k \in Keys : crow[k].file \in Nat
  BY <1>0 DEF CacheRows
<1>c. care.files \subseteq Nat
  BY <1>0 DEF CareRecords
<1>6. FilesAreOld'
  BY <1>0, <1>1, <1>2, <1>3, <1>a, <1>b, <1>c DEF CacheInv, FilesAreOld
<1>7. PendingIsOwn'
  <2>1. /\ \A k \in Keys : crow[k].file # fetched + 1
        /\ \A s \in Threads : fetched + 1 \notin thr[s].drop
        /\ \A s \in Threads : thr[s].pc = "store" => thr[s].file # fetched + 1
        /\ fetched + 1 \notin care.files /\ fetched + 1 # NoPageFile
    BY <1>0, <1>a, <1>b, <1>c DEF CacheInv, FilesAreOld, NoPageFile
  <2>2. \A s \in Threads : thr'[s].drop = thr[s].drop
    BY <1>2, <1>3
  <2> QED BY <1>1, <1>2, <1>3, <2>1, <2>2 DEF CacheInv, PendingIsOwn
<1>8. DropsAreDead'
  BY <1>1, <1>2, <1>3 DEF CacheInv, DropsAreDead
<1>9. RowHasFile'
  BY <1>1 DEF CacheInv, RowHasFile, Rows_Cached
<1> QED BY <1>4, <1>5, <1>6, <1>7, <1>8, <1>9 DEF CacheInv

\* The row of a fetched page replaces another's.
LEMMA StoreRowInv ==
  ASSUME CacheInv, NEW t \in Threads, thr[t].pc = "store", ~FlagUp, StoreRow(t),
         UNCHANGED careVars
  PROVE  CacheInv'
<1> DEFINE k == thr[t].key
           r == [NoRow EXCEPT !.file = thr[t].file]
           x == [thr[t] EXCEPT !.pc = "tidy", !.drop = {crow[k].file} \ {NoPageFile}]
<1>0. /\ thr \in [Threads -> CacheThreads] /\ CacheTypes /\ fetched \in Nat /\ k \in Keys
      /\ crow \in [Keys -> CacheRows]
  BY DEF CacheInv, CacheTypes, Keyed
<1>1. /\ crow' = [crow EXCEPT ![k] = r] /\ thr' = [thr EXCEPT ![t] = x]
      /\ UNCHANGED <<cfiles, fetched, maint, xjob, care>>
  BY <1>0 DEF StoreRow, careVars
<1>2. r \in CacheRows /\ r.file = thr[t].file /\ ~r.pinned
  BY <1>0 DEF NoRow, CacheRows, CacheThreads
<1>3. crow[k].file \in Nat
  BY <1>0 DEF CacheRows
<1>4. /\ x \in CacheThreads /\ x.pc = "tidy" /\ x.drop = {crow[k].file} \ {NoPageFile}
      /\ x.key \in Keys
  BY <1>0, <1>3 DEF CacheThreads
<1> HIDE DEF k, r, x
<1>5. /\ \A s \in Threads : thr'[s] = IF s = t THEN x ELSE thr[s]
      /\ \A l \in Keys : crow'[l] = IF l = k THEN r ELSE crow[l]
  BY <1>0, <1>1
<1>6. /\ thr[t].file \in cfiles /\ thr[t].file # NoPageFile
      /\ \A l \in Keys : crow[l].file # thr[t].file
      /\ \A s \in Threads : /\ thr[t].file \notin thr[s].drop
                            /\ s # t /\ thr[s].pc = "store" => thr[s].file # thr[t].file
      /\ thr[t].file \notin care.files /\ thr[t].file <= fetched
  BY DEF CacheInv, PendingIsOwn, FilesAreOld
<1>7. CacheTypes'
  BY <1>0, <1>1, <1>2, <1>4, <1>5 DEF CacheTypes
<1>8. RowsAreApart'
  BY <1>2, <1>5, <1>6 DEF CacheInv, RowsAreApart
<1>9. FilesAreOld'
  BY <1>0, <1>1, <1>2, <1>4, <1>5, <1>6 DEF CacheInv, FilesAreOld
<1>10. PendingIsOwn'
  <2>1. ASSUME NEW s \in Threads, thr'[s].pc = "store"
        PROVE  s # t /\ thr'[s] = thr[s] /\ thr[s].pc = "store"
    BY <1>4, <1>5, <2>1
  <2>2. ASSUME NEW s \in Threads, thr'[s].pc = "store"
        PROVE  /\ thr[s].file \notin x.drop
               /\ \A l \in Keys : crow'[l].file # thr[s].file
    BY <1>0, <1>2, <1>4, <1>5, <1>6, <2>1, <2>2 DEF CacheInv, PendingIsOwn
  <2> QED BY <1>1, <1>5, <2>1, <2>2 DEF CacheInv, PendingIsOwn
<1>11. DropsAreDead'
  BY <1>2, <1>4, <1>5, <1>6 DEF CacheInv, DropsAreDead
<1>12. CareIsApart'
  BY <1>1 DEF CacheInv, CareIsApart, FlagUp
<1>13. RowHasFile'
  BY <1>1, <1>2, <1>5, <1>6 DEF CacheInv, RowHasFile, Rows_Cached
<1> QED BY <1>7, <1>8, <1>9, <1>10, <1>11, <1>12, <1>13 DEF CacheInv

\* The ways a thread goes on that leave rows and files alone.
LEMMA ThreadSteps ==
  ASSUME CacheInv, NEW t \in Threads,
         UNCHANGED <<crow, cfiles, fetched, maint, care>>, xjob' \in ExportJobs,
         \/ Throw(t)
         \/ Served(t) /\ thr[t].key \in Keys
         \/ \E k \in Keys : Lookup(t, k)
         \/ thr[t].key \in Keys /\ Go(t, "fetch")
         \/ \E pc \in {"unpin", "failing", "finish", "release"} : Go(t, pc)
         \/ thr' = [thr EXCEPT ![t] = IdleThread]
         \/ \E pc \in {"page", "failing"} : thr' = [thr EXCEPT ![t] = [IdleThread EXCEPT !.pc = pc]]
         \/ UNCHANGED thr
  PROVE  CacheInv'
<1>0. /\ thr \in [Threads -> CacheThreads] /\ thr[t] \in CacheThreads
      /\ crow \in [Keys -> CacheRows]
      /\ \A k \in Keys : /\ crow[k].file \in Nat
                         /\ crow[k].pinned => crow[k].file # NoPageFile
  BY DEF CacheInv, CacheTypes, RowsAreApart, CacheRows
<1> DEFINE Fine(x) == /\ x \in CacheThreads
                      /\ x.pc \notin {"store", "unlink", "clear"} /\ x.drop \subseteq thr[t].drop
                      /\ x.pc \in Keyed => x.key \in Keys
<1>1. ASSUME NEW x, Fine(x), thr' = [thr EXCEPT ![t] = x]
      PROVE  CacheInv'
  BY <1>0, <1>1, ThreadMoves
<1>2. Fine(IdleThread)
  BY DEF IdleThread, CacheThreads, NoPageFile, Keyed
<1>3. \A pc \in {"page", "failing", "idle"} : Fine([IdleThread EXCEPT !.pc = pc])
  BY DEF IdleThread, CacheThreads, NoPageFile, Keyed
<1>4. CASE Throw(t)
  BY <1>1, <1>3, <1>4 DEF Throw
<1>5. CASE Served(t) /\ thr[t].key \in Keys
  <2>1. Fine([IdleThread EXCEPT !.pc = "pin", !.key = thr[t].key])
    BY <1>5 DEF IdleThread, CacheThreads, NoPageFile, Keyed
  <2> QED BY <1>1, <1>2, <1>5, <2>1 DEF Served
<1>6. ASSUME NEW k \in Keys, Lookup(t, k)
      PROVE  CacheInv'
  <2>1. Fine([IdleThread EXCEPT !.pc = "fetch", !.key = k])
    BY DEF IdleThread, CacheThreads, NoPageFile, Keyed
  <2>2. Fine([IdleThread EXCEPT !.pc = "open", !.key = k, !.file = crow[k].file])
    BY <1>0 DEF IdleThread, CacheThreads, NoPageFile, Keyed
  <2> QED BY <1>1, <1>6, <2>1, <2>2 DEF Lookup
<1>7. ASSUME NEW pc \in {"fetch", "unpin", "failing", "finish", "release"}, Go(t, pc),
             pc = "fetch" => thr[t].key \in Keys
      PROVE  CacheInv'
  <2>1. Fine([thr[t] EXCEPT !.pc = pc])
    BY <1>0, <1>7 DEF CacheThreads, Keyed
  <2>2. thr' = [thr EXCEPT ![t] = [thr[t] EXCEPT !.pc = pc]]
    BY <1>0, <1>7 DEF Go
  <2> QED BY <1>1, <2>1, <2>2
<1>8. CASE UNCHANGED thr
  <2>1. thr' = [thr EXCEPT ![t] = thr[t]]
    BY <1>0, <1>8
  <2> QED BY <1>0, <2>1, ThreadMoves
<1> QED BY <1>1, <1>2, <1>3, <1>4, <1>5, <1>6, <1>7, <1>8

\* Pins come and go without a row's file.
LEMMA PinSteps ==
  ASSUME CacheInv, NEW k \in Keys, NEW b \in BOOLEAN,
         b => crow[k] # NoRow,
         crow' = [crow EXCEPT ![k].pinned = b],
         UNCHANGED <<cfiles, fetched, maint, care>>, xjob' \in ExportJobs,
         \/ UNCHANGED thr
         \/ \E pc \in {"page", "failing"} :
              thr' = [thr EXCEPT ![Exporter] = [IdleThread EXCEPT !.pc = pc]]
  PROVE  CacheInv'
<1>0. /\ thr \in [Threads -> CacheThreads] /\ Exporter \in Threads
      /\ crow \in [Keys -> CacheRows] /\ CacheTypes /\ RowsAreApart
  BY DEF CacheInv, CacheTypes, Threads
<1>1. crow[k] # NoRow <=> crow[k].file # NoPageFile
  BY <1>0, CachedRows
<1> DEFINE r == [crow[k] EXCEPT !.pinned = b]
<1>2. r \in CacheRows /\ r.file = crow[k].file /\ r.pinned = b
  BY <1>0 DEF CacheRows
<1>3. crow' = [crow EXCEPT ![k] = r]
  BY <1>0
<1> HIDE DEF r
<1>4. /\ crow' \in [Keys -> CacheRows]
      /\ \A l \in Keys : /\ crow'[l].file = crow[l].file
                         /\ crow'[l].pinned => crow'[l].file # NoPageFile
  BY <1>0, <1>1, <1>2, <1>3 DEF RowsAreApart
<1>5. CASE UNCHANGED thr
  <2>1. thr' = [thr EXCEPT ![Exporter] = thr[Exporter]] /\ thr[Exporter] \in CacheThreads
    BY <1>0, <1>5
  <2> QED BY <1>0, <1>4, <2>1, ThreadMoves
<1>6. ASSUME NEW pc \in {"page", "failing"},
             thr' = [thr EXCEPT ![Exporter] = [IdleThread EXCEPT !.pc = pc]]
      PROVE  CacheInv'
  <2> DEFINE x == [IdleThread EXCEPT !.pc = pc]
  <2>1. /\ x \in CacheThreads /\ x.pc \notin {"store", "unlink", "clear"} \cup Keyed
        /\ x.drop = {}
    BY DEF IdleThread, CacheThreads, NoPageFile, Keyed
  <2> HIDE DEF x
  <2>2. thr' = [thr EXCEPT ![Exporter] = x]
    BY <1>6 DEF x
  <2> QED BY <1>0, <1>4, <2>1, <2>2, ThreadMoves
<1> QED BY <1>5, <1>6

\* One step of a search, of a user or of the export.
LEMMA SearchInv ==
  ASSUME CacheInv, NEW t \in Threads, Search(t), UNCHANGED careVars
  PROVE  CacheInv'
<1>0. /\ thr \in [Threads -> CacheThreads] /\ thr[t] \in CacheThreads
      /\ crow \in [Keys -> CacheRows] /\ xjob \in ExportJobs /\ UNCHANGED care
      /\ thr[t].pc \in Keyed => thr[t].key \in Keys
      /\ CacheTypes /\ RowsAreApart
  BY DEF CacheInv, CacheTypes, careVars
<1>1. ASSUME NEW k \in Keys, UserSearch(t, k)
      PROVE  CacheInv'
  BY <1>0, <1>1, ThreadSteps DEF UserSearch
<1>2. CASE OpenFile(t)
  BY <1>0, <1>2, ThreadSteps DEF OpenFile, Keyed
<1>3. CASE FetchError(t)
  BY <1>0, <1>3, ThreadSteps DEF FetchError, Keyed
<1>4. CASE StoreRow(t)
  <2>1. CASE FlagUp
    BY <1>0, <1>4, <2>1, ThreadSteps DEF StoreRow
  <2>2. CASE ~FlagUp
    BY <1>4, <2>2, StoreRowInv DEF StoreRow
  <2> QED BY <2>1, <2>2
<1>5. CASE RemoveReplaced(t)
  <2> DEFINE x == [thr[t] EXCEPT !.pc = "evict", !.drop = {}]
             D == {f \in thr[t].drop : ~Referenced(f)}
  <2>1. /\ x \in CacheThreads /\ x.pc = "evict" /\ x.drop = {} /\ x.key = thr[t].key
    BY <1>0 DEF CacheThreads
  <2>2. /\ thr' = [thr EXCEPT ![t] = x] /\ cfiles' = cfiles \ D /\ thr[t].pc = "tidy"
        /\ UNCHANGED <<crow, fetched, maint, xjob>>
    BY <1>0, <1>5 DEF RemoveReplaced
  <2>3. D \subseteq thr[t].drop /\ \A k \in Keys : crow[k].file \notin D
    BY DEF Referenced
  <2> HIDE DEF x, D
  <2>4. x.key \in Keys
    BY <1>0, <2>1, <2>2 DEF Keyed
  <2> QED BY <1>0, <2>1, <2>2, <2>3, <2>4, FilesGo
<1>6. CASE EvictRows(t)
  <2>1. PICK V \in SUBSET {k \in Rows_Cached : ~crow[k].pinned} :
          /\ crow' = [k \in Keys |-> IF k \in V THEN NoRow ELSE crow[k]]
          /\ thr' = [thr EXCEPT ![t].pc = "unlink", ![t].drop = {crow[k].file : k \in V}]
    BY <1>6 DEF EvictRows
  <2> DEFINE d == {crow[k].file : k \in V}
             x == [thr[t] EXCEPT !.pc = "unlink", !.drop = d]
  <2>2. d \subseteq Nat
    BY <1>0, <2>1 DEF Rows_Cached, CacheRows
  <2>3. thr' = [thr EXCEPT ![t] = x]
    BY <1>0, <2>1
  <2> HIDE DEF d
  <2>4. /\ x \in CacheThreads /\ x.pc = "unlink" /\ x.drop = d /\ x.key = thr[t].key
    BY <1>0, <2>2 DEF CacheThreads
  <2> HIDE DEF x
  <2>5. x.key \in Keys
    BY <1>0, <1>6, <2>4 DEF Keyed, EvictRows
  <2>6. x.drop = {crow[k].file : k \in V}
    BY <2>4 DEF d
  <2>7. UNCHANGED <<cfiles, fetched, maint, xjob>>
    BY <1>6 DEF EvictRows
  <2> QED BY <1>0, <2>1, <2>3, <2>4, <2>5, <2>6, <2>7, RowsGo
<1>7. CASE UnlinkFiles(t)
  <2>1. PICK x : /\ x \in CacheThreads /\ thr' = [thr EXCEPT ![t] = x]
                 /\ x.pc \in {"idle", "pin"} /\ x.drop = {}
                 /\ x.pc = "pin" => x.key \in Keys
    <3>1. IdleThread \in CacheThreads /\ IdleThread.pc = "idle" /\ IdleThread.drop = {}
      BY DEF IdleThread, CacheThreads, NoPageFile
    <3>2. CASE thr' = [thr EXCEPT ![t] = IdleThread]
      BY <3>1, <3>2
    <3>3. CASE thr[t].pc = "unlink" /\ Served(t)
      <4> DEFINE y == [IdleThread EXCEPT !.pc = "pin", !.key = thr[t].key]
      <4>1. y \in CacheThreads /\ y.pc = "pin" /\ y.drop = {} /\ y.key \in Keys
        BY <1>0, <3>3 DEF IdleThread, CacheThreads, NoPageFile, Keyed
      <4>2. thr' = [thr EXCEPT ![t] = y] \/ thr' = [thr EXCEPT ![t] = IdleThread]
        BY <3>3 DEF Served
      <4> QED BY <3>1, <4>1, <4>2
    <3> QED BY <1>7, <3>2, <3>3 DEF UnlinkFiles
  <2>2. /\ cfiles' = cfiles \ thr[t].drop /\ UNCHANGED <<crow, fetched, maint, xjob>>
        /\ \A k \in Keys : crow[k].file # NoPageFile => crow[k].file \notin thr[t].drop
    BY <1>7 DEF UnlinkFiles, CacheInv, DropsAreDead
  <2> QED BY <1>0, <2>1, <2>2, FilesGo DEF Keyed
<1>8. CASE ClearRows(t)
  <2> DEFINE d == {crow[k].file : k \in Rows_Cached}
             x == [IdleThread EXCEPT !.pc = "clear", !.drop = d]
  <2>1. thr' = [thr EXCEPT ![t] = x] /\ UNCHANGED <<cfiles, fetched, maint, xjob>>
    BY <1>8 DEF ClearRows
  <2>2. d \subseteq Nat
    BY <1>0 DEF Rows_Cached, CacheRows
  <2> HIDE DEF d
  <2>3. x \in CacheThreads /\ x.pc = "clear" /\ x.drop = d
    BY <2>2 DEF IdleThread, CacheThreads, NoPageFile
  <2> HIDE DEF x
  <2>4. x.drop = {crow[k].file : k \in Rows_Cached}
    BY <2>3 DEF d
  <2>5. crow' = [k \in Keys |-> IF k \in Rows_Cached THEN NoRow ELSE crow[k]]
    BY <1>8 DEF ClearRows, Rows_Cached
  <2> QED BY <1>0, <2>1, <2>3, <2>4, <2>5, RowsGo DEF Keyed
<1> QED BY <1>1, <1>2, <1>3, <1>4, <1>5, <1>6, <1>7, <1>8, WriteFileInv DEF Search

\* One step of the export's own, or the end of the process.
LEMMA ExportInv ==
  ASSUME CacheInv, UNCHANGED careVars,
         \/ StartRun \/ RequestCancel \/ NextPage \/ PinPage \/ UnpinPages
         \/ EndRun \/ FailRun \/ ReleasePins \/ LoseLease \/ CrashWeb
  PROVE  CacheInv'
<1>0. /\ thr \in [Threads -> CacheThreads] /\ Exporter \in Threads
      /\ crow \in [Keys -> CacheRows] /\ xjob \in ExportJobs /\ UNCHANGED care
      /\ thr[Exporter].pc \in Keyed => thr[Exporter].key \in Keys
      /\ CacheTypes /\ RowsAreApart
  BY DEF CacheInv, CacheTypes, careVars, Threads
<1>1. CASE StartRun
  <2>1. xjob' \in ExportJobs
    BY <1>1 DEF StartRun, ExportJobs
  <2> QED BY <1>0, <1>1, <2>1, ThreadSteps DEF StartRun
<1>2. CASE RequestCancel \/ LoseLease
  <2>1. xjob' \in ExportJobs
    BY <1>0, <1>2 DEF RequestCancel, LoseLease, ExportJobs
  <2> QED BY <1>0, <1>2, <2>1, ThreadSteps DEF RequestCancel, LoseLease
<1>3. CASE NextPage
  <2>1. xjob.page \in Nat
    BY <1>0 DEF ExportJobs
  <2>2. xjob.page < Len(ExportPages) => ExportPages[xjob.page + 1] \in Keys
    BY <2>1, CacheAssumption
  <2> QED BY <1>0, <1>3, <2>2, ThreadSteps DEF NextPage
<1>4. CASE PinPage
  <2>1. CASE FlagUp
    BY <1>0, <1>4, <2>1, ThreadSteps DEF PinPage
  <2>2. CASE ~FlagUp
    <3> DEFINE k == thr[Exporter].key
    <3>1. k \in Keys
      BY <1>0, <1>4 DEF PinPage, Keyed
    <3>2. xjob' \in ExportJobs
      <4>1. xjob' = [xjob EXCEPT !.page = @ + 1, !.pins = @ \cup {k}]
        BY <1>4, <2>2 DEF PinPage
      <4> HIDE DEF k
      <4> DEFINE n == xjob.page + 1
                 pins == xjob.pins \cup {k}
      <4>2. n \in Nat /\ pins \in SUBSET Keys
        BY <1>0, <3>1 DEF ExportJobs
      <4>3. xjob' = [xjob EXCEPT !.page = n, !.pins = pins]
        BY <4>1
      <4> HIDE DEF n, pins
      <4> QED BY <1>0, <4>2, <4>3 DEF ExportJobs
    <3>3. /\ crow' = [crow EXCEPT ![k].pinned = (crow[k] # NoRow)]
          /\ UNCHANGED <<cfiles, fetched, maint>>
          /\ \E pc \in {"page", "failing"} :
               thr' = [thr EXCEPT ![Exporter] = [IdleThread EXCEPT !.pc = pc]]
      BY <1>4, <2>2 DEF PinPage
    <3> HIDE DEF k
    <3> QED BY <1>0, <3>1, <3>2, <3>3, PinSteps
  <2> QED BY <2>1, <2>2
<1>5. ASSUME NEW k \in xjob.pins, Release(k), UNCHANGED <<thr, cfiles, fetched, maint>>
      PROVE  CacheInv'
  <2>1. k \in Keys /\ xjob' \in ExportJobs
    BY <1>0, <1>5 DEF Release, ExportJobs
  <2>2. crow' = [crow EXCEPT ![k].pinned = FALSE]
    BY <1>5 DEF Release
  <2> QED BY <1>0, <1>5, <2>1, <2>2, PinSteps
<1>6. CASE UnpinPages
  <2>1. CASE UNCHANGED <<crow, xjob>> /\ \E pc \in {"finish", "failing"} : Go(Exporter, pc)
    BY <1>0, <1>6, <2>1, ThreadSteps DEF UnpinPages
  <2>2. CASE (\E k \in xjob.pins : Release(k)) /\ UNCHANGED thr
    BY <1>5, <1>6, <2>2 DEF UnpinPages
  <2> QED BY <1>6, <2>1, <2>2 DEF UnpinPages
<1>7. CASE EndRun
  <2>1. xjob' \in ExportJobs
    BY <1>0, <1>7 DEF EndRun, ExportJobs
  <2> QED BY <1>0, <1>7, <2>1, ThreadSteps DEF EndRun
<1>8. CASE FailRun
  <2>1. xjob' \in ExportJobs
    BY <1>0, <1>8 DEF FailRun, ExportJobs
  <2> QED BY <1>0, <1>8, <2>1, ThreadSteps DEF FailRun
<1>9. CASE ReleasePins
  <2>1. CASE xjob.pins = {}
    BY <1>0, <1>9, <2>1, ThreadSteps DEF ReleasePins
  <2>2. ASSUME NEW k \in xjob.pins, xjob' = [xjob EXCEPT !.pins = @ \ {k}],
               UNCHANGED <<crow, thr>>
        PROVE  CacheInv'
    <3>1. xjob' \in ExportJobs
      BY <1>0, <2>2 DEF ExportJobs
    <3> QED BY <1>0, <1>9, <2>2, <3>1, ThreadSteps DEF ReleasePins
  <2> QED BY <1>5, <1>9, <2>1, <2>2 DEF ReleasePins
<1>10. CASE CrashWeb
  <2>1. xjob' \in ExportJobs
    BY <1>0, <1>10 DEF CrashWeb, ExportJobs
  <2>2. /\ thr' = [t \in Threads |-> IdleThread]
        /\ UNCHANGED <<crow, cfiles, fetched, maint>>
    BY <1>10 DEF CrashWeb
  <2>3. /\ IdleThread \in CacheThreads /\ IdleThread.pc = "idle" /\ IdleThread.drop = {}
    BY DEF IdleThread, CacheThreads, NoPageFile
  <2>4. \A t \in Threads : thr'[t] = IdleThread
    BY <2>2
  <2>5. CacheTypes'
    BY <1>0, <2>1, <2>2, <2>3 DEF CacheTypes, Keyed
  <2>6. FilesAreOld' /\ PendingIsOwn' /\ DropsAreDead'
    BY <1>0, <2>2, <2>3, <2>4 DEF CacheInv, FilesAreOld, PendingIsOwn, DropsAreDead
  <2>7. RowsAreApart' /\ CareIsApart' /\ RowHasFile'
    BY <1>0, <2>2 DEF CacheInv, RowsAreApart, CareIsApart, RowHasFile, Rows_Cached
  <2> QED BY <2>5, <2>6, <2>7 DEF CacheInv
<1> QED BY <1>1, <1>2, <1>3, <1>4, <1>6, <1>7, <1>8, <1>9, <1>10

\* The steps of a backup or a pruning that leave rows and files alone.
LEMMA CareMoves ==
  ASSUME CacheInv, NEW c \in CareRecords, care' = c,
         \A f \in c.files : f <= fetched,
         \A t \in Threads : thr[t].pc = "store" => thr[t].file \notin c.files,
         c.pc # "idle" => maint' \in {"backup", "prune"},
         c.pc \in {"rows", "files"} =>
            \A k \in Keys : crow[k].file # NoPageFile /\ crow[k].file \in c.files =>
                              c.pc = "rows" /\ k \in c.keys,
         UNCHANGED <<crow, cfiles, fetched, thr, xjob>>
  PROVE  CacheInv'
<1>1. CacheTypes' /\ RowsAreApart' /\ DropsAreDead' /\ RowHasFile'
  BY DEF CacheInv, CacheTypes, RowsAreApart, DropsAreDead, RowHasFile, Rows_Cached
<1>2. FilesAreOld' /\ PendingIsOwn'
  BY DEF CacheInv, FilesAreOld, PendingIsOwn
<1>3. CareIsApart'
  BY DEF CareIsApart
<1> QED BY <1>1, <1>2, <1>3 DEF CacheInv

\* One step of a backup, a pruning or what follows the death of one.
LEMMA CareInv ==
  ASSUME CacheInv,
         \/ EnterCare("prune", FALSE) \/ \E c \in BOOLEAN : EnterCare("backup", c)
         \/ CrashCare \/ ClearLeftFlag
         \/ CopyDatabases \/ ListArtifacts \/ WriteZip
         \/ PlanPruning \/ PruneRows \/ PruneFiles
  PROVE  CacheInv'
<1>0. /\ thr \in [Threads -> CacheThreads] /\ care \in CareRecords
      /\ crow \in [Keys -> CacheRows] /\ CacheTypes /\ RowsAreApart
      /\ \A f \in care.files : f <= fetched
      /\ \A t \in Threads : thr[t].pc = "store" => thr[t].file \notin care.files
      /\ care.pc # "idle" => maint \in {"backup", "prune"}
  BY DEF CacheInv, CacheTypes, FilesAreOld, PendingIsOwn, CareIsApart
<1>a. NoRow \in CacheRows /\ NoRow.file = NoPageFile /\ NoPageFile = 0 /\ ~NoRow.pinned
  BY DEF NoRow, CacheRows, NoPageFile
<1>b. /\ NoCare \in CareRecords /\ NoCare.pc = "idle" /\ NoCare.files = {}
      /\ NoCare.keys = {}
  <2>1. [k \in Keys |-> NoRow] \in [Keys -> CacheRows]
    BY <1>a
  <2> DEFINE e == [k \in Keys |-> NoRow]
  <2> HIDE DEF e
  <2>2. NoCare = [pc |-> "idle", cache |-> FALSE, rows |-> e, keys |-> {}, files |-> {}]
    BY DEF NoCare, e
  <2>3. e \in [Keys -> CacheRows]
    BY <2>1 DEF e
  <2> QED BY <2>2, <2>3 DEF CareRecords
<1>c. /\ \A k \in Keys : crow[k].file \in Nat /\ crow[k].file <= fetched
      /\ \A t \in Threads : thr[t].pc = "store" =>
           \A k \in Keys : crow[k].file # thr[t].file
  BY <1>0 DEF CacheInv, FilesAreOld, PendingIsOwn, CacheRows
<1>d. Rows_Cached = {k \in Keys : crow[k].file # NoPageFile}
  BY <1>0, CachedRows
<1>1. ASSUME NEW op \in {"backup", "prune"}, NEW b \in BOOLEAN, EnterCare(op, b)
      PROVE  CacheInv'
  <2> DEFINE c == [NoCare EXCEPT !.pc = IF op = "backup" THEN "copy" ELSE "plan",
                                 !.cache = b]
  <2>1. /\ care' = c /\ maint' = op /\ UNCHANGED <<crow, cfiles, fetched, thr, xjob>>
    BY <1>1 DEF EnterCare
  <2>2. c \in CareRecords /\ c.files = {} /\ c.pc \in {"copy", "plan"}
    BY <1>b DEF CareRecords
  <2> HIDE DEF c
  <2> QED BY <2>1, <2>2, CareMoves
<1>2. CASE care' = NoCare /\ UNCHANGED <<crow, cfiles, fetched, thr, xjob>>
  BY <1>2, <1>b, CareMoves
<1>3. CASE ClearLeftFlag
  <2>1. care.pc = "idle" /\ care' = care /\ UNCHANGED <<crow, cfiles, fetched, thr, xjob>>
    BY <1>0, <1>3 DEF ClearLeftFlag, careVars
  <2> QED BY <1>0, <2>1, CareMoves
<1>4. CASE CopyDatabases
  <2> DEFINE m == IF care.cache THEN crow ELSE [k \in Keys |-> NoRow]
             c == [care EXCEPT !.pc = "list", !.rows = m]
  <2>1. m \in [Keys -> CacheRows]
    BY <1>0, <1>a
  <2>2. care' = c /\ UNCHANGED cacheVars /\ care.pc = "copy"
    BY <1>4 DEF CopyDatabases
  <2> HIDE DEF m
  <2>3. c \in CareRecords /\ c.pc = "list" /\ c.files = care.files
    BY <1>0, <2>1 DEF CareRecords
  <2> HIDE DEF c
  <2> QED BY <1>0, <2>2, <2>3, CareMoves DEF cacheVars
<1>5. CASE ListArtifacts
  <2> DEFINE d == IF care.cache THEN {crow[k].file : k \in Rows_Cached} ELSE {}
             c == [care EXCEPT !.pc = "zip", !.files = d]
  <2>1. /\ d \subseteq Nat /\ \A f \in d : f <= fetched
        /\ \A t \in Threads : thr[t].pc = "store" => thr[t].file \notin d
    BY <1>c, <1>d
  <2>2. \/ care' = NoCare
        \/ care' = c /\ UNCHANGED maint
    BY <1>5 DEF ListArtifacts, LeaveCare
  <2>3. UNCHANGED <<crow, cfiles, fetched, thr, xjob>> /\ care.pc = "list"
    BY <1>5 DEF ListArtifacts
  <2> HIDE DEF d
  <2>4. c \in CareRecords /\ c.pc = "zip" /\ c.files = d
    BY <1>0, <2>1 DEF CareRecords
  <2> HIDE DEF c
  <2>5. CASE care' = c /\ UNCHANGED maint
    BY <1>0, <2>1, <2>3, <2>4, <2>5, CareMoves
  <2> QED BY <1>2, <2>2, <2>3, <2>5
<1>6. CASE PlanPruning
  <2>1. PICK keys \in SUBSET {k \in Rows_Cached : ~crow[k].pinned} :
          care' = [care EXCEPT !.pc = "rows", !.keys = keys,
                     !.files = {crow[k].file : k \in keys}
                                 \ {crow[k].file : k \in Rows_Cached \ keys}]
    BY <1>6 DEF PlanPruning
  <2> DEFINE d == {crow[k].file : k \in keys} \ {crow[k].file : k \in Rows_Cached \ keys}
             c == [care EXCEPT !.pc = "rows", !.keys = keys, !.files = d]
  <2>2. /\ d \subseteq Nat /\ keys \subseteq Keys /\ \A f \in d : f <= fetched
        /\ \A t \in Threads : thr[t].pc = "store" => thr[t].file \notin d
    BY <1>c, <1>d, <2>1
  <2>3. \A k \in Keys : crow[k].file # NoPageFile /\ crow[k].file \in d => k \in keys
    BY <1>d
  <2>4. care' = c
    BY <2>1
  <2>5. UNCHANGED <<crow, cfiles, fetched, thr, xjob, maint>> /\ care.pc = "plan"
    BY <1>6 DEF PlanPruning, cacheVars
  <2> HIDE DEF d
  <2>6. c \in CareRecords /\ c.pc = "rows" /\ c.files = d /\ c.keys = keys
    BY <1>0, <2>2 DEF CareRecords
  <2> HIDE DEF c
  <2> QED BY <1>0, <2>2, <2>3, <2>4, <2>5, <2>6, CareMoves
<1>7. CASE PruneRows
  <2> DEFINE c == [care EXCEPT !.pc = "files"]
  <2>1. /\ crow' = [k \in Keys |-> IF k \in care.keys THEN NoRow ELSE crow[k]]
        /\ care' = c /\ care.pc = "rows" /\ UNCHANGED <<cfiles, fetched, maint, thr, xjob>>
    BY <1>7 DEF PruneRows
  <2>2. c \in CareRecords /\ c.pc = "files" /\ c.files = care.files /\ c.keys = care.keys
    BY <1>0 DEF CareRecords
  <2> HIDE DEF c
  <2>3. \A k \in Keys : /\ crow'[k] \in CacheRows
                        /\ k \in care.keys => crow'[k] = NoRow
                        /\ k \notin care.keys => crow'[k] = crow[k]
    BY <1>0, <1>a, <2>1
  <2>4. CacheTypes'
    <3>1. crow' \in [Keys -> CacheRows]
      BY <2>1, <2>3
    <3> QED BY <1>0, <2>1, <2>2, <3>1 DEF CacheTypes
  <2>5. RowsAreApart'
    BY <1>0, <1>a, <2>3 DEF RowsAreApart
  <2>6. FilesAreOld'
    <3>1. \A k \in Keys : crow'[k].file <= fetched
      BY <1>0, <1>a, <1>c, <2>3 DEF CacheTypes
    <3> QED BY <2>1, <2>2, <3>1 DEF CacheInv, FilesAreOld
  <2>7. PendingIsOwn'
    <3>1. \A t \in Threads : thr[t].pc = "store" =>
            \A k \in Keys : crow'[k].file # thr[t].file
      BY <1>a, <1>c, <2>3 DEF CacheInv, PendingIsOwn
    <3> QED BY <2>1, <2>2, <3>1 DEF CacheInv, PendingIsOwn
  <2>8. DropsAreDead'
    BY <1>a, <2>1, <2>3 DEF CacheInv, DropsAreDead
  <2>9. CareIsApart'
    BY <1>0, <1>a, <2>1, <2>2, <2>3 DEF CacheInv, CareIsApart
  <2>10. RowHasFile'
    BY <2>1, <2>3 DEF CacheInv, RowHasFile, Rows_Cached
  <2> QED BY <2>4, <2>5, <2>6, <2>7, <2>8, <2>9, <2>10 DEF CacheInv
<1>8. CASE PruneFiles
  <2>1. /\ cfiles' = cfiles \ care.files /\ care.pc = "files" /\ care' = NoCare
        /\ UNCHANGED <<crow, fetched, thr, xjob>>
    BY <1>8 DEF PruneFiles, LeaveCare
  <2>2. \A k \in Keys : crow[k].file # NoPageFile => crow[k].file \notin care.files
    BY <2>1 DEF CacheInv, CareIsApart
  <2>3. CacheTypes' /\ RowsAreApart' /\ DropsAreDead'
    BY <1>b, <2>1 DEF CacheInv, CacheTypes, RowsAreApart, DropsAreDead
  <2>4. FilesAreOld' /\ CareIsApart'
    BY <1>b, <2>1 DEF CacheInv, FilesAreOld, CareIsApart
  <2>5. PendingIsOwn'
    BY <1>0, <1>b, <2>1 DEF CacheInv, PendingIsOwn
  <2>6. RowHasFile'
    BY <1>d, <2>1, <2>2 DEF CacheInv, RowHasFile, Rows_Cached
  <2> QED BY <2>3, <2>4, <2>5, <2>6 DEF CacheInv
<1>9. CASE CrashCare \/ WriteZip
  BY <1>2, <1>9 DEF CrashCare, WriteZip, LeaveCare
<1> QED BY <1>1, <1>3, <1>4, <1>5, <1>6, <1>7, <1>8, <1>9

\* A row of the cache always has its file, for any number of pages, searches and
\* maintenance operations.
THEOREM CachedPagesAreThere == Spec_Care => []RowHasFile
<1>1. Init_Care => CacheInv
  <2> SUFFICES ASSUME Init_Care PROVE CacheInv
    OBVIOUS
  <2>1. NoRow \in CacheRows /\ NoRow.file = NoPageFile /\ NoPageFile = 0 /\ ~NoRow.pinned
    BY DEF NoRow, CacheRows, NoPageFile
  <2>2. /\ IdleThread \in CacheThreads /\ IdleThread.pc = "idle" /\ IdleThread.drop = {}
    BY DEF IdleThread, CacheThreads, NoPageFile
  <2> DEFINE e == [k \in Keys |-> NoRow]
  <2>3. e \in [Keys -> CacheRows]
    BY <2>1
  <2> HIDE DEF e
  <2>4. NoCare = [pc |-> "idle", cache |-> FALSE, rows |-> e, keys |-> {}, files |-> {}]
    BY DEF NoCare, e
  <2>5. care \in CareRecords /\ care.pc = "idle" /\ care.files = {}
    BY <2>3, <2>4 DEF Init_Care, CareRecords
  <2>6. xjob \in ExportJobs
    BY DEF Init_Care, Init_Cache, ExportJobs
  <2>7. \A t \in Threads : thr[t] = IdleThread
    BY DEF Init_Care, Init_Cache
  <2>8. CacheTypes
    BY <2>1, <2>2, <2>5, <2>6 DEF Init_Care, Init_Cache, CacheTypes, Keyed
  <2>9. \A k \in Keys : crow[k] = NoRow
    BY DEF Init_Care, Init_Cache
  <2>10. FilesAreOld /\ RowsAreApart
    BY <2>1, <2>2, <2>5, <2>7, <2>9 DEF FilesAreOld, RowsAreApart, Init_Care, Init_Cache
  <2>11. PendingIsOwn /\ DropsAreDead /\ CareIsApart /\ RowHasFile
    BY <2>2, <2>5, <2>7, <2>9 DEF PendingIsOwn, DropsAreDead, CareIsApart, RowHasFile,
       Rows_Cached
  <2> QED BY <2>8, <2>10, <2>11 DEF CacheInv
<1>2. CacheInv /\ [Next_Care]_<<cacheVars, careVars>> => CacheInv'
  <2> SUFFICES ASSUME CacheInv, [Next_Care]_<<cacheVars, careVars>>
               PROVE  CacheInv'
    OBVIOUS
  <2>1. CASE Next_Cache /\ UNCHANGED careVars
    BY <2>1, SearchInv, ExportInv DEF Next_Cache
  <2>2. CASE UNCHANGED <<cacheVars, careVars>>
    BY <2>2 DEF cacheVars, careVars, CacheInv, CacheTypes, FilesAreOld, RowsAreApart,
       PendingIsOwn, DropsAreDead, CareIsApart, RowHasFile, Rows_Cached
  <2> QED BY <2>1, <2>2, CareInv DEF Next_Care
<1>3. CacheInv => RowHasFile
  BY DEF CacheInv
<1> QED BY <1>1, <1>2, <1>3, PTL DEF Spec_Care
=============================================================================
