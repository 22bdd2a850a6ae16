------------------------------ MODULE MCUpkeep ------------------------------
(***************************************************************************)
(* Instances for TLC: what keeps a workspace, and the hosted corpus, in    *)
(* order.  The parts share no state, so a behaviour is of one of them,     *)
(* chosen at the start, while the others rest.                             *)
(***************************************************************************)
EXTENDS Migration, WorkspaceCare, Retention, WorkspaceRestore, HpdLoading,
        HostedSources, Launching, WorkspaceSettings, SourceDownloads

VARIABLE part
allVars == <<part, vars, cacheVars, careVars, retentionVars, restoreVars,
             loadingVars, sourceVars, launchVars, settingsVars, downloadVars>>

TwoPages == <<"k1", "k2">>

(* Two of the editions of an official source have the same sections. *)
SectionsOf == [e \in Editions |-> IF e = "e3" THEN "changed" ELSE "same"]

MCInit ==
  /\ part \in {"migration", "care", "uploads", "history", "restore", "loading", "sources",
              "launching", "settings", "downloads"}
  /\ Init /\ (part # "migration" => origin = <<1, 1>>)
  /\ Init_Care
  /\ Init_Retention /\ (part # "history" => period = 1)
  /\ Init_Restore /\ (part # "restore" => damaged = {})
  /\ Init_Loading /\ (part # "loading" => \A v \in HpdRows : dataset[v] = Unpublished)
  /\ Init_Sources /\ (part # "sources" => website = "v1")
  /\ Init_Launching /\ (part # "launching" => condition[1] = "new")
  /\ Init_Settings /\ (part # "settings" => ~initialized /\ secrets = {})
  /\ Init_Downloads
  /\ (part # "downloads" => sourceKind = "file" /\ issued = "e1" /\ ~validates)

Migrates ==
  /\ part = "migration" /\ Next
  /\ UNCHANGED <<part, cacheVars, careVars, retentionVars, restoreVars,
                 loadingVars, sourceVars, launchVars, settingsVars, downloadVars>>
Upgrades ==
  /\ part = "migration" /\ Upgrade
  /\ UNCHANGED <<part, cacheVars, careVars, retentionVars, restoreVars,
                 loadingVars, sourceVars, launchVars, settingsVars, downloadVars>>
Cares ==
  /\ part = "care" /\ Next_Care
  /\ UNCHANGED <<part, vars, retentionVars, restoreVars, loadingVars,
                 sourceVars, launchVars, settingsVars, downloadVars>>
(* Uploads and usage history share a pruning and no more. *)
Retains ==
  /\ \/ part = "uploads" /\ UNCHANGED usageVars
     \/ part = "history" /\ UNCHANGED uploadVars
  /\ Next_Retention
  /\ UNCHANGED <<part, vars, cacheVars, careVars, restoreVars, loadingVars,
                 sourceVars, launchVars, settingsVars, downloadVars>>
RestoresBackup ==
  /\ part = "restore" /\ Next_Restore
  /\ UNCHANGED <<part, vars, cacheVars, careVars, retentionVars, loadingVars,
                 sourceVars, launchVars, settingsVars, downloadVars>>
Loads ==
  /\ part = "loading" /\ Next_Loading
  /\ UNCHANGED <<part, vars, cacheVars, careVars, retentionVars, restoreVars,
                 sourceVars, launchVars, settingsVars, downloadVars>>
Ingests ==
  /\ part = "sources" /\ Next_Sources
  /\ UNCHANGED <<part, vars, cacheVars, careVars, retentionVars, restoreVars,
                 loadingVars, launchVars, settingsVars, downloadVars>>
Launches ==
  /\ part = "launching" /\ Next_Launching
  /\ UNCHANGED <<part, vars, cacheVars, careVars, retentionVars, restoreVars,
                 loadingVars, sourceVars, settingsVars, downloadVars>>
Configures ==
  /\ part = "settings" /\ Next_Settings
  /\ UNCHANGED <<part, vars, cacheVars, careVars, retentionVars, restoreVars,
                 loadingVars, sourceVars, launchVars, downloadVars>>

Downloads ==
  /\ part = "downloads" /\ Next_Downloads
  /\ UNCHANGED <<part, vars, cacheVars, careVars, retentionVars, restoreVars,
                 loadingVars, sourceVars, launchVars, settingsVars>>

MCNext ==
  \/ Migrates \/ Cares \/ Retains \/ RestoresBackup \/ Loads \/ Ingests \/ Launches
  \/ Configures \/ Downloads
MCSpec == MCInit /\ [][MCNext]_allVars /\ WF_allVars(Upgrades)
=============================================================================
