--------------------------- MODULE WorkspaceCare ---------------------------
(***************************************************************************)
(* Backup and pruning beside the property cache                            *)
(* (maintenance/backup.py, maintenance/retention.py).                      *)
(*                                                                         *)
(* Both operations raise the maintenance flag when no job is active and    *)
(* lower it at the end; the process that runs them may die under it.  A    *)
(* backup copies the state database, then reads the live rows for the      *)
(* files to archive, then archives the files.                              *)
(***************************************************************************)
EXTENDS PropertyCache

CONSTANT MaxCare     \* a bound on the maintenance operations

VARIABLES cares,    \* maintenance operations so far
          care,     \* the maintenance operation's own state
          archive   \* the finished backup: rows of its database, its files
careVars == <<cares, care, archive>>

NoCare == [pc |-> "idle", cache |-> FALSE, rows |-> [k \in Keys |-> NoRow],
           keys |-> {}, files |-> {}]
NoArchive == [made |-> FALSE, rows |-> [k \in Keys |-> NoRow], files |-> {}]

Init_Care == /\ Init_Cache
             /\ cares = 0 /\ care = NoCare /\ archive = NoArchive

-----------------------------------------------------------------------------
(* The barrier as backup and pruning use it. *)

EnterCare(op, withCache) ==
  /\ care.pc = "idle" /\ maint \in {"down", "left"} /\ ~JobActive
  /\ cares < MaxCare /\ cares' = cares + 1
  /\ maint' = op
  /\ care' = [NoCare EXCEPT !.pc = IF op = "backup" THEN "copy" ELSE "plan",
                            !.cache = withCache]
  /\ UNCHANGED <<crow, cfiles, fetched, thr, xjob, archive>>

LeaveCare == maint' = "down" /\ care' = NoCare

(* The operation's process dies: the flag stays up until a job's admission  *)
(* or another operation finds that nobody holds the lock.                   *)
CrashCare ==
  /\ care.pc # "idle"
  /\ maint' = "left" /\ care' = NoCare
  /\ UNCHANGED <<crow, cfiles, fetched, thr, xjob, cares, archive>>

ClearLeftFlag ==
  /\ maint = "left" /\ maint' = "down"
  /\ UNCHANGED <<crow, cfiles, fetched, thr, xjob>> /\ UNCHANGED careVars

-----------------------------------------------------------------------------
(* WorkspaceBackupService.create *)

(* Both databases are copied; the copy's cache rows are deleted unless the  *)
(* cache is wanted.                                                         *)
CopyDatabases ==
  /\ care.pc = "copy"
  /\ care' = [care EXCEPT !.pc = "list",
                !.rows = IF care.cache THEN crow ELSE [k \in Keys |-> NoRow]]
  /\ UNCHANGED cacheVars /\ UNCHANGED <<cares, archive>>

(* The files of the live rows; one that is missing ends the backup. *)
ListArtifacts ==
  /\ care.pc = "list"
  /\ LET files == IF care.cache THEN {crow[k].file : k \in Rows_Cached} ELSE {} IN
     IF files \subseteq cfiles
     THEN care' = [care EXCEPT !.pc = "zip", !.files = files] /\ UNCHANGED maint
     ELSE LeaveCare
  /\ UNCHANGED <<crow, cfiles, fetched, thr, xjob, cares, archive>>

(* The archive is written beside its destination and renamed; a file that   *)
(* has gone in the meantime ends the backup.                                *)
WriteZip ==
  /\ care.pc = "zip"
  /\ archive' = IF care.files \subseteq cfiles
                THEN [made |-> TRUE, rows |-> care.rows, files |-> care.files]
                ELSE archive
  /\ LeaveCare
  /\ UNCHANGED <<crow, cfiles, fetched, thr, xjob, cares>>

-----------------------------------------------------------------------------
(* WorkspaceRetentionService.run, as far as the cache goes. *)

\* Mutant: the files of the pruned rows are deleted before the rows.
PlanFilesFirst ==
  /\ care.pc = "plan"
  /\ \E keys \in SUBSET {k \in Rows_Cached : ~crow[k].pinned} :
       /\ care' = [care EXCEPT !.pc = "rows", !.keys = keys]
       /\ cfiles' = cfiles \ {crow[k].file : k \in keys}
  /\ UNCHANGED <<crow, fetched, maint, thr, xjob, cares, archive>>

(* The rows to prune, unpinned and fetched before the cutoff, and the files *)
(* that only they refer to.                                                 *)
PlanPruning ==
  /\ care.pc = "plan"
  /\ \E keys \in SUBSET {k \in Rows_Cached : ~crow[k].pinned} :
       care' = [care EXCEPT !.pc = "rows", !.keys = keys,
                  !.files = {crow[k].file : k \in keys}
                              \ {crow[k].file : k \in Rows_Cached \ keys}]
  /\ UNCHANGED cacheVars /\ UNCHANGED <<cares, archive>>

PruneRows ==
  /\ care.pc = "rows"
  /\ crow' = [k \in Keys |-> IF k \in care.keys THEN NoRow ELSE crow[k]]
  /\ care' = [care EXCEPT !.pc = "files"]
  /\ UNCHANGED <<cfiles, fetched, maint, thr, xjob, cares, archive>>

PruneFiles ==
  /\ care.pc = "files"
  /\ cfiles' = cfiles \ care.files
  /\ LeaveCare
  /\ UNCHANGED <<crow, fetched, thr, xjob, cares, archive>>

-----------------------------------------------------------------------------
Next_Care ==
  \/ Next_Cache /\ UNCHANGED careVars
  \/ EnterCare("prune", FALSE) \/ \E c \in BOOLEAN : EnterCare("backup", c)
  \/ CrashCare \/ ClearLeftFlag
  \/ CopyDatabases \/ ListArtifacts \/ WriteZip
  \/ PlanPruning \/ PruneRows \/ PruneFiles

Spec_Care == Init_Care /\ [][Next_Care]_<<cacheVars, careVars>>
-----------------------------------------------------------------------------
(* An archive with the property cache is consistent: every cache row of its *)
(* database has its file in it.                                             *)
ArchiveIsConsistent ==
  archive.made => \A k \in Keys :
    archive.rows[k] # NoRow => archive.rows[k].file \in archive.files
=============================================================================
