----------------------------- MODULE HpdLoading -----------------------------
(***************************************************************************)
(* The hosted copy of the HPD violations (ingestion/hpd_violations.py,     *)
(* ingestion/runners.py, cli/ingest.py).                                   *)
(*                                                                         *)
(* A load is a full snapshot in the order of the ids, or a delta in the    *)
(* order of the status dates that starts OverlapDays before the watermark  *)
(* of the last complete load.  Each page is upserted and committed, and    *)
(* then its key; a load that stops is resumed from that key by the next    *)
(* one of the same mode.  Meanwhile days pass and the dataset changes: a   *)
(* violation that is new or changes gets the date of the day.              *)
(*                                                                         *)
(* A page is one row.  Every row has a status date.                        *)
(***************************************************************************)
EXTENDS Naturals, FiniteSetsExt

CONSTANTS HpdRows, OverlapDays, LastLoadDay, MaxStatusChanges

ASSUME LoadingAssumption ==
  /\ HpdRows \subseteq Nat \ {0} /\ HpdRows # {}
  /\ OverlapDays \in Nat /\ LastLoadDay \in Nat

VARIABLES today,      \* the date
          dataset,    \* the published rows: date 0 for one that is not there
          changes,    \* how many changes were published
          table,      \* the rows of hpd_violations, likewise
          checkpoint, \* the row of hpd_ingestion_checkpoints
          load,       \* the running load
          since,      \* the day the load under way was begun on
          slow        \* a load was spread over more days than the overlap
loadingVars == <<today, dataset, changes, table, checkpoint, load, since, slow>>

Unpublished == [date |-> 0, rev |-> 0]
NoKey == [date |-> 0, id |-> 0]
NotLoading == [at |-> "idle", mode |-> "none", from |-> 0, row |-> 0, read |-> Unpublished]
NoCheckpoint == [mode |-> "none", key |-> NoKey, watermark |-> 0, complete |-> FALSE]

Init_Loading ==
  /\ today = 1 /\ changes = 0
  /\ dataset \in [HpdRows -> {Unpublished, [date |-> 1, rev |-> 0]}]
  /\ table = [v \in HpdRows |-> Unpublished]
  /\ checkpoint = NoCheckpoint
  /\ load = NotLoading
  /\ since = 0 /\ slow = FALSE
-----------------------------------------------------------------------------
(* What the site does. *)
PublishChange(v) ==
  /\ changes < MaxStatusChanges
  /\ changes' = changes + 1
  /\ dataset' = [dataset EXCEPT ![v] = [date |-> today, rev |-> changes + 1]]
  /\ UNCHANGED <<today, table, checkpoint, load, since, slow>>

NextDay ==
  /\ today < LastLoadDay
  /\ today' = today + 1
  /\ UNCHANGED <<dataset, changes, table, checkpoint, load, since, slow>>
-----------------------------------------------------------------------------
Earlier(date) == IF date > OverlapDays THEN date - OverlapDays ELSE 0

(* The mode of a load: auto is a delta after a complete load; a delta      *)
(* without a watermark is full.                                            *)
RunMode(requested) ==
  LET mode == IF requested # "auto" THEN requested
              ELSE IF checkpoint.complete THEN "delta" ELSE "full" IN
  IF checkpoint.watermark = 0 THEN "full" ELSE mode

Resuming(mode) == ~checkpoint.complete /\ checkpoint.mode = mode

\* Mutant: a load keeps the page key of an interrupted load of the other mode.
KeyKept(mode) ==
  IF Resuming(mode) THEN checkpoint
  ELSE [checkpoint EXCEPT !.mode = mode, !.complete = FALSE]
(* The checkpoint a load starts from. *)
StartingPoint(mode) ==
  IF Resuming(mode) THEN checkpoint
  ELSE [checkpoint EXCEPT !.mode = mode, !.key = NoKey, !.complete = FALSE]

BeginLoad(requested) ==
  LET mode == RunMode(requested) IN
  /\ load = NotLoading
  /\ checkpoint' = StartingPoint(mode)
  /\ load' = [NotLoading EXCEPT !.at = "fetching", !.mode = mode,
                                !.from = Earlier(checkpoint.watermark)]
  /\ since' = IF Resuming(mode) THEN since ELSE today
  /\ UNCHANGED <<today, dataset, changes, table, slow>>

(* socrata_page_url: the rows a page request asks for, and their order. *)
Asked ==
  {v \in HpdRows : dataset[v] # Unpublished /\
     IF load.mode = "full" THEN v > checkpoint.key.id
     ELSE IF checkpoint.key = NoKey THEN dataset[v].date >= load.from
     ELSE \/ dataset[v].date > checkpoint.key.date
          \/ dataset[v].date = checkpoint.key.date /\ v > checkpoint.key.id}
OrderedBefore(v, w) ==
  IF load.mode = "full" THEN v <= w
  ELSE \/ dataset[v].date < dataset[w].date
       \/ dataset[v].date = dataset[w].date /\ v <= w

FetchPage ==
  /\ load.at = "fetching" /\ Asked # {}
  /\ \E v \in Asked :
       /\ \A w \in Asked : OrderedBefore(v, w)
       /\ load' = [load EXCEPT !.at = "fetched", !.row = v, !.read = dataset[v]]
  /\ UNCHANGED <<today, dataset, changes, table, checkpoint, since, slow>>

(* upsert_hpd_violations commits the rows of the page. *)
UpsertPage ==
  /\ load.at = "fetched"
  /\ table' = [table EXCEPT ![load.row] = load.read]
  /\ load' = [load EXCEPT !.at = "upserted"]
  /\ UNCHANGED <<today, dataset, changes, checkpoint, since, slow>>

(* page_key_for_records, persist_manifest and the commit. *)
CommitKey ==
  /\ load.at = "upserted"
  /\ checkpoint' = [checkpoint EXCEPT !.key =
       [date |-> IF load.mode = "full" THEN 0 ELSE load.read.date, id |-> load.row]]
  /\ load' = [load EXCEPT !.at = "fetching", !.row = 0, !.read = Unpublished]
  /\ UNCHANGED <<today, dataset, changes, table, since, slow>>

(* An empty page ends the load: the watermark is the latest date of the    *)
(* table.                                                                  *)
FinishLoad ==
  LET latest == Max({table[v].date : v \in HpdRows}) IN
  /\ load.at = "fetching" /\ Asked = {}
  /\ checkpoint' = [checkpoint EXCEPT !.key = NoKey, !.complete = TRUE,
                      !.watermark = IF latest > 0 THEN latest ELSE @]
  /\ slow' = (slow \/ today - since > OverlapDays)
  /\ since' = 0
  /\ load' = NotLoading
  /\ UNCHANGED <<today, dataset, changes, table>>

(* A request or the process fails: record_ingestion_run records it or      *)
(* cannot, and what was committed stays.                                   *)
LoadStops ==
  /\ load # NotLoading
  /\ load' = NotLoading
  /\ UNCHANGED <<today, dataset, changes, table, checkpoint, since, slow>>

Next_Loading ==
  \/ \E v \in HpdRows : PublishChange(v)
  \/ NextDay
  \/ \E requested \in {"auto", "full", "delta"} : BeginLoad(requested)
  \/ FetchPage \/ UpsertPage \/ CommitKey \/ FinishLoad \/ LoadStops

Spec_Loading == Init_Loading /\ [][Next_Loading]_loadingVars
-----------------------------------------------------------------------------
(* After a complete load, every row that the next delta will not ask for   *)
(* is stored as it is published, whatever changed while pages were read,   *)
(* whatever was interrupted, resumed or repeated in the other mode: as     *)
(* long as no load, with its interruptions, was spread over more days      *)
(* than the overlap (hpd_violations.py:300-428).                           *)
NextDeltaMissesNothing ==
  checkpoint.complete /\ ~slow =>
    \A v \in HpdRows : dataset[v].date < Earlier(checkpoint.watermark) => table[v] = dataset[v]
=============================================================================
