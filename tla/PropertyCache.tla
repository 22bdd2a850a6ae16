--------------------------- MODULE PropertyCache ---------------------------
(***************************************************************************)
(* Cached property pages and the exports that pin them (hpd/cache.py,      *)
(* hpd/complete.py, jobs/property_exports.py).                             *)
(*                                                                         *)
(* A cached page is a row in state.sqlite3 and a file.  A search writes    *)
(* the file, then the row, then removes the file of the row it replaced    *)
(* and evicts; clearing and evicting delete rows in one transaction and    *)
(* the files after it.  Every file is the answer to one fetch, with its    *)
(* time in it, so no two fetches write the same file.  Searches of the     *)
(* user and an export run side by side in a process that may die between   *)
(* any two steps; maintenance raises its flag over all of them.            *)
(***************************************************************************)
EXTENDS Naturals, FiniteSets, Sequences

CONSTANTS Keys,          \* cache keys: a query, a continuation, a connector version
          Users,         \* threads that serve property searches
          Exporter,      \* the one thread of the export executor
          ExportPages,   \* the keys of the exported pages, in order
          MaxEntries,    \* the cache limit, in pages (500 MB)
          MaxFiles       \* a bound on the pages ever fetched

ASSUME CacheAssumption == /\ Exporter \notin Users
                          /\ ExportPages \in Seq(Keys)
                          /\ {MaxEntries, MaxFiles} \subseteq Nat

Threads == Users \cup {Exporter}
NoPageFile == 0
NoRow == [file |-> NoPageFile, pinned |-> FALSE]

VARIABLES crow,     \* table property_cache
          cfiles,   \* files in artifacts/property-cache
          fetched,  \* files ever written
          maint,    \* maintenance flag: down, up for an operation, or left up
          thr,      \* the threads
          xjob      \* the export's job row, its page number and its pins
cacheVars == <<crow, cfiles, fetched, maint, thr, xjob>>

IdleThread == [pc |-> "idle", key |-> "none", file |-> NoPageFile, drop |-> {}]

FlagUp == maint # "down"
Rows_Cached == {k \in Keys : crow[k] # NoRow}
Referenced(f) == \E k \in Keys : crow[k].file = f
JobActive == xjob.state \in {"running", "cancel_requested"}

Init_Cache ==
  /\ crow = [k \in Keys |-> NoRow]
  /\ cfiles = {} /\ fetched = 0
  /\ maint = "down"
  /\ thr = [t \in Threads |-> IdleThread]
  /\ xjob = [state |-> "none", page |-> 0, pins |-> {}]

Go(t, pc) == thr' = [thr EXCEPT ![t].pc = pc]
(* What a search's error means to its caller: the user is told, the export  *)
(* fails.                                                                   *)
Throw(t) == thr' = [thr EXCEPT ![t] = [IdleThread EXCEPT
                      !.pc = IF t = Exporter THEN "failing" ELSE "idle"]]
(* A page has been had: the export pins it next. *)
Served(t) == thr' = [thr EXCEPT ![t] =
                IF t = Exporter THEN [IdleThread EXCEPT !.pc = "pin", !.key = thr[t].key]
                ELSE IdleThread]

-----------------------------------------------------------------------------
(* One search. *)

(* The row is read in one transaction and its file after it. *)
Lookup(t, k) ==
  IF crow[k] = NoRow
  THEN thr' = [thr EXCEPT ![t] = [IdleThread EXCEPT !.pc = "fetch", !.key = k]]
  ELSE thr' = [thr EXCEPT ![t] = [IdleThread EXCEPT !.pc = "open", !.key = k,
                                                   !.file = crow[k].file]]

UserSearch(t, k) ==
  /\ t \in Users /\ thr[t].pc = "idle"
  /\ Lookup(t, k)
  /\ UNCHANGED <<crow, cfiles, fetched, maint, xjob>>

(* A missing file is an error; otherwise a fresh page is served, and one    *)
(* that is stale or to be refreshed is fetched.                             *)
OpenFile(t) ==
  /\ thr[t].pc = "open"
  /\ IF thr[t].file \notin cfiles THEN Throw(t) ELSE Served(t) \/ Go(t, "fetch")
  /\ UNCHANGED <<crow, cfiles, fetched, maint, xjob>>

(* The publisher answers, and the page is written to a file of its own. *)
WriteFile(t) ==
  /\ thr[t].pc = "fetch" /\ fetched < MaxFiles
  /\ fetched' = fetched + 1
  /\ cfiles' = cfiles \cup {fetched'}
  /\ thr' = [thr EXCEPT ![t].pc = "store", ![t].file = fetched']
  /\ UNCHANGED <<crow, maint, xjob>>

(* The publisher does not answer: a stale page is served, the user is told, *)
(* an export that has pages ends with them, one without fails.              *)
FetchError(t) ==
  /\ thr[t].pc = "fetch"
  /\ \/ thr[t].file # NoPageFile /\ Served(t)
     \/ IF t = Exporter /\ xjob.page > 0 THEN Go(t, "unpin") ELSE Throw(t)
  /\ UNCHANGED <<crow, cfiles, fetched, maint, xjob>>

(* The row is inserted, or replaced, unpinned; refused under maintenance,   *)
(* it leaves the new file behind.                                           *)
StoreRow(t) ==
  /\ thr[t].pc = "store"
  /\ IF FlagUp THEN Throw(t) /\ UNCHANGED crow
     ELSE LET k == thr[t].key IN
          /\ crow' = [crow EXCEPT ![k] = [NoRow EXCEPT !.file = thr[t].file]]
          /\ thr' = [thr EXCEPT ![t].pc = "tidy", ![t].drop = {crow[k].file} \ {NoPageFile}]
  /\ UNCHANGED <<cfiles, fetched, maint, xjob>>

(* The replaced row's file, unless another row has it. *)
RemoveReplaced(t) ==
  /\ thr[t].pc = "tidy"
  /\ cfiles' = cfiles \ {f \in thr[t].drop : ~Referenced(f)}
  /\ thr' = [thr EXCEPT ![t].pc = "evict", ![t].drop = {}]
  /\ UNCHANGED <<crow, fetched, maint, xjob>>

(* Unpinned rows go until the rest fits; which of them were used least      *)
(* recently is left open.  No flag is read.                                 *)
EvictRows(t) ==
  /\ thr[t].pc = "evict"
  /\ \E V \in SUBSET {k \in Rows_Cached : ~crow[k].pinned} :
       /\ \/ Cardinality(Rows_Cached \ V) = MaxEntries
          \/ Cardinality(Rows_Cached) <= MaxEntries /\ V = {}
          \/ /\ Cardinality(Rows_Cached \ V) > MaxEntries
             /\ V = {k \in Rows_Cached : ~crow[k].pinned}
       /\ crow' = [k \in Keys |-> IF k \in V THEN NoRow ELSE crow[k]]
       /\ thr' = [thr EXCEPT ![t].pc = "unlink",
                             ![t].drop = {crow[k].file : k \in V}]
  /\ UNCHANGED <<cfiles, fetched, maint, xjob>>

UnlinkFiles(t) ==
  /\ thr[t].pc \in {"unlink", "clear"}
  /\ cfiles' = cfiles \ thr[t].drop
  /\ IF thr[t].pc = "unlink" THEN Served(t) ELSE thr' = [thr EXCEPT ![t] = IdleThread]
  /\ UNCHANGED <<crow, fetched, maint, xjob>>

(* DELETE /properties/cache: every row, the pinned ones too, then the files. *)
ClearRows(t) ==
  /\ t \in Users /\ thr[t].pc = "idle" /\ ~FlagUp
  /\ crow' = [k \in Keys |-> NoRow]
  /\ thr' = [thr EXCEPT ![t] = [IdleThread EXCEPT
               !.pc = "clear", !.drop = {crow[k].file : k \in Rows_Cached}]]
  /\ UNCHANGED <<cfiles, fetched, maint, xjob>>

-----------------------------------------------------------------------------
(* The complete export. *)

(* Submitted, or resumed, and claimed by the export thread. *)
StartRun ==
  /\ xjob.state \in {"none", "paused", "failed"}
  /\ thr[Exporter].pc = "idle" /\ ~FlagUp
  /\ xjob' = [state |-> "running", page |-> 0, pins |-> {}]
  /\ thr' = [thr EXCEPT ![Exporter] = [IdleThread EXCEPT !.pc = "page"]]
  /\ UNCHANGED <<crow, cfiles, fetched, maint>>

RequestCancel ==
  /\ xjob.state = "running" /\ ~FlagUp
  /\ xjob' = [xjob EXCEPT !.state = "cancel_requested"]
  /\ UNCHANGED <<crow, cfiles, fetched, maint, thr>>

(* The next page; none is left, or the deadline or a cancellation stops the *)
(* loop: with pages the export goes on to its end, without it fails.        *)
NextPage ==
  /\ thr[Exporter].pc = "page"
  /\ \/ /\ xjob.page < Len(ExportPages) /\ xjob.state # "cancel_requested"
        /\ Lookup(Exporter, ExportPages[xjob.page + 1])
     \/ Go(Exporter, IF xjob.page > 0 THEN "unpin" ELSE "failing")
  /\ UNCHANGED <<crow, cfiles, fetched, maint, xjob>>

(* Pin the page, then heartbeat and checkpoint: each may be refused. *)
PinPage ==
  /\ thr[Exporter].pc = "pin"
  /\ LET k == thr[Exporter].key IN
     IF FlagUp THEN Throw(Exporter) /\ UNCHANGED <<crow, xjob>>
     ELSE /\ crow' = [crow EXCEPT ![k].pinned = crow[k] # NoRow]
          /\ xjob' = [xjob EXCEPT !.page = @ + 1, !.pins = @ \cup {k}]
          /\ thr' = [thr EXCEPT ![Exporter] = [IdleThread EXCEPT
                       !.pc = IF JobActive THEN "page" ELSE "failing"]]
  /\ UNCHANGED <<cfiles, fetched, maint>>

Release(k) == /\ crow' = [crow EXCEPT ![k].pinned = FALSE]
              /\ xjob' = [xjob EXCEPT !.pins = @ \ {k}]

(* The file is written; the pins are released before the job ends.  The     *)
(* list of pins is emptied only when all of them are.                       *)
UnpinPages ==
  /\ thr[Exporter].pc = "unpin"
  /\ IF xjob.pins = {} THEN Go(Exporter, "finish") /\ UNCHANGED <<crow, xjob>>
     ELSE IF FlagUp THEN Go(Exporter, "failing") /\ UNCHANGED <<crow, xjob>>
     ELSE (\E k \in xjob.pins : Release(k)) /\ UNCHANGED thr
  /\ UNCHANGED <<cfiles, fetched, maint>>

EndRun ==
  /\ thr[Exporter].pc = "finish"
  /\ IF JobActive
     THEN /\ xjob' = [xjob EXCEPT !.state = IF @ = "running" THEN "succeeded"
                                            ELSE "cancelled"]
          /\ thr' = [thr EXCEPT ![Exporter] = IdleThread]
     ELSE Go(Exporter, "failing") /\ UNCHANGED xjob
  /\ UNCHANGED <<crow, cfiles, fetched, maint>>

(* The error path: the row is failed or cancelled, unless it was lost, and  *)
(* then the remaining pins are released as far as that is possible.         *)
FailRun ==
  /\ thr[Exporter].pc = "failing"
  /\ xjob' = [xjob EXCEPT !.state = CASE @ = "running" -> "failed"
                                      [] @ = "cancel_requested" -> "cancelled"
                                      [] OTHER -> @]
  /\ Go(Exporter, "release")
  /\ UNCHANGED <<crow, cfiles, fetched, maint>>

ReleasePins ==
  /\ thr[Exporter].pc = "release"
  /\ IF xjob.pins = {}
     THEN thr' = [thr EXCEPT ![Exporter] = IdleThread] /\ UNCHANGED <<crow, xjob>>
     ELSE /\ \E k \in xjob.pins :
               IF FlagUp THEN /\ xjob' = [xjob EXCEPT !.pins = @ \ {k}]
                              /\ UNCHANGED crow
               ELSE Release(k)
          /\ UNCHANGED thr
  /\ UNCHANGED <<cfiles, fetched, maint>>

(* The lease lapses and another process pauses the row; the thread goes on. *)
LoseLease ==
  /\ JobActive /\ xjob' = [xjob EXCEPT !.state = "paused"]
  /\ UNCHANGED <<crow, cfiles, fetched, maint, thr>>

(* The process dies, and the next one recovers the row. *)
CrashWeb ==
  /\ \E t \in Threads : thr[t] # IdleThread
  /\ thr' = [t \in Threads |-> IdleThread]
  /\ xjob' = [xjob EXCEPT !.state = IF JobActive THEN "paused" ELSE @, !.pins = {}]
  /\ UNCHANGED <<crow, cfiles, fetched, maint>>

Search(t) == \/ \E k \in Keys : UserSearch(t, k)
             \/ OpenFile(t) \/ WriteFile(t) \/ FetchError(t) \/ StoreRow(t)
             \/ RemoveReplaced(t) \/ EvictRows(t) \/ UnlinkFiles(t) \/ ClearRows(t)

Next_Cache == \/ \E t \in Threads : Search(t)
              \/ StartRun \/ RequestCancel \/ NextPage \/ PinPage \/ UnpinPages
              \/ EndRun \/ FailRun \/ ReleasePins \/ LoseLease \/ CrashWeb
-----------------------------------------------------------------------------
(* A row of the cache always has its file, whoever searches, evicts, clears *)
(* or prunes at the same time and wherever the process dies: a row without  *)
(* its file fails every search of its page, a refresh too, for _read raises *)
(* before the connector is asked (cache.py:134-160, 162-212, 243-247).      *)
RowHasFile == \A k \in Rows_Cached : crow[k].file \in cfiles
=============================================================================
