--------------------------- MODULE PropertyPages ---------------------------
(***************************************************************************)
(* Paging through a live dataset (hpd/connector.py, hpd/cache.py,          *)
(* hpd/complete.py).                                                       *)
(*                                                                         *)
(* One page of a property result is up to three requests: the address is   *)
(* resolved to a building, the dated rows after the cursor are read in     *)
(* (date descending, id ascending) order, and, when they leave room, the   *)
(* rows without a date.  The publisher changes rows between any two        *)
(* requests.  Pages are cached by their cursor and used again, fresh or,   *)
(* when the publisher cannot be reached, stale; a complete export strings  *)
(* pages together and says whether it is complete.                         *)
(***************************************************************************)
EXTENDS Integers, FiniteSets, Sequences, SequencesExt

CONSTANTS Violations,      \* violation ids, numbers: their order is the key's
          Dates,           \* inspection dates, positive numbers
          Buildings,
          QueriedBuildings, \* what queries name: a building, or none (ByAddress)
          PageLimit,       \* query.limit
          MaxPages,
          MaxChanges,      \* a bound on the publisher's changes
          MaxLooks         \* a bound on the user's own searches

ASSUME PageAssumption == /\ Violations \subseteq Nat /\ IsFiniteSet(Violations)
                         /\ "none" \notin Buildings
                         /\ Dates \subseteq Nat \ {0}
                         /\ {PageLimit, MaxPages} \subseteq Nat \ {0}

VARIABLES dataset,    \* the publisher's rows
          changes, looks,
          pquery,     \* the exported query, without a continuation
          pcache,     \* cached pages, by cursor
          fetch,      \* the search under way
          export      \* the complete export
pageVars == <<dataset, changes, looks, pquery, pcache, fetch, export>>

NoDate == 0
ByAddress == "by address"
Gone == [b |-> "none", d |-> NoDate]
Rows == [b : Buildings, d : Dates \cup {NoDate}]
Start == [b |-> "none", d |-> NoDate, v |-> 0]   \* no continuation
NoPage == [at |-> Start, records |-> <<>>, next |-> Start, more |-> FALSE,
           select |-> FALSE, fresh |-> FALSE, kept |-> {}]
Idle == [pc |-> "idle", who |-> "export", at |-> Start, b |-> "none",
         rows |-> <<>>, kept |-> {}, old |-> {}]

-----------------------------------------------------------------------------
(* The query as the publisher evaluates it. *)

(* The rows that the query selects, its cursor aside; a query with an       *)
(* inspection-date bound never selects a row without a date.                *)
Matching(q) == {v \in Violations :
                  /\ dataset[v] # Gone
                  /\ q.b \in {ByAddress, dataset[v].b}
                  /\ q.dated => dataset[v].d # NoDate}

RowAt(v) == [v |-> v, b |-> dataset[v].b, d |-> dataset[v].d]

(* ORDER BY inspectiondate DESC, violationid ASC. *)
Precedes(v, w) == \/ dataset[v].d > dataset[w].d
                  \/ dataset[v].d = dataset[w].d /\ v < w

(* The elements of S in order: the i-th is the one that i - 1 others come   *)
(* before.                                                                  *)
InOrder(S, Before(_, _)) ==
  [i \in 1..Cardinality(S) |->
     CHOOSE x \in S : Cardinality({y \in S : Before(y, x)}) = i - 1]

Top(S, n) == LET ordered == InOrder(S, Precedes)
             IN  [i \in 1..(IF Cardinality(S) < n THEN Cardinality(S) ELSE n)
                    |-> RowAt(ordered[i])]

\* Mutant: rows of the cursor's own date are taken for delivered.
AfterDateOnly(v, at) == at = Start \/ dataset[v].d < at.d

(* The dated rows after the cursor: an earlier date, or the same date and a *)
(* higher id.                                                               *)
AfterCursor(v, at) == \/ at = Start
                      \/ dataset[v].d < at.d
                      \/ dataset[v].d = at.d /\ v > at.v

(* The building of the page: the cursor's, the query's or the resolved one. *)
PageBuilding(f) == IF f.at # Start THEN f.at.b
                   ELSE IF pquery.b # ByAddress THEN pquery.b ELSE f.b

InNullPartition(at) == at # Start /\ at.d = NoDate

-----------------------------------------------------------------------------
Init_Pages ==
  /\ dataset \in [Violations -> Rows \cup {Gone}]
  /\ changes = 0 /\ looks = 0
  /\ pquery \in [b : QueriedBuildings, dated : BOOLEAN]
  /\ pcache = {}
  /\ fetch = Idle
  /\ export = [state |-> "none", pages |-> <<>>, next |-> Start,
               complete |-> FALSE, records |-> <<>>, kept |-> Violations]

(* A bound: a behaviour ends with its export. *)
Ended == export.state \in {"done", "failed"}

(* The publisher changes, adds or withdraws a row. *)
Publish(v, r) ==
  /\ changes < MaxChanges /\ ~Ended
  /\ r # dataset[v]
  /\ dataset' = [dataset EXCEPT ![v] = r]
  /\ changes' = changes + 1
  /\ fetch' = [fetch EXCEPT !.kept = @ \ {v},
                            !.old = {[p EXCEPT !.kept = @ \ {v}] : p \in @}]
  /\ pcache' = {[p EXCEPT !.kept = @ \ {v}] : p \in pcache}
  /\ export' = [export EXCEPT
       !.kept = @ \ {v},
       !.pages = [i \in DOMAIN @ |-> [export.pages[i] EXCEPT !.kept = @ \ {v}]]]
  /\ UNCHANGED <<looks, pquery>>

(* Time passes: a fresh page becomes stale, a stale one is past retention.  *)
Lapse(p) ==
  /\ p \in pcache /\ ~Ended
  /\ pcache' = (pcache \ {p}) \cup (IF p.fresh THEN {[p EXCEPT !.fresh = FALSE]}
                                    ELSE {})
  /\ UNCHANGED <<dataset, changes, looks, pquery, fetch, export>>

-----------------------------------------------------------------------------
(* The export takes the pages one by one. *)

(* _combine: the first occurrence of every violation id; the k-th record of *)
(* the i-th page is at <<i, k>>.                                            *)
RecordsAt(pages) == UNION {{i} \X DOMAIN pages[i].records : i \in DOMAIN pages}
Earlier(x, y) == \/ x[1] < y[1]
                 \/ x[1] = y[1] /\ x[2] < y[2]
RecordAt(pages, x) == pages[x[1]].records[x[2]]
Firsts(pages) == {x \in RecordsAt(pages) :
                    \A y \in RecordsAt(pages) :
                      Earlier(y, x) => RecordAt(pages, y).v # RecordAt(pages, x).v}
Combine(pages) ==
  LET ordered == InOrder(Firsts(pages), Earlier)
  IN  [i \in DOMAIN ordered |-> RecordAt(pages, ordered[i])]

KeptByAll(pages) == {v \in Violations : \A i \in DOMAIN pages : v \in pages[i].kept}

(* The export ends with the pages it has; it is complete when nothing       *)
(* interrupted it and the last page had no successor.                       *)
EndExport(pages, interrupted) ==
  export' = [export EXCEPT !.state = "done", !.pages = <<>>,
               !.complete = ~interrupted /\ ~Last(pages).more,
               !.records = Combine(pages), !.kept = KeptByAll(pages)]

FailExport == export' = [export EXCEPT !.state = "failed", !.pages = <<>>]

TakePage(p) ==
  LET pages == Append(export.pages, p)
  IN  IF p.select THEN FailExport
      ELSE IF ~p.more THEN EndExport(pages, FALSE)
      ELSE IF Len(pages) = MaxPages THEN EndExport(pages, TRUE)
      ELSE export' = [export EXCEPT !.pages = pages, !.next = p.next]

(* A cancellation, a deadline or an unreachable publisher ends an export    *)
(* that has pages with those, and fails one that has none.                  *)
InterruptExport ==
  IF export.pages = <<>> THEN FailExport ELSE EndExport(export.pages, TRUE)

StartExport ==
  /\ export.state = "none" /\ fetch.pc = "idle"
  /\ export' = [export EXCEPT !.state = "running"]
  /\ UNCHANGED <<dataset, changes, looks, pquery, pcache, fetch>>

(* raise_if_cancelled and raise_if_expired, before the next page. *)
StopExport ==
  /\ export.state = "running" /\ fetch.pc = "idle"
  /\ InterruptExport
  /\ UNCHANGED <<dataset, changes, looks, pquery, pcache, fetch>>

-----------------------------------------------------------------------------
(* One search, for the export or, with or without refresh, for the user. *)

Cached(at) == {p \in pcache : p.at = at}

(* The user, who holds the continuations of the pages he has been shown,    *)
(* looks at pages before he asks for the export.                            *)
Searches == IF export.state = "running"
            THEN {[who |-> "export", at |-> export.next]}
            ELSE {[who |-> "user", at |-> c] : c \in {Start} \cup {p.next : p \in pcache}}

Deliver(who, p) == IF who = "export" THEN TakePage(p) ELSE UNCHANGED export

FreshHit(s) ==
  /\ fetch.pc = "idle"
  /\ s.who = "export"
  /\ \E p \in Cached(s.at) : p.fresh /\ Deliver(s.who, p)
  /\ UNCHANGED <<dataset, changes, looks, pquery, pcache, fetch>>

BeginFetch(s, refresh) ==
  /\ fetch.pc = "idle" /\ ~Ended
  /\ IF s.who = "user" THEN looks < MaxLooks /\ looks' = looks + 1
                        ELSE ~refresh /\ UNCHANGED looks
  /\ refresh \/ \A p \in Cached(s.at) : ~p.fresh
  /\ fetch' = [Idle EXCEPT
       !.pc = IF pquery.b = ByAddress /\ s.at = Start THEN "resolve" ELSE "rows",
       !.who = s.who, !.at = s.at, !.kept = Violations, !.old = Cached(s.at)]
  /\ UNCHANGED <<dataset, changes, pquery, pcache, export>>

(* The page is stored under its cursor and handed over. *)
FinishFetch(p) ==
  /\ pcache' = (pcache \ Cached(p.at)) \cup {p}
  /\ Deliver(fetch.who, p)
  /\ fetch' = Idle

PageOf(rows) ==
  LET records == SubSeq(rows, 1, IF Len(rows) < PageLimit THEN Len(rows) ELSE PageLimit)
      more == Len(rows) > PageLimit
  IN  [NoPage EXCEPT
        !.at = fetch.at, !.records = records, !.more = more, !.fresh = TRUE,
        !.kept = fetch.kept,
        !.next = IF more THEN [b |-> Last(records).b, d |-> Last(records).d,
                               v |-> Last(records).v] ELSE Start]

(* _resolve_candidates: the identity alone, without the date filter; unless *)
(* one building matches, the page has no rows, and it is complete when none *)
(* does.                                                                    *)
Resolve ==
  /\ fetch.pc = "resolve"
  /\ LET found == {dataset[v].b : v \in {v \in Violations : dataset[v] # Gone}}
     IN  IF Cardinality(found) = 1
         THEN /\ \E b \in found :
                   fetch' = [fetch EXCEPT !.pc = "rows", !.b = b]
              /\ UNCHANGED <<pcache, export>>
         ELSE FinishFetch([NoPage EXCEPT !.at = fetch.at, !.fresh = TRUE,
                             !.select = found # {}, !.kept = fetch.kept])
  /\ UNCHANGED <<dataset, changes, looks, pquery>>

(* The dated rows after the cursor, or the undated ones once the cursor is  *)
(* among them; the undated rows follow when the page has room for them.     *)
InBuilding == {v \in Matching(pquery) : dataset[v].b = PageBuilding(fetch)}
Wanted == IF InNullPartition(fetch.at)
          THEN {v \in InBuilding : dataset[v].d = NoDate /\ v > fetch.at.v}
          ELSE {v \in InBuilding : dataset[v].d # NoDate /\ AfterCursor(v, fetch.at)}
Undated == {v \in InBuilding : dataset[v].d = NoDate}

ReadRows ==
  /\ fetch.pc = "rows"
  /\ LET rows == Top(Wanted, PageLimit + 1)
     IN  IF ~InNullPartition(fetch.at) /\ Len(rows) <= PageLimit /\ ~pquery.dated
         THEN /\ fetch' = [fetch EXCEPT !.pc = "nulls", !.rows = rows]
              /\ UNCHANGED <<pcache, export>>
         ELSE FinishFetch(PageOf(rows))
  /\ UNCHANGED <<dataset, changes, looks, pquery>>

ReadNulls ==
  /\ fetch.pc = "nulls"
  /\ FinishFetch(PageOf(fetch.rows \o Top(Undated, PageLimit + 1 - Len(fetch.rows))))
  /\ UNCHANGED <<dataset, changes, looks, pquery>>

(* The third failed attempt, a rejection, the deadline, too many candidates *)
(* or the offline setting: a stale page stands in unless it said "no rows". *)
(* An attempt that is retried leaves no trace: its request is read later.   *)
FetchFails ==
  /\ fetch.pc # "idle"
  /\ LET usable == {p \in fetch.old : p.records # <<>> \/ p.select}
     IN  IF fetch.who = "user" THEN UNCHANGED export
         ELSE IF usable # {} THEN \E p \in usable : TakePage(p)
         ELSE InterruptExport
  /\ fetch' = Idle
  /\ UNCHANGED <<dataset, changes, looks, pquery, pcache>>

Next_Pages ==
  \/ \E v \in Violations, r \in Rows \cup {Gone} : Publish(v, r)
  \/ \E p \in pcache : Lapse(p)
  \/ StartExport \/ StopExport
  \/ \E s \in Searches : FreshHit(s) \/ \E refresh \in BOOLEAN : BeginFetch(s, refresh)
  \/ Resolve \/ ReadRows \/ ReadNulls \/ FetchFails

Spec_Pages == Init_Pages /\ [][Next_Pages]_pageVars
-----------------------------------------------------------------------------
(* An export lists no violation twice, and only rows of one building: a row *)
(* that moves behind the cursor of a later page is listed once, and pages   *)
(* of different buildings are never strung together.  One that says it is   *)
(* complete also holds every row of its query that the publisher left alone *)
(* since the oldest of its pages began to be fetched: whatever the order of *)
(* dated, equally dated and undated rows, page boundaries, cached pages and *)
(* changes of other rows in between (complete.py:120-121 and 171-219,       *)
(* connector.py:236-302).                                                   *)
ExportIsExact ==
  /\ \A i, k \in DOMAIN export.records :
       /\ i # k => export.records[i].v # export.records[k].v
       /\ export.records[i].b = export.records[k].b
  /\ export.state = "done" /\ export.complete =>
       \A v \in export.kept \cap Matching(pquery) :
         \E i \in DOMAIN export.records : export.records[i].v = v
=============================================================================
