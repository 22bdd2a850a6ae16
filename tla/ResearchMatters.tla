--------------------------- MODULE ResearchMatters ---------------------------
(***************************************************************************)
(* Research matters (research/matters.py and its endpoints): matters that  *)
(* are edited against the revision that was loaded, immutable saved items, *)
(* the links between them, notes, save receipts and the search index.      *)
(*                                                                         *)
(* SQLite is used through pysqlite's implicit transactions: what a method  *)
(* reads before its first write is read outside the transaction.  save,    *)
(* link and delete_item look first, so they take two steps here; the other *)
(* methods write at once, or their reads only decide how to refuse.        *)
(***************************************************************************)
EXTENDS Naturals, Sequences, FiniteSets

CONSTANTS Matters, SavedItems, SaveKeys, Clients, MaxEdits

NoItem == 0
ASSUME MattersAssumption == /\ SavedItems \subseteq Nat \ {NoItem}
                            /\ SaveKeys \cap {"unused", "deleted"} = {}

VARIABLES matter,   \* matter[m]: [state, text]; the revision is Len(text) + 1
          item,     \* item[i]: the key it was saved with, or "unused", "deleted"
          links,    \* table matter_items
          note,     \* note[m]: the edits of its one note, <<>> without it
          receipts, \* table save_receipts: [SaveKeys -> item]
          index,    \* matter_fts: what each matter can be found by
          client,   \* a request in progress
          accepted  \* the edits that were answered with success
matterVars == <<matter, item, links, note, receipts, index, client, accepted>>

NoMatter == [state |-> "absent", text |-> <<>>]
NoEntry == [text |-> <<>>, items |-> {}, note |-> <<>>, there |-> FALSE]
NoRequest == [at |-> "idle", m |-> CHOOSE m \in Matters : TRUE, i |-> NoItem,
              key |-> CHOOSE k \in SaveKeys : TRUE, text |-> <<>>, note |-> <<>>,
              affected |-> {}, remaining |-> {}]
Linked(i) == {m \in Matters : <<m, i>> \in links}
Exists(m) == matter[m].state = "open"
Kept(i) == i # NoItem /\ item[i] \in SaveKeys

Init_Matters ==
  /\ matter = [m \in Matters |-> NoMatter]
  /\ item = [i \in SavedItems |-> "unused"]
  /\ links = {}
  /\ note = [m \in Matters |-> <<>>]
  /\ receipts = [k \in SaveKeys |-> NoItem]
  /\ index = [m \in Matters |-> NoEntry]
  /\ client = [c \in Clients |-> NoRequest]
  /\ accepted = [m \in Matters |-> 0]

(* _refresh_fts: the entry of m is made anew from its text, its items and   *)
(* its notes as the transaction leaves them.                                *)
Entry(text, m, newLinks, newNote) ==
  [text |-> text, items |-> {i \in SavedItems : <<m, i>> \in newLinks},
   note |-> newNote, there |-> TRUE]

Begins(c, request) == client' = [client EXCEPT ![c] = request]
Ends(c) == client' = [client EXCEPT ![c] = NoRequest]
-----------------------------------------------------------------------------
CreateMatter(m) ==
  /\ matter[m].state = "absent"
  /\ matter' = [matter EXCEPT ![m].state = "open"]
  /\ index' = [index EXCEPT ![m] = Entry(<<>>, m, links, note[m])]
  /\ UNCHANGED <<item, links, note, receipts, client, accepted>>

(* GET /matters/{id}: the text with its revision, and the note with its own. *)
LoadMatter(c, m) ==
  /\ client[c].at = "idle" /\ Exists(m)
  /\ Len(matter[m].text) + Len(note[m]) < MaxEdits
  /\ Begins(c, [NoRequest EXCEPT !.at = "editing", !.m = m, !.text = matter[m].text,
                                 !.note = note[m]])
  /\ UNCHANGED <<matter, item, links, note, receipts, index, accepted>>

(* WHERE id = ... AND revision = expected_revision *)
SameRevision(c) ==
  Exists(client[c].m) /\ Len(matter[client[c].m].text) = Len(client[c].text)

(* PATCH /matters/{id}: the client's version with its change, or a 409. *)
UpdateMatter(c) ==
  /\ client[c].at = "editing"
  /\ LET m == client[c].m
         text == Append(client[c].text, c) IN
     IF SameRevision(c)
     THEN /\ matter' = [matter EXCEPT ![m].text = text]
          /\ index' = [index EXCEPT ![m] = Entry(text, m, links, note[m])]
          /\ accepted' = [accepted EXCEPT ![m] = @ + 1]
     ELSE UNCHANGED <<matter, index, accepted>>
  /\ Ends(c)
  /\ UNCHANGED <<item, links, note, receipts>>

(* put_note: a new note, or the client's version of the one it has seen. *)
PutNote(c) ==
  /\ client[c].at = "editing"
  /\ LET m == client[c].m IN
     IF Exists(m) /\ Len(note[m]) = Len(client[c].note)
     THEN /\ note' = [note EXCEPT ![m] = Append(client[c].note, c)]
          /\ index' = [index EXCEPT ![m] = Entry(matter[m].text, m, links, note'[m])]
     ELSE UNCHANGED <<note, index>>
  /\ Ends(c)
  /\ UNCHANGED <<matter, item, links, receipts, accepted>>

(* delete: links and notes go with the matter, saved items stay. *)
DeleteMatter(m) ==
  /\ Exists(m)
  /\ matter' = [matter EXCEPT ![m] = [state |-> "deleted", text |-> <<>>]]
  /\ links' = {l \in links : l[1] # m}
  /\ note' = [note EXCEPT ![m] = <<>>]
  /\ index' = [index EXCEPT ![m] = NoEntry]
  /\ accepted' = [accepted EXCEPT ![m] = 0]
  /\ UNCHANGED <<item, receipts, client>>
-----------------------------------------------------------------------------
(* _link and _refresh_fts.  A link that is there already makes no write, so *)
(* the matter's text is read before the index's transaction begins; a link  *)
(* to a matter or an item that is gone is refused by its foreign key.       *)
LinkAndRefresh(c, m, i) ==
  IF <<m, i>> \in links
  THEN /\ Begins(c, [NoRequest EXCEPT !.at = "refreshing", !.m = m, !.text = matter[m].text])
       /\ UNCHANGED <<links, index>>
  ELSE /\ Ends(c)
       /\ IF Exists(m) /\ Kept(i)
          THEN /\ links' = links \cup {<<m, i>>}
               /\ index' = [index EXCEPT ![m] = Entry(matter[m].text, m, links', note[m])]
          ELSE UNCHANGED <<links, index>>

Refresh(c) ==
  /\ client[c].at = "refreshing"
  /\ index' = [index EXCEPT ![client[c].m] =
                 Entry(client[c].text, client[c].m, links, note[client[c].m])]
  /\ Ends(c)
  /\ UNCHANGED <<matter, item, links, note, receipts, accepted>>

(* link: an item that is saved already, in another matter. *)
LinkItem(c, m, i) ==
  /\ client[c].at = "idle" /\ Exists(m) /\ Kept(i)
  /\ LinkAndRefresh(c, m, i)
  /\ UNCHANGED <<matter, item, note, receipts, accepted>>

(* save_payload: the matter and the receipt of the key are looked up.  Every *)
(* key stands for one result here: a receipt of another one is a 409.       *)
LookUpReceipt(c, m, k) ==
  /\ client[c].at = "idle" /\ Exists(m)
  /\ Begins(c, [NoRequest EXCEPT !.at = "saving", !.m = m, !.key = k, !.i = receipts[k]])
  /\ UNCHANGED <<matter, item, links, note, receipts, index, accepted>>

SaveAgain(c) ==
  /\ client[c].at = "saving" /\ client[c].i # NoItem
  /\ LinkAndRefresh(c, client[c].m, client[c].i)
  /\ UNCHANGED <<matter, item, note, receipts, accepted>>

\* Mutant: a second receipt for the key replaces the first.
KeyIsFreeAlways(k) == TRUE

(* The primary key of save_receipts: of two requests that found no receipt  *)
(* the second is rolled back, item and all.                                 *)
KeyIsFree(k) == receipts[k] = NoItem

SaveNew(c) ==
  /\ client[c].at = "saving" /\ client[c].i = NoItem
  /\ LET m == client[c].m
         k == client[c].key IN
     \E i \in SavedItems :
       /\ item[i] = "unused" /\ \A j \in 1..(i - 1) : item[j] # "unused"
       /\ IF Exists(m) /\ KeyIsFree(k)
          THEN /\ item' = [item EXCEPT ![i] = k]
               /\ links' = links \cup {<<m, i>>}
               /\ receipts' = [receipts EXCEPT ![k] = i]
               /\ index' = [index EXCEPT ![m] = Entry(matter[m].text, m, links', note[m])]
          ELSE UNCHANGED <<item, links, receipts, index>>
  /\ Ends(c)
  /\ UNCHANGED <<matter, note, accepted>>
-----------------------------------------------------------------------------
(* delete_item looks at the item's links first: it is to go from one matter, *)
(* or from all of them.                                                     *)
LookUpLinks(c, i, from) ==
  /\ client[c].at = "idle" /\ Kept(i)
  /\ from = Linked(i) \/ Cardinality(from) = 1
  /\ Begins(c, [NoRequest EXCEPT !.at = "removing", !.i = i, !.affected = from,
                                 !.remaining = Linked(i) \ from])
  /\ UNCHANGED <<matter, item, links, note, receipts, index, accepted>>

(* Without a remaining matter, as far as it saw, the item goes with its     *)
(* receipt, its reviews and, by the cascade, every link it has by now.      *)
RemoveItem(c) ==
  /\ client[c].at = "removing"
  /\ LET i == client[c].i IN
     /\ IF client[c].remaining = {}
        THEN /\ item' = [item EXCEPT ![i] = "deleted"]
             /\ receipts' = [k \in SaveKeys |-> IF receipts[k] = i THEN NoItem ELSE receipts[k]]
             /\ links' = {l \in links : l[2] # i}
        ELSE /\ links' = links \ {<<m, i>> : m \in client[c].affected}
             /\ UNCHANGED <<item, receipts>>
     /\ index' = [m \in Matters |->
                    IF m \in client[c].affected
                    THEN IF Exists(m) THEN Entry(matter[m].text, m, links', note[m]) ELSE NoEntry
                    ELSE index[m]]
  /\ Ends(c)
  /\ UNCHANGED <<matter, note, accepted>>

Next_Matters ==
  \/ \E m \in Matters : CreateMatter(m) \/ DeleteMatter(m)
  \/ \E c \in Clients :
       \/ UpdateMatter(c) \/ PutNote(c) \/ Refresh(c)
       \/ SaveAgain(c) \/ SaveNew(c) \/ RemoveItem(c)
       \/ \E m \in Matters : \/ LoadMatter(c, m)
                             \/ \E i \in SavedItems : LinkItem(c, m, i)
                             \/ \E k \in SaveKeys : LookUpReceipt(c, m, k)
       \/ \E i \in SavedItems, from \in SUBSET Matters :
            from \subseteq Linked(i) /\ LookUpLinks(c, i, from)

Spec_Matters == Init_Matters /\ [][Next_Matters]_matterVars
-----------------------------------------------------------------------------
(* A key saves a result once: every saved item is the one its key's receipt *)
(* names, whatever requests with the key ran at the same time and whatever  *)
(* was deleted and saved again (matters.py:208-279, 303-375).               *)
SaveIsIdempotent == \A i \in SavedItems : Kept(i) => receipts[item[i]] = i

(* No accepted edit is overwritten by a client that had not seen it: a      *)
(* matter shows all of them (matters.py:122-172).                           *)
NoEditIsLost == \A m \in Matters : Len(matter[m].text) = accepted[m]

(* What a client was told is saved stays as it was saved. *)
SavedWorkIsKept == SaveIsIdempotent /\ NoEditIsLost
=============================================================================
