------------------------------ MODULE DeskProofs ------------------------------
(***************************************************************************)
(* Proofs about what the requests of researchers touch: sessions, answers, *)
(* matters, dossiers, comparisons, the hosted budgets and the exports of    *)
(* property records, each for every value of its constants.                 *)
(***************************************************************************)
EXTENDS LocalSession, InteractiveAnswers, ResearchMatters, PropertyDossiers,
        SourceComparison, HostedLimits, PropertyPages, SumLemmas, SequenceTheorems

(***************************************************************************)
(* LocalSession.                                                           *)
(***************************************************************************)
SessionTypes ==
  /\ launch \in Nat
  /\ tokens \subseteq [id : Nat, used : BOOLEAN, live : BOOLEAN, launch : Nat]
  /\ sessions \subseteq [id : Nat, from : Nat, csrf : Nat, live : BOOLEAN,
                         launch : Nat]
  /\ tab \in [Tabs -> [pc : {"idle", "consume"}, token : Nat, cookie : Nat,
                       csrf : Nat]]
  /\ minted \in [token : Nat, session : Nat]

\* Two rows of launcher_tokens have different ids, also over launches.
TokensAreDistinct ==
  /\ \A k, l \in tokens : k.id = l.id => k = l
  /\ \A k \in tokens : k.id <= minted.token

\* The CSRF token of a session, and of a tab that has one, is derived from the
\* session's.
CsrfIsDerived ==
  /\ \A s \in sessions : s.csrf = s.id
  /\ \A t \in Tabs : tab[t].csrf \in {Nothing, tab[t].cookie}

SessionInv ==
  /\ SessionTypes /\ TokensAreDistinct /\ CsrfIsDerived /\ OneSessionPerToken

\* A token that can still be consumed has made no session.
LEMMA OpenTokenIsFresh ==
  ASSUME SessionInv, NEW k \in tokens, ~k.used
  PROVE  \A s \in sessions : s.from # k.id
BY DEF SessionInv, OneSessionPerToken, TokensAreDistinct

\* A change of one row of launcher_tokens that keeps its id and never unsets
\* consumed_at.
LEMMA TokenRowChanges ==
  ASSUME SessionInv, NEW k \in tokens,
         NEW l \in [id : Nat, used : BOOLEAN, live : BOOLEAN, launch : Nat],
         l.id = k.id, k.used => l.used,
         tokens' = (tokens \ {k}) \cup {l}, UNCHANGED <<launch, minted, sessions>>
  PROVE  TokensAreDistinct' /\ OneSessionPerToken'
<1>1. TokensAreDistinct'
  BY DEF SessionInv, TokensAreDistinct
<1>2. \A s \in sessions : \E m \in tokens' : m.id = s.from /\ m.used
  BY DEF SessionInv, OneSessionPerToken
<1> QED BY <1>1, <1>2 DEF SessionInv, OneSessionPerToken

\* Consuming a token makes its one session.
LEMMA ConsumeTokenInv ==
  ASSUME SessionInv, NEW t \in Tabs, ConsumeToken(t)
  PROVE  SessionInv'
<1> DEFINE open == {k \in tokens : k.id = tab[t].token /\ ~k.used}
           n == minted.session + 1
           s0 == [id |-> n, from |-> tab[t].token, csrf |-> n, live |-> TRUE,
                  launch |-> launch]
<1>0. SessionTypes
  BY DEF SessionInv
<1>1. CASE open = {}
  <2>1. /\ tab' = [tab EXCEPT ![t].pc = "idle", ![t].token = Nothing]
        /\ UNCHANGED <<launch, tokens, sessions, minted>>
    BY <1>1 DEF ConsumeToken
  <2>2. SessionTypes'
    BY <1>0, <2>1 DEF SessionTypes, Nothing
  <2>3. CsrfIsDerived'
    BY <1>0, <2>1 DEF SessionInv, SessionTypes, CsrfIsDerived
  <2> QED BY <2>1, <2>2, <2>3
         DEF SessionInv, TokensAreDistinct, OneSessionPerToken
<1>2. CASE open # {}
  <2>1. /\ minted' = [minted EXCEPT !.session = @ + 1]
        /\ tokens' = (tokens \ open) \cup {[k EXCEPT !.used = TRUE] : k \in open}
        /\ sessions' = sessions \cup
             {[id |-> minted'.session, from |-> tab[t].token,
               csrf |-> CsrfToken(minted'.session), live |-> TRUE,
               launch |-> launch]}
        /\ tab' = [tab EXCEPT ![t] = [IdleTab EXCEPT
               !.cookie = minted'.session, !.csrf = CsrfToken(minted'.session)]]
        /\ UNCHANGED launch
    BY <1>2 DEF ConsumeToken
  <2>2. /\ minted'.session = n /\ minted'.token = minted.token /\ n \in Nat
        /\ minted' \in [token : Nat, session : Nat]
    BY <1>0, <2>1 DEF SessionTypes
  <2>3. /\ sessions' = sessions \cup {s0}
        /\ s0 \in [id : Nat, from : Nat, csrf : Nat, live : BOOLEAN, launch : Nat]
        /\ s0.from = tab[t].token /\ s0.csrf = s0.id /\ s0.launch = launch
    BY <1>0, <2>1, <2>2 DEF CsrfToken, SessionTypes
  <2>4. PICK k \in tokens : k.id = tab[t].token /\ ~k.used
    BY <1>2
  <2> DEFINE l == [k EXCEPT !.used = TRUE]
  <2>5. /\ open = {k}
        /\ tokens' = (tokens \ {k}) \cup {l}
    <3>1. open = {k}
      BY <2>4 DEF SessionInv, TokensAreDistinct
    <3> QED BY <2>1, <3>1
  <2>6. /\ l \in [id : Nat, used : BOOLEAN, live : BOOLEAN, launch : Nat]
        /\ l.id = tab[t].token /\ l.used
    BY <1>0, <2>4 DEF SessionTypes
  <2>7. \A c \in Tabs :
          /\ tab'[c] \in [pc : {"idle", "consume"}, token : Nat, cookie : Nat,
                          csrf : Nat]
          /\ tab'[c].csrf \in {Nothing, tab'[c].cookie}
    BY <1>0, <2>1, <2>2 DEF SessionInv, SessionTypes, CsrfIsDerived, IdleTab,
       CsrfToken, Nothing
  <2> HIDE DEF l, s0
  <2>8. SessionTypes'
    BY <1>0, <2>1, <2>2, <2>3, <2>5, <2>6, <2>7 DEF SessionTypes
  <2>9. CsrfIsDerived'
    BY <2>3, <2>7 DEF SessionInv, CsrfIsDerived
  <2>10. TokensAreDistinct'
    BY <2>2, <2>4, <2>5, <2>6 DEF SessionInv, TokensAreDistinct
  <2>11. \A s \in sessions : s.from # tab[t].token
    BY <2>4, OpenTokenIsFresh
  <2>12. \A s \in sessions : \E m \in tokens' : m.id = s.from /\ m.used
    BY <2>4, <2>5, <2>11 DEF SessionInv, OneSessionPerToken
  <2>13. OneSessionPerToken'
    BY <2>1, <2>3, <2>5, <2>6, <2>11, <2>12 DEF SessionInv, OneSessionPerToken
  <2> QED BY <2>8, <2>9, <2>10, <2>13 DEF SessionInv
<1> QED BY <1>1, <1>2

\* Every step of the session tables and of the tabs.
LEMMA SessionStep ==
  ASSUME SessionInv, [Next_Session]_sessionVars
  PROVE  SessionInv'
<1>0. SessionTypes
  BY DEF SessionInv
<1>1. CASE BeginProcess
  BY <1>0, <1>1 DEF BeginProcess, SessionInv, SessionTypes, TokensAreDistinct,
     CsrfIsDerived, OneSessionPerToken
<1>2. CASE IssueLaunchToken
  <2> DEFINE k == [id |-> minted.token + 1, used |-> FALSE, live |-> TRUE,
                   launch |-> launch]
  <2>1. /\ minted' \in [token : Nat, session : Nat]
        /\ minted'.token = minted.token + 1
        /\ tokens' = tokens \cup {k}
        /\ UNCHANGED <<launch, sessions, tab>>
    BY <1>0, <1>2 DEF IssueLaunchToken, SessionTypes
  <2>2. /\ k \in [id : Nat, used : BOOLEAN, live : BOOLEAN, launch : Nat]
        /\ k.id = minted.token + 1
    BY <1>0 DEF SessionTypes
  <2> HIDE DEF k
  <2>3. SessionTypes'
    BY <1>0, <2>1, <2>2 DEF SessionTypes
  <2>4. TokensAreDistinct'
    BY <1>0, <2>1, <2>2 DEF SessionInv, TokensAreDistinct, SessionTypes
  <2> QED BY <2>1, <2>3, <2>4 DEF SessionInv, CsrfIsDerived, OneSessionPerToken
<1>3. ASSUME NEW k \in tokens, ExpireToken(k) PROVE SessionInv'
  <2> DEFINE l == [k EXCEPT !.live = FALSE]
  <2>1. /\ l \in [id : Nat, used : BOOLEAN, live : BOOLEAN, launch : Nat]
        /\ l.id = k.id /\ l.used = k.used
    BY <1>0 DEF SessionTypes
  <2>2. tokens' = (tokens \ {k}) \cup {l}
        /\ UNCHANGED <<launch, sessions, tab, minted>>
    BY <1>3 DEF ExpireToken
  <2> HIDE DEF l
  <2>3. SessionTypes'
    BY <1>0, <2>1, <2>2 DEF SessionTypes
  <2>4. TokensAreDistinct' /\ OneSessionPerToken'
    BY <2>1, <2>2, TokenRowChanges
  <2> QED BY <2>2, <2>3, <2>4 DEF SessionInv, CsrfIsDerived
<1>4. ASSUME NEW s \in sessions, NEW r,
             r \in [id : Nat, from : Nat, csrf : Nat, live : BOOLEAN, launch : Nat],
             r.id = s.id, r.from = s.from, r.csrf = s.id, r.launch = s.launch,
             sessions' = (sessions \ {s}) \cup {r},
             UNCHANGED <<launch, tokens, minted>>,
             \A t \in Tabs : tab'[t].csrf \in {Nothing, tab'[t].cookie},
             tab' \in [Tabs -> [pc : {"idle", "consume"}, token : Nat,
                                cookie : Nat, csrf : Nat]]
      PROVE  SessionInv'
  <2>1. SessionTypes' /\ TokensAreDistinct' /\ CsrfIsDerived'
    BY <1>0, <1>4 DEF SessionInv, SessionTypes, TokensAreDistinct, CsrfIsDerived
  <2>2. OneSessionPerToken'
    BY <1>4 DEF SessionInv, OneSessionPerToken
  <2> QED BY <2>1, <2>2 DEF SessionInv
<1>5. ASSUME NEW s \in sessions, ExpireSession(s) PROVE SessionInv'
  <2> DEFINE r == [s EXCEPT !.live = FALSE]
  <2>1. /\ r \in [id : Nat, from : Nat, csrf : Nat, live : BOOLEAN, launch : Nat]
        /\ r.id = s.id /\ r.from = s.from /\ r.csrf = s.id /\ r.launch = s.launch
    BY <1>0 DEF SessionInv, SessionTypes, CsrfIsDerived
  <2> HIDE DEF r
  <2>2. sessions' = (sessions \ {s}) \cup {r}
        /\ UNCHANGED <<launch, tokens, tab, minted>>
    BY <1>5 DEF ExpireSession, r
  <2> QED BY <1>0, <1>4, <2>1, <2>2 DEF SessionInv, SessionTypes, CsrfIsDerived
<1>6. ASSUME NEW t \in Tabs, RotateCsrf(t) PROVE SessionInv'
  <2>1. PICK s \in SessionOf(t) :
          /\ sessions' = (sessions \ {s}) \cup {RotatedCsrf(s)}
          /\ tab' = [tab EXCEPT ![t].csrf = RotatedCsrf(s).csrf]
    BY <1>6 DEF RotateCsrf
  <2>2. s \in sessions /\ s.id = tab[t].cookie
    BY DEF SessionOf
  <2> DEFINE r == RotatedCsrf(s)
  <2>3. /\ r \in [id : Nat, from : Nat, csrf : Nat, live : BOOLEAN, launch : Nat]
        /\ r.id = s.id /\ r.from = s.from /\ r.csrf = s.id /\ r.launch = s.launch
    BY <1>0, <2>2 DEF SessionTypes, RotatedCsrf, CsrfToken
  <2>4. sessions' = (sessions \ {s}) \cup {r}
        /\ tab' = [tab EXCEPT ![t].csrf = r.csrf]
        /\ UNCHANGED <<launch, tokens, minted>>
    BY <1>6, <2>1 DEF RotateCsrf
  <2> HIDE DEF r
  <2>5. /\ \A c \in Tabs : tab'[c].csrf \in {Nothing, tab'[c].cookie}
        /\ tab' \in [Tabs -> [pc : {"idle", "consume"}, token : Nat,
                              cookie : Nat, csrf : Nat]]
    BY <1>0, <2>2, <2>3, <2>4 DEF SessionInv, SessionTypes, CsrfIsDerived
  <2> QED BY <1>4, <2>2, <2>3, <2>4, <2>5
<1>7. ASSUME NEW t \in Tabs, ConsumeToken(t) PROVE SessionInv'
  BY <1>7, ConsumeTokenInv
<1>8. ASSUME NEW t \in Tabs,
             (\E k \in tokens : ReadToken(t, k)) \/ \E u \in Tabs : OpenTab(t, u)
      PROVE  SessionInv'
  <2>1. UNCHANGED <<launch, tokens, sessions, minted>>
    BY <1>8 DEF ReadToken, OpenTab
  <2>2. /\ \A c \in Tabs : tab'[c].csrf \in {Nothing, tab'[c].cookie}
        /\ tab' \in [Tabs -> [pc : {"idle", "consume"}, token : Nat,
                              cookie : Nat, csrf : Nat]]
    BY <1>0, <1>8 DEF ReadToken, OpenTab, SessionInv, SessionTypes,
       CsrfIsDerived, IdleTab, Nothing
  <2> QED BY <1>0, <2>1, <2>2 DEF SessionInv, SessionTypes, TokensAreDistinct,
         CsrfIsDerived, OneSessionPerToken
<1>9. CASE UNCHANGED sessionVars
  BY <1>9 DEF sessionVars, SessionInv, SessionTypes, TokensAreDistinct,
     CsrfIsDerived, OneSessionPerToken
<1> QED BY <1>1, <1>2, <1>3, <1>5, <1>6, <1>7, <1>8, <1>9 DEF Next_Session

\* A launch token makes one session, no session outlives its launch, and a tab
\* that has a CSRF token can use it, for any number of tabs, launches and
\* tokens (local_session.py).
THEOREM SessionsAreSafe == Spec_Session => []SessionsHold
<1>1. Init_Session => SessionInv
  BY DEF Init_Session, SessionInv, SessionTypes, TokensAreDistinct,
     CsrfIsDerived, OneSessionPerToken, IdleTab, Nothing
<1>2. SessionInv /\ [Next_Session]_sessionVars => SessionInv'
  BY SessionStep
<1>3. SessionInv => SessionsHold
  BY DEF SessionInv, SessionsHold, CsrfIsDerived, TabsStayConnected, Validates,
     SessionOf
<1> QED BY <1>1, <1>2, <1>3, PTL DEF Spec_Session

(***************************************************************************)
(* PropertyDossiers.                                                       *)
(***************************************************************************)
\* An observation shows the records of the building of the identity it is
\* filed under, whatever was resolved while the records were fetched, for any
\* number of addresses, requests and resolutions (dossiers.py).
THEOREM ObservationsAreFiledRight == Spec_Dossiers => []ObservationIsOfItsBuilding
<1>1. Init_Dossiers => ObservationIsOfItsBuilding
  BY DEF Init_Dossiers, ObservationIsOfItsBuilding
<1>2. ObservationIsOfItsBuilding /\ [Next_Dossiers]_dossierVars =>
        ObservationIsOfItsBuilding'
  <2> SUFFICES ASSUME ObservationIsOfItsBuilding, [Next_Dossiers]_dossierVars
               PROVE  ObservationIsOfItsBuilding'
    OBVIOUS
  <2>1. ASSUME NEW r \in DossierRequests, RecordObservation(r)
        PROVE  ObservationIsOfItsBuilding'
    <3> DEFINE filed == identity[request[r].address]
    <3>1. \/ observations' = observations
          \/ /\ IsOfConfirmed(r, filed.building)
             /\ observations' = observations \cup
                  {[identity |-> filed, records |-> request[r].found]}
      BY <2>1 DEF RecordObservation
    <3>2. IsOfConfirmed(r, filed.building) =>
            request[r].found \subseteq {filed.building}
      BY DEF IsOfConfirmed
    <3> QED BY <3>1, <3>2 DEF ObservationIsOfItsBuilding
  <2>2. CASE UNCHANGED observations
    BY <2>2 DEF ObservationIsOfItsBuilding
  <2> QED BY <2>1, <2>2 DEF Next_Dossiers, ResolveIdentity, AskForDossier,
         ReceiveRecords, DossierFails, dossierVars
<1> QED BY <1>1, <1>2, PTL DEF Spec_Dossiers

(***************************************************************************)
(* SourceComparison.                                                       *)
(***************************************************************************)
VersionPairs ==
  [old : Version, new : Version, parserChanged : BOOLEAN, sameBytes : BOOLEAN]

\* Reading a pair of versions the other way exchanges its two versions.
LEMMA ReversedPair ==
  ASSUME NEW p \in VersionPairs
  PROVE  LET q == Reversed(p)
         IN /\ q.old = p.new /\ q.new = p.old
            /\ q.parserChanged = p.parserChanged /\ q.sameBytes = p.sameBytes
            /\ Keys(q) = Keys(p)
BY DEF VersionPairs, Reversed, Keys

\* _classify of an aligned section is the mirror image the other way.
LEMMA ClassifyMirrors ==
  ASSUME NEW p \in VersionPairs, NEW k \in Keys(p)
  PROVE  /\ Classify(Reversed(p), k) = Mirrored(Classify(p, k))
         /\ Classify(p, k) = "removed" <=> p.new[k] = Absent
         /\ Classify(p, k) = "added" <=> p.old[k] = Absent
<1> DEFINE q == Reversed(p)
<1>1. /\ q.old = p.new /\ q.new = p.old
      /\ q.parserChanged = p.parserChanged /\ q.sameBytes = p.sameBytes
  BY ReversedPair
<1>2. ~(p.old[k] = Absent /\ p.new[k] = Absent)
  BY DEF Keys
<1> HIDE DEF q
<1> QED BY <1>1, <1>2 DEF Classify, Mirrored, q

\* What is removed one way is added the other way.
LEMMA RemovedIsAdded ==
  ASSUME NEW p \in VersionPairs, NEW t
  PROVE  /\ Removed(Reversed(p), t) = Added(p, t)
         /\ Added(Reversed(p), t) = Removed(p, t)
         /\ PossiblyRenumbered(Reversed(p), t) <=> PossiblyRenumbered(p, t)
<1> DEFINE q == Reversed(p)
<1>1. q.old = p.new /\ q.new = p.old /\ Keys(q) = Keys(p) /\ q \in VersionPairs
  BY ReversedPair DEF VersionPairs, Reversed
<1>2. \A k \in Keys(p) :
        /\ Classify(q, k) = "removed" <=> Classify(p, k) = "added"
        /\ Classify(q, k) = "added" <=> Classify(p, k) = "removed"
  <2> HIDE DEF q
  <2> QED BY <1>1, ClassifyMirrors
<1> HIDE DEF q
<1>3. Removed(q, t) = Added(p, t) /\ Added(q, t) = Removed(p, t)
  BY <1>1, <1>2 DEF Removed, Added
<1> QED BY <1>3 DEF PossiblyRenumbered, q

\* Comparing the other way gives the mirror image, suspected renumberings
\* included.
LEMMA ChangesMirror ==
  ASSUME NEW p \in VersionPairs, NEW k \in Keys(p)
  PROVE  Changes(Reversed(p))[k] = Mirrored(Changes(p)[k])
<1> DEFINE q == Reversed(p)
           Moved(x) == \E t \in Texts : /\ PossiblyRenumbered(x, t)
                                        /\ k \in Removed(x, t) \cup Added(x, t)
<1>1. Keys(q) = Keys(p)
  BY ReversedPair
<1>2. Moved(q) <=> Moved(p)
  BY RemovedIsAdded
<1>3. Changes(p)[k] = IF Moved(p) THEN "uncertain" ELSE Classify(p, k)
  BY DEF Changes
<1>4. Changes(q)[k] = IF Moved(q) THEN "uncertain" ELSE Classify(q, k)
  BY <1>1 DEF Changes
<1>5. Classify(q, k) = Mirrored(Classify(p, k))
  BY ClassifyMirrors
<1>6. Mirrored("uncertain") = "uncertain"
  BY DEF Mirrored
<1> HIDE DEF Moved
<1> QED BY <1>2, <1>3, <1>4, <1>5, <1>6

\* What is stored is the comparison of the two versions, whoever computed it.
ComparisonInv == pair \in VersionPairs /\ stored \subseteq {Changes(pair)}

\* A stored comparison favours neither of the two versions, for any versions
\* of any source (comparisons.py).
THEOREM ComparisonsAreSymmetric == Spec_Comparison => []ComparisonIsSymmetric
<1>1. Init_Comparison => ComparisonInv
  BY DEF Init_Comparison, ComparisonInv, VersionPairs
<1>2. ComparisonInv /\ [Next_Comparison]_comparisonVars => ComparisonInv'
  BY DEF Next_Comparison, BeginComparison, StoreComparison, comparisonVars,
     ComparisonInv
<1>3. ComparisonInv => ComparisonIsSymmetric
  <2> SUFFICES ASSUME ComparisonInv, NEW k \in Keys(pair)
               PROVE  Changes(Reversed(pair))[k] = Mirrored(Changes(pair)[k])
    BY DEF ComparisonInv, ComparisonIsSymmetric, Changes
  <2> QED BY ChangesMirror DEF ComparisonInv
<1> QED BY <1>1, <1>2, <1>3, PTL DEF Spec_Comparison

(***************************************************************************)
(* ResearchMatters.                                                        *)
(***************************************************************************)
\* What the two properties need of the tables and of a request: which matter
\* and which key it is about, and the text it was shown.
MatterRows == [state : {"absent", "open", "deleted"}, text : Seq(Clients)]

MatterTypes ==
  /\ matter \in [Matters -> MatterRows]
  /\ item \in [SavedItems -> SaveKeys \cup {"unused", "deleted"}]
  /\ receipts \in [SaveKeys -> SavedItems \cup {NoItem}]
  /\ accepted \in [Matters -> Nat]
  /\ DOMAIN client = Clients
  /\ \A c \in Clients :
       /\ client[c].at = "editing" => /\ client[c].m \in Matters
                                      /\ client[c].text \in Seq(Clients)
       /\ client[c].at = "saving" => client[c].key \in SaveKeys

MatterInv == MatterTypes /\ SavedWorkIsKept

\* A request that ends, or begins as anything but an edit or a save, is not
\* constrained.
LEMMA RequestChanges ==
  ASSUME MatterTypes, NEW c \in Clients, NEW r,
         client' = [client EXCEPT ![c] = r],
         r.at = "editing" => r.m \in Matters /\ r.text \in Seq(Clients),
         r.at = "saving" => r.key \in SaveKeys
  PROVE  /\ DOMAIN client' = Clients
         /\ \A d \in Clients :
              /\ client'[d].at = "editing" => /\ client'[d].m \in Matters
                                              /\ client'[d].text \in Seq(Clients)
              /\ client'[d].at = "saving" => client'[d].key \in SaveKeys
BY DEF MatterTypes

\* The request of an idle client.
LEMMA NoRequestIsIdle == NoRequest.at = "idle"
BY DEF NoRequest

\* A step that only looks, links or indexes.
LEMMA MatterReads ==
  ASSUME MatterInv, NEW c \in Clients, NEW r,
         client' = [client EXCEPT ![c] = r],
         r.at = "editing" => r.m \in Matters /\ r.text \in Seq(Clients),
         r.at = "saving" => r.key \in SaveKeys,
         UNCHANGED <<matter, item, receipts, accepted>>
  PROVE  MatterInv'
<1>1. MatterTypes'
  BY RequestChanges DEF MatterInv, MatterTypes
<1>2. SavedWorkIsKept'
  BY DEF MatterInv, SavedWorkIsKept, SaveIsIdempotent, NoEditIsLost, Kept
<1> QED BY <1>1, <1>2 DEF MatterInv

\* PATCH /matters/{id} adds one edit to what it has seen.
LEMMA UpdateMatterInv ==
  ASSUME MatterInv, NEW c \in Clients, UpdateMatter(c)
  PROVE  MatterInv'
<1> DEFINE m == client[c].m
           text == Append(client[c].text, c)
<1>0. /\ MatterTypes /\ client[c].at = "editing"
      /\ m \in Matters /\ client[c].text \in Seq(Clients)
      /\ Ends(c) /\ UNCHANGED <<item, receipts>>
  BY DEF MatterInv, MatterTypes, UpdateMatter
<1>1. CASE ~SameRevision(c)
  <2>1. UNCHANGED <<matter, accepted>>
    BY <1>1 DEF UpdateMatter
  <2> QED BY <1>0, <2>1, MatterReads, NoRequestIsIdle DEF Ends
<1>2. CASE SameRevision(c)
  <2>1. /\ matter' = [matter EXCEPT ![m].text = text]
        /\ accepted' = [accepted EXCEPT ![m] = @ + 1]
    BY <1>2 DEF UpdateMatter
  <2>2. /\ text \in Seq(Clients)
        /\ Len(text) = Len(client[c].text) + 1
        /\ Len(client[c].text) = Len(matter[m].text)
    BY <1>0, <1>2 DEF SameRevision
  <2> HIDE DEF text, m
  <2>3. MatterTypes'
    <3>0. matter[m] \in MatterRows
      BY <1>0 DEF MatterTypes
    <3>1. [matter[m] EXCEPT !.text = text] \in MatterRows
      BY <2>2, <3>0 DEF MatterRows
    <3>3. /\ matter' \in [Matters -> MatterRows]
          /\ accepted' \in [Matters -> Nat]
      BY <1>0, <2>1, <3>1 DEF MatterTypes
    <3>2. NoRequest.at # "editing" /\ NoRequest.at # "saving"
      BY NoRequestIsIdle
    <3> QED BY <1>0, <3>2, <3>3, RequestChanges DEF MatterTypes, Ends
  <2>4. NoEditIsLost'
    BY <1>0, <2>1, <2>2 DEF MatterInv, MatterTypes, MatterRows,
       SavedWorkIsKept, NoEditIsLost
  <2>5. SaveIsIdempotent'
    BY <1>0 DEF MatterInv, SavedWorkIsKept, SaveIsIdempotent, Kept
  <2> QED BY <2>3, <2>4, <2>5 DEF MatterInv, SavedWorkIsKept
<1> QED BY <1>1, <1>2

\* The first save with a key: the key has no other item.
LEMMA SaveNewInv ==
  ASSUME MatterInv, NEW c \in Clients, SaveNew(c)
  PROVE  MatterInv'
<1> DEFINE k == client[c].key
<1>0. /\ MatterTypes /\ k \in SaveKeys
      /\ Ends(c) /\ UNCHANGED <<matter, accepted>>
  BY DEF MatterInv, MatterTypes, SaveNew
<1>1. \/ UNCHANGED <<item, receipts>>
      \/ \E i \in SavedItems : /\ KeyIsFree(k)
                               /\ item' = [item EXCEPT ![i] = k]
                               /\ receipts' = [receipts EXCEPT ![k] = i]
  BY DEF SaveNew
<1>2. CASE UNCHANGED <<item, receipts>>
  BY <1>0, <1>2, MatterReads, NoRequestIsIdle DEF Ends
<1>3. ASSUME NEW i \in SavedItems, KeyIsFree(k),
             item' = [item EXCEPT ![i] = k],
             receipts' = [receipts EXCEPT ![k] = i]
      PROVE  MatterInv'
  <2> HIDE DEF k
  <2>1. MatterTypes'
    BY <1>0, <1>3, RequestChanges, NoRequestIsIdle DEF MatterTypes, Ends
  <2>2. \A j \in SavedItems : Kept(j) => item[j] # k
    BY <1>3 DEF KeyIsFree, MatterInv, SavedWorkIsKept, SaveIsIdempotent, Kept
  <2>3. SaveIsIdempotent'
    BY <1>0, <1>3, <2>2
       DEF MatterInv, SavedWorkIsKept, SaveIsIdempotent, Kept, MatterTypes
  <2>4. NoEditIsLost'
    BY <1>0 DEF MatterInv, SavedWorkIsKept, NoEditIsLost
  <2> QED BY <2>1, <2>3, <2>4 DEF MatterInv, SavedWorkIsKept
<1> QED BY <1>1, <1>2, <1>3

\* Deleting an item takes its receipt with it, and no other.
LEMMA RemoveItemInv ==
  ASSUME MatterInv, NEW c \in Clients, RemoveItem(c)
  PROVE  MatterInv'
<1> DEFINE i == client[c].i
<1>0. MatterTypes /\ Ends(c) /\ UNCHANGED <<matter, accepted>>
  BY DEF MatterInv, RemoveItem
<1>1. CASE client[c].remaining # {}
  <2>1. UNCHANGED <<item, receipts>>
    BY <1>1 DEF RemoveItem
  <2> QED BY <1>0, <2>1, MatterReads, NoRequestIsIdle DEF Ends
<1>2. CASE client[c].remaining = {}
  <2>1. /\ item' = [item EXCEPT ![i] = "deleted"]
        /\ receipts' = [k \in SaveKeys |->
                          IF receipts[k] = i THEN NoItem ELSE receipts[k]]
    BY <1>2 DEF RemoveItem
  <2> HIDE DEF i
  <2>2. MatterTypes'
    <3>1. /\ item' \in [SavedItems -> SaveKeys \cup {"unused", "deleted"}]
          /\ receipts' \in [SaveKeys -> SavedItems \cup {NoItem}]
      BY <1>0, <2>1 DEF MatterTypes
    <3>2. NoRequest.at # "editing" /\ NoRequest.at # "saving"
      BY NoRequestIsIdle
    <3> QED BY <1>0, <3>1, <3>2, RequestChanges DEF MatterTypes, Ends
  <2>3. SaveIsIdempotent'
    BY <1>0, <2>1, MattersAssumption
       DEF MatterInv, SavedWorkIsKept, SaveIsIdempotent, Kept, MatterTypes
  <2>4. NoEditIsLost'
    BY <1>0 DEF MatterInv, SavedWorkIsKept, NoEditIsLost
  <2> QED BY <2>2, <2>3, <2>4 DEF MatterInv, SavedWorkIsKept
<1> QED BY <1>1, <1>2

\* Linking never touches an item or a receipt.
LEMMA LinkInv ==
  ASSUME MatterInv, NEW c \in Clients, NEW m, NEW i,
         LinkAndRefresh(c, m, i), UNCHANGED <<matter, item, receipts, accepted>>
  PROVE  MatterInv'
<1>1. CASE <<m, i>> \in links
  <2> DEFINE r == [NoRequest EXCEPT !.at = "refreshing", !.m = m,
                                    !.text = matter[m].text]
  <2>1. client' = [client EXCEPT ![c] = r]
    BY <1>1 DEF LinkAndRefresh, Begins
  <2>2. r.at = "refreshing"
    BY DEF NoRequest
  <2> HIDE DEF r
  <2> QED BY <2>1, <2>2, MatterReads
<1>2. CASE <<m, i>> \notin links
  BY <1>2, MatterReads, NoRequestIsIdle DEF LinkAndRefresh, Ends
<1> QED BY <1>1, <1>2

\* Every request, in any interleaving.
LEMMA MatterStep ==
  ASSUME MatterInv, [Next_Matters]_matterVars
  PROVE  MatterInv'
<1>0. MatterTypes
  BY DEF MatterInv
<1>1. ASSUME NEW m \in Matters, CreateMatter(m) \/ DeleteMatter(m)
      PROVE  MatterInv'
  <2>1. /\ UNCHANGED <<item, receipts, client>>
        /\ \/ /\ matter' = [matter EXCEPT ![m].state = "open"]
              /\ UNCHANGED accepted
           \/ /\ matter' = [matter EXCEPT ![m] =
                              [state |-> "deleted", text |-> <<>>]]
              /\ accepted' = [accepted EXCEPT ![m] = 0]
    BY <1>1 DEF CreateMatter, DeleteMatter
  <2>2. MatterTypes'
    <3>0. matter[m] \in MatterRows
      BY <1>0 DEF MatterTypes
    <3>1. /\ [matter[m] EXCEPT !.state = "open"] \in MatterRows
          /\ [state |-> "deleted", text |-> <<>>] \in MatterRows
      BY <3>0 DEF MatterRows
    <3>2. accepted' \in [Matters -> Nat]
      BY <1>0, <2>1 DEF MatterTypes
    <3>3. PICK r \in MatterRows : matter' = [matter EXCEPT ![m] = r]
      BY <2>1, <3>1
    <3>4. matter' \in [Matters -> MatterRows]
      BY <1>0, <3>3 DEF MatterTypes
    <3> QED BY <1>0, <2>1, <3>2, <3>4 DEF MatterTypes
  <2>3. NoEditIsLost' /\ SaveIsIdempotent'
    BY <1>0, <2>1 DEF MatterInv, MatterTypes, MatterRows, SavedWorkIsKept,
       NoEditIsLost, SaveIsIdempotent, Kept
  <2> QED BY <2>2, <2>3 DEF MatterInv, SavedWorkIsKept
<1>2. ASSUME NEW c \in Clients, PutNote(c) \/ Refresh(c)
      PROVE  MatterInv'
  <2>1. Ends(c) /\ UNCHANGED <<matter, item, receipts, accepted>>
    BY <1>2 DEF PutNote, Refresh
  <2> QED BY <2>1, MatterReads, NoRequestIsIdle DEF Ends
<1>3. ASSUME NEW c \in Clients, NEW m \in Matters, LoadMatter(c, m)
      PROVE  MatterInv'
  <2> DEFINE r == [NoRequest EXCEPT !.at = "editing", !.m = m,
                     !.text = matter[m].text, !.note = note[m]]
  <2>1. client' = [client EXCEPT ![c] = r]
        /\ UNCHANGED <<matter, item, receipts, accepted>>
    BY <1>3 DEF LoadMatter, Begins
  <2>2. r.at = "editing" /\ r.m = m /\ r.text = matter[m].text
    BY DEF NoRequest
  <2>3. matter[m].text \in Seq(Clients)
    BY <1>0 DEF MatterTypes, MatterRows
  <2> HIDE DEF r
  <2> QED BY <2>1, <2>2, <2>3, MatterReads
<1>4. ASSUME NEW c \in Clients, NEW m \in Matters, NEW k \in SaveKeys,
             LookUpReceipt(c, m, k)
      PROVE  MatterInv'
  <2> DEFINE r == [NoRequest EXCEPT !.at = "saving", !.m = m, !.key = k,
                                    !.i = receipts[k]]
  <2>1. client' = [client EXCEPT ![c] = r]
        /\ UNCHANGED <<matter, item, receipts, accepted>>
    BY <1>4 DEF LookUpReceipt, Begins
  <2>2. r.at = "saving" /\ r.key = k
    BY DEF NoRequest
  <2> HIDE DEF r
  <2> QED BY <2>1, <2>2, MatterReads
<1>5. ASSUME NEW c \in Clients, NEW i, NEW from, LookUpLinks(c, i, from)
      PROVE  MatterInv'
  <2> DEFINE r == [NoRequest EXCEPT !.at = "removing", !.i = i,
                     !.affected = from, !.remaining = Linked(i) \ from]
  <2>1. client' = [client EXCEPT ![c] = r]
        /\ UNCHANGED <<matter, item, receipts, accepted>>
    BY <1>5 DEF LookUpLinks, Begins
  <2>2. r.at = "removing"
    BY DEF NoRequest
  <2> HIDE DEF r
  <2> QED BY <2>1, <2>2, MatterReads
<1>6. ASSUME NEW c \in Clients,
             SaveAgain(c) \/ \E m \in Matters, i \in SavedItems : LinkItem(c, m, i)
      PROVE  MatterInv'
  BY <1>6, LinkInv DEF SaveAgain, LinkItem
<1>7. CASE UNCHANGED matterVars
  BY <1>7 DEF matterVars, MatterInv, MatterTypes, SavedWorkIsKept,
     SaveIsIdempotent, NoEditIsLost, Kept
<1> QED BY <1>1, <1>2, <1>3, <1>4, <1>5, <1>6, <1>7, UpdateMatterInv,
       SaveNewInv, RemoveItemInv DEF Next_Matters

\* What a client was told is saved stays: a key saves one item, and no
\* accepted edit is overwritten unseen, for any number of clients, matters and
\* keys (matters.py).
THEOREM SavedWorkStays == Spec_Matters => []SavedWorkIsKept
<1>1. Init_Matters => MatterInv
  <2> SUFFICES ASSUME Init_Matters PROVE MatterInv
    OBVIOUS
  <2>1. MatterTypes
    BY NoRequestIsIdle DEF Init_Matters, MatterTypes, MatterRows, NoMatter
  <2>2. SavedWorkIsKept
    BY MattersAssumption DEF Init_Matters, NoMatter, SavedWorkIsKept,
       SaveIsIdempotent, NoEditIsLost, Kept
  <2> QED BY <2>1, <2>2 DEF MatterInv
<1>2. MatterInv /\ [Next_Matters]_matterVars => MatterInv'
  BY MatterStep
<1>3. MatterInv => SavedWorkIsKept
  BY DEF MatterInv
<1> QED BY <1>1, <1>2, <1>3, PTL DEF Spec_Matters

(***************************************************************************)
(* InteractiveAnswers.                                                     *)
(***************************************************************************)
QuestionRows ==
  [row : {"absent", "queued", "running", "cancel_requested", "succeeded",
          "failed", "cancelled"},
   record : {"none", "held", "expired"}, result : BOOLEAN, signal : BOOLEAN,
   listed : BOOLEAN]
PollRows ==
  [at : {"idle", "row", "done"},
   row : {"absent", "queued", "running", "cancel_requested", "succeeded",
          "failed", "cancelled"},
   record : {"none", "held", "expired"}, result : BOOLEAN]
CallStates == {"none", "reserved", "settled", "uncertain", "lost"}

InteractiveTypes ==
  /\ question \in [Questions -> QuestionRows]
  /\ run = [q \in Questions |-> run[q]]
  /\ call \in [Questions -> [Calls -> CallStates]]
  /\ poll \in [Questions -> PollRows]

\* Where a run can be when its result is in the record, and when its row has
\* been claimed.
ResultStages == {"succeeding", "failing", "leaving", "ended", "dead"}
Claimed == {"begun", "embedding", "answer", "embedding sent", "answer sent",
            "found", "storing", "succeeding", "cancelling"}

\* A result is only in the record of a question that was claimed; a row that
\* succeeded has its result as long as it has its record.
RunOrder(x, pc) ==
  /\ pc = "none" => x.row = "absent"
  /\ pc \in {"none", "created"} => x.record # "held"
  /\ pc \in Claimed => x.row \notin {"absent", "queued", "cancelled", "succeeded"}
  /\ x.result => /\ x.row \notin {"absent", "queued", "cancelled"}
                 /\ pc \in ResultStages
  /\ x.row = "succeeded" => /\ pc \in {"leaving", "ended", "dead"}
                            /\ x.record = "held" => x.result
  /\ pc = "succeeding" /\ x.record = "held" => x.result

\* What a browser has read stays true of a row that is over.
PollSound(x, p) ==
  /\ p.at = "row" /\ p.row \in {"succeeded", "cancelled"} => x.row = p.row
  /\ p.at = "done" =>
       /\ p.row = "succeeded" /\ p.record = "held" => p.result
       /\ p.row = "cancelled" => ~p.result

\* An attempt is reserved while its run waits for the provider and no longer.
ReservedIsSent(a, pc) ==
  \A c \in Calls : a[c] = "reserved" => pc = Sent(c)

InteractiveInv ==
  /\ InteractiveTypes
  /\ \A q \in Questions : /\ RunOrder(question[q], run[q])
                          /\ PollSound(question[q], poll[q])
                          /\ ReservedIsSent(call[q], run[q])

\* It is enough to look at the question that a step is about.
LEMMA OneQuestion ==
  ASSUME InteractiveInv, NEW q \in Questions,
         NEW x \in QuestionRows, NEW pc, NEW a \in [Calls -> CallStates],
         NEW p \in PollRows,
         question' = [question EXCEPT ![q] = x],
         run' = [run EXCEPT ![q] = pc],
         call' = [call EXCEPT ![q] = a],
         poll' = [poll EXCEPT ![q] = p],
         RunOrder(x, pc), PollSound(x, p), ReservedIsSent(a, pc)
  PROVE  InteractiveInv'
<1>1. InteractiveTypes'
  BY DEF InteractiveInv, InteractiveTypes
<1>2. ASSUME NEW r \in Questions
      PROVE  /\ RunOrder(question'[r], run'[r])
             /\ PollSound(question'[r], poll'[r])
             /\ ReservedIsSent(call'[r], run'[r])
  <2>1. CASE r = q
    BY <2>1 DEF InteractiveInv, InteractiveTypes
  <2>2. CASE r # q
    <3>1. /\ question'[r] = question[r] /\ run'[r] = run[r]
          /\ call'[r] = call[r] /\ poll'[r] = poll[r]
      BY <2>2 DEF InteractiveInv, InteractiveTypes
    <3> QED BY <3>1 DEF InteractiveInv
  <2> QED BY <2>1, <2>2
<1> QED BY <1>1, <1>2 DEF InteractiveInv

\* The steps that only move the run on.
LEMMA RunMoves ==
  ASSUME InteractiveInv, NEW q \in Questions, NEW pc, Goes(q, pc),
         UNCHANGED <<question, call, poll>>,
         RunOrder(question[q], pc), ReservedIsSent(call[q], pc)
  PROVE  InteractiveInv'
<1>1. /\ question[q] \in QuestionRows /\ call[q] \in [Calls -> CallStates]
      /\ poll[q] \in PollRows /\ PollSound(question[q], poll[q])
      /\ question' = [question EXCEPT ![q] = question[q]]
      /\ call' = [call EXCEPT ![q] = call[q]]
      /\ poll' = [poll EXCEPT ![q] = poll[q]]
  BY DEF InteractiveInv, InteractiveTypes
<1> QED BY <1>1, OneQuestion DEF Goes

\* The steps that change the row or the record.
LEMMA QuestionMoves ==
  ASSUME InteractiveInv, NEW q \in Questions, NEW x \in QuestionRows, NEW pc,
         question' = [question EXCEPT ![q] = x],
         run' = [run EXCEPT ![q] = pc],
         UNCHANGED <<call, poll>>,
         RunOrder(x, pc), PollSound(x, poll[q]), ReservedIsSent(call[q], pc)
  PROVE  InteractiveInv'
<1>1. /\ call[q] \in [Calls -> CallStates] /\ poll[q] \in PollRows
      /\ call' = [call EXCEPT ![q] = call[q]]
      /\ poll' = [poll EXCEPT ![q] = poll[q]]
  BY DEF InteractiveInv, InteractiveTypes
<1> QED BY <1>1, OneQuestion

\* The steps of the gateway.
LEMMA CallMoves ==
  ASSUME InteractiveInv, NEW q \in Questions, NEW c \in Calls, NEW s \in CallStates,
         NEW pc, Goes(q, pc), call' = [call EXCEPT ![q][c] = s],
         UNCHANGED <<question, poll>>,
         RunOrder(question[q], pc),
         \A d \in Calls \ {c} : call[q][d] # "reserved",
         s = "reserved" => pc = Sent(c)
  PROVE  InteractiveInv'
<1> DEFINE a == [call[q] EXCEPT ![c] = s]
<1>1. /\ question[q] \in QuestionRows /\ call[q] \in [Calls -> CallStates]
      /\ poll[q] \in PollRows /\ PollSound(question[q], poll[q])
      /\ question' = [question EXCEPT ![q] = question[q]]
      /\ poll' = [poll EXCEPT ![q] = poll[q]]
      /\ call' = [call EXCEPT ![q] = a]
  BY DEF InteractiveInv, InteractiveTypes
<1>2. a \in [Calls -> CallStates] /\ ReservedIsSent(a, pc)
  BY <1>1 DEF ReservedIsSent
<1> HIDE DEF a
<1> QED BY <1>1, <1>2, OneQuestion DEF Goes

\* The application starts again.
LEMMA RestartInv ==
  ASSUME InteractiveInv, RestartApp
  PROVE  InteractiveInv'
<1>0. InteractiveTypes
  BY DEF InteractiveInv
<1> DEFINE Row(q) == IF question[q].row \in {"queued"} \cup LeasedRow
                     THEN "failed" ELSE question[q].row
           Call(q) == [c \in Calls |->
                  IF call[q][c] \in {"reserved", "lost"} THEN "uncertain"
                  ELSE call[q][c]]
<1>2. ASSUME NEW q \in Questions
      PROVE  /\ question'[q] \in QuestionRows
             /\ call'[q] \in [Calls -> CallStates]
             /\ poll'[q] \in PollRows
             /\ RunOrder(question'[q], run'[q])
             /\ PollSound(question'[q], poll'[q])
             /\ ReservedIsSent(call'[q], run'[q])
  <2>1. /\ question[q] \in QuestionRows /\ call[q] \in [Calls -> CallStates]
        /\ RunOrder(question[q], run[q])
    BY <1>0 DEF InteractiveTypes, InteractiveInv
  <2>2. /\ Row(q) \in {"absent", "succeeded", "failed", "cancelled"}
        /\ run[q] = "none" => Row(q) = "absent"
    BY <2>1 DEF QuestionRows, LeasedRow, RunOrder
  <2>3. \A c \in Calls : Call(q)[c] \in CallStates \ {"reserved"}
    BY <2>1 DEF CallStates
  <2>4. Call(q) = [c \in Calls |-> Call(q)[c]]
    OBVIOUS
  <2>5. /\ question'[q] = [row |-> Row(q), record |-> "none", result |-> FALSE,
                           signal |-> FALSE, listed |-> FALSE]
        /\ run'[q] = IF run[q] = "none" THEN "none" ELSE "dead"
    BY DEF RestartApp, NoQuestion
  <2>6. call'[q] = Call(q)
    BY DEF RestartApp
  <2>7. poll'[q] = [at |-> "idle", row |-> "absent", record |-> "none",
                    result |-> FALSE]
    BY DEF RestartApp, NoPoll
  <2> HIDE DEF Row, Call
  <2>8. question'[q] \in QuestionRows /\ poll'[q] \in PollRows
    BY <2>2, <2>5, <2>7 DEF QuestionRows, PollRows
  <2>9. call'[q] \in [Calls -> CallStates]
    BY <2>3, <2>4, <2>6
  <2>10. RunOrder(question'[q], run'[q])
    BY <2>2, <2>5 DEF RunOrder, Claimed
  <2>11. PollSound(question'[q], poll'[q])
    BY <2>7 DEF PollSound
  <2>12. ReservedIsSent(call'[q], run'[q])
    BY <2>3, <2>6 DEF ReservedIsSent
  <2> QED BY <2>8, <2>9, <2>10, <2>11, <2>12
<1>3. InteractiveTypes'
  <2>1. /\ question' = [q \in Questions |-> question'[q]]
        /\ run' = [q \in Questions |-> run'[q]]
        /\ call' = [q \in Questions |-> call'[q]]
        /\ poll' = [q \in Questions |-> poll'[q]]
    BY DEF RestartApp
  <2> QED BY <1>2, <2>1 DEF InteractiveTypes
<1> QED BY <1>2, <1>3 DEF InteractiveInv

\* Every step of browsers, runs, the gateway and a crash.
LEMMA InteractiveStep ==
  ASSUME InteractiveInv, [Next_Interactive]_interactiveVars
  PROVE  InteractiveInv'
<1>0. /\ question \in [Questions -> QuestionRows]
      /\ call \in [Questions -> [Calls -> CallStates]]
      /\ poll \in [Questions -> PollRows] /\ run = [q \in Questions |-> run[q]]
  BY DEF InteractiveInv, InteractiveTypes
<1>1. ASSUME NEW q \in Questions
      PROVE  /\ question[q] \in QuestionRows /\ poll[q] \in PollRows
             /\ call[q] \in [Calls -> CallStates]
             /\ RunOrder(question[q], run[q])
             /\ PollSound(question[q], poll[q])
             /\ ReservedIsSent(call[q], run[q])
             /\ run[q] \notin {"embedding sent", "answer sent"} =>
                  \A c \in Calls : call[q][c] # "reserved"
  BY <1>0 DEF InteractiveInv, ReservedIsSent, Sent
<1>2. ASSUME NEW q \in Questions,
             \/ CreateQuestion(q) \/ Register(q) \/ StoreResult(q)
             \/ FinishCancelRow(q) \/ FailRow(q) \/ LeaveRun(q)
      PROVE  InteractiveInv'
  <2>1. PICK x \in QuestionRows, pc \in {"created", "waiting", "succeeding",
                                         "leaving", "ended"} :
          /\ question' = [question EXCEPT ![q] = x]
          /\ run' = [run EXCEPT ![q] = pc]
          /\ RunOrder(x, pc) /\ PollSound(x, poll[q])
    <3> USE <1>0, <1>1
    <3>1. CASE CreateQuestion(q)
      <4> DEFINE x == [question[q] EXCEPT !.row = "queued"]
      <4>0. /\ run[q] = "none" /\ question[q].row = "absent"
            /\ question[q].record # "held" /\ ~question[q].result
        BY <3>1 DEF CreateQuestion, RunOrder, QuestionRows, ResultStages
      <4>1. x \in QuestionRows /\ RunOrder(x, "created") /\ PollSound(x, poll[q])
        <5>1. x \in QuestionRows /\ x.row = "queued"
              /\ x.record = question[q].record /\ x.result = question[q].result
          BY DEF QuestionRows
        <5> HIDE DEF x
        <5>2. RunOrder(x, "created")
          BY <4>0, <5>1 DEF RunOrder, Claimed
        <5>3. PollSound(x, poll[q])
          BY <4>0, <5>1 DEF PollSound
        <5> QED BY <5>1, <5>2, <5>3
      <4> QED BY <3>1, <4>1 DEF CreateQuestion, Goes
    <3>2. CASE Register(q)
      <4> DEFINE x == [question[q] EXCEPT !.record = "held", !.listed = TRUE]
      <4>1. x \in QuestionRows /\ RunOrder(x, "waiting") /\ PollSound(x, poll[q])
        BY <3>2 DEF Register, QuestionRows, RunOrder, PollSound, Claimed, ResultStages
      <4> QED BY <3>2, <4>1 DEF Register, Goes
    <3>3. CASE StoreResult(q)
      <4> DEFINE x == [question[q] EXCEPT !.result = question[q].record = "held"]
      <4>1. x \in QuestionRows /\ RunOrder(x, "succeeding") /\ PollSound(x, poll[q])
        BY <3>3 DEF StoreResult, QuestionRows, RunOrder, PollSound, Claimed, ResultStages
      <4> QED BY <3>3, <4>1 DEF StoreResult, Goes
    <3>4. CASE FinishCancelRow(q)
      <4> DEFINE x == [question[q] EXCEPT !.row =
                         IF @ = "cancel_requested" THEN "cancelled" ELSE @]
      <4>1. x \in QuestionRows /\ RunOrder(x, "leaving") /\ PollSound(x, poll[q])
        BY <3>4 DEF FinishCancelRow, QuestionRows, RunOrder, PollSound, Claimed,
           ResultStages
      <4> QED BY <3>4, <4>1 DEF FinishCancelRow, Goes
    <3>5. CASE FailRow(q)
      <4> DEFINE x == [question[q] EXCEPT !.row =
                         IF @ \in LeasedRow THEN "failed" ELSE @]
      <4>1. x \in QuestionRows /\ RunOrder(x, "leaving") /\ PollSound(x, poll[q])
        BY <3>5 DEF FailRow, QuestionRows, RunOrder, PollSound, Claimed, ResultStages,
           LeasedRow
      <4> QED BY <3>5, <4>1 DEF FailRow, Goes
    <3>6. CASE LeaveRun(q)
      <4> DEFINE x == [question[q] EXCEPT !.listed = FALSE]
      <4>1. x \in QuestionRows /\ RunOrder(x, "ended") /\ PollSound(x, poll[q])
        BY <3>6 DEF LeaveRun, QuestionRows, RunOrder, PollSound, Claimed, ResultStages
      <4> QED BY <3>6, <4>1 DEF LeaveRun, Goes
    <3> QED BY <1>2, <3>1, <3>2, <3>3, <3>4, <3>5, <3>6
  <2>2. UNCHANGED <<call, poll>> /\ run[q] \notin {"embedding sent", "answer sent"}
    BY <1>2 DEF CreateQuestion, Register, StoreResult, FinishCancelRow, FailRow,
       LeaveRun
  <2>3. ReservedIsSent(call[q], pc)
    BY <1>1, <2>2 DEF ReservedIsSent
  <2> QED BY <2>1, <2>2, <2>3, QuestionMoves
<1>3. ASSUME NEW q \in Questions, CancelQuestion(q)
      PROVE  InteractiveInv'
  <2> DEFINE x == [question[q] EXCEPT !.row =
                     IF @ = "queued" THEN "cancelled" ELSE "cancel_requested"]
  <2>1. /\ question[q].row \in {"queued", "running", "cancel_requested"}
        /\ question' = [question EXCEPT ![q] = x]
        /\ run' = [run EXCEPT ![q] = run[q]] /\ UNCHANGED <<call, poll>>
    BY <1>0, <1>3 DEF CancelQuestion, LeasedRow
  <2>2. /\ x \in QuestionRows /\ x.record = question[q].record
        /\ x.result = question[q].result
        /\ question[q].row = "queued" => x.row = "cancelled"
        /\ question[q].row # "queued" => x.row = "cancel_requested"
    BY <1>1 DEF QuestionRows
  <2> HIDE DEF x
  <2>3. RunOrder(x, run[q])
    BY <1>1, <2>1, <2>2 DEF RunOrder, Claimed
  <2>4. PollSound(x, poll[q])
    BY <1>1, <2>1, <2>2 DEF PollSound
  <2> QED BY <1>1, <2>1, <2>2, <2>3, <2>4, QuestionMoves
<1>4. ASSUME NEW q \in Questions, SignalRun(q) \/ PruneRecord(q)
      PROVE  InteractiveInv'
  <2>1. PICK x \in QuestionRows :
          /\ question' = [question EXCEPT ![q] = x]
          /\ x.row = question[q].row
          /\ \/ x.record = question[q].record /\ x.result = question[q].result
             \/ x.record = "expired" /\ ~x.result
    <3>1. CASE SignalRun(q)
      <4> DEFINE x == [question[q] EXCEPT !.signal = @ \/ question[q].listed]
      <4>1. /\ x \in QuestionRows /\ x.row = question[q].row
            /\ x.record = question[q].record /\ x.result = question[q].result
        BY <1>1 DEF QuestionRows
      <4>2. question' = [question EXCEPT ![q] = x]
        BY <1>0, <3>1 DEF SignalRun
      <4> QED BY <4>1, <4>2
    <3>2. CASE PruneRecord(q)
      <4> DEFINE x == [question[q] EXCEPT !.record = "expired", !.result = FALSE,
                                          !.listed = FALSE]
      <4>1. /\ x \in QuestionRows /\ x.row = question[q].row
            /\ x.record = "expired" /\ ~x.result
        BY <1>1 DEF QuestionRows
      <4>2. question' = [question EXCEPT ![q] = x]
        BY <1>0, <3>2 DEF PruneRecord
      <4> QED BY <4>1, <4>2
    <3> QED BY <1>4, <3>1, <3>2
  <2>2. run' = [run EXCEPT ![q] = run[q]] /\ UNCHANGED <<call, poll>>
    BY <1>0, <1>4 DEF SignalRun, PruneRecord
  <2>3. RunOrder(x, run[q])
    BY <1>1, <2>1 DEF RunOrder
  <2>4. PollSound(x, poll[q])
    BY <1>1, <2>1 DEF PollSound
  <2> QED BY <1>1, <2>1, <2>2, <2>3, <2>4, QuestionMoves
<1>5. ASSUME NEW q \in Questions, RecoverLapsed(q)
      PROVE  InteractiveInv'
  <2> DEFINE x == [question[q] EXCEPT !.row = "failed"]
  <2>1. /\ question[q].row \in {"running", "cancel_requested"}
        /\ question' = [question EXCEPT ![q] = x]
        /\ run' = [run EXCEPT ![q] = run[q]] /\ UNCHANGED <<call, poll>>
    BY <1>0, <1>5 DEF RecoverLapsed, LeasedRow
  <2>2. /\ x \in QuestionRows /\ x.record = question[q].record
        /\ x.result = question[q].result /\ x.row = "failed"
    BY <1>1 DEF QuestionRows
  <2> HIDE DEF x
  <2>3. RunOrder(x, run[q])
    BY <1>1, <2>1, <2>2 DEF RunOrder
  <2>4. PollSound(x, poll[q])
    BY <1>1, <2>1, <2>2 DEF PollSound
  <2> QED BY <1>1, <2>1, <2>2, <2>3, <2>4, QuestionMoves
<1>6. ASSUME NEW q \in Questions, StartRun(q)
      PROVE  InteractiveInv'
  <2>0. run[q] = "waiting" /\ UNCHANGED <<call, poll>>
    BY <1>6 DEF StartRun
  <2>1. \A pc : ReservedIsSent(call[q], pc)
    BY <1>1, <2>0 DEF ReservedIsSent
  <2>2. CASE /\ question[q].row = "queued"
             /\ question' = [question EXCEPT ![q].row = "running"]
             /\ Goes(q, "begun")
    <3> DEFINE x == [question[q] EXCEPT !.row = "running"]
    <3>1. question' = [question EXCEPT ![q] = x] /\ run' = [run EXCEPT ![q] = "begun"]
      BY <1>0, <2>2 DEF Goes
    <3>2. /\ x \in QuestionRows /\ x.record = question[q].record
          /\ x.result = question[q].result /\ x.row = "running"
      BY <1>1 DEF QuestionRows
    <3> HIDE DEF x
    <3>3. RunOrder(x, "begun")
      BY <1>1, <2>2, <3>2 DEF RunOrder, Claimed
    <3>4. PollSound(x, poll[q])
      BY <1>1, <2>2, <3>2 DEF PollSound
    <3> QED BY <2>0, <2>1, <3>1, <3>2, <3>3, <3>4, QuestionMoves
  <2>3. CASE Goes(q, "failing") /\ UNCHANGED question
    <3>1. RunOrder(question[q], "failing")
      BY <1>1, <2>0 DEF RunOrder, Claimed, ResultStages
    <3> QED BY <2>0, <2>1, <2>3, <3>1, RunMoves
  <2> QED BY <1>6, <2>2, <2>3 DEF StartRun
<1>7. ASSUME NEW q \in Questions, SucceedRow(q)
      PROVE  InteractiveInv'
  <2>0. run[q] = "succeeding" /\ UNCHANGED <<call, poll>>
    BY <1>7 DEF SucceedRow
  <2>1. \A pc : ReservedIsSent(call[q], pc)
    BY <1>1, <2>0 DEF ReservedIsSent
  <2>2. CASE /\ question[q].row = "running"
             /\ question' = [question EXCEPT ![q].row = "succeeded"]
             /\ Goes(q, "leaving")
    <3> DEFINE x == [question[q] EXCEPT !.row = "succeeded"]
    <3>1. question' = [question EXCEPT ![q] = x] /\ run' = [run EXCEPT ![q] = "leaving"]
      BY <1>0, <2>2 DEF Goes
    <3>2. /\ x \in QuestionRows /\ x.record = question[q].record
          /\ x.result = question[q].result /\ x.row = "succeeded"
      BY <1>1 DEF QuestionRows
    <3> HIDE DEF x
    <3>3. RunOrder(x, "leaving")
      BY <1>1, <2>0, <2>2, <3>2 DEF RunOrder, Claimed, ResultStages
    <3>4. PollSound(x, poll[q])
      BY <1>1, <2>2, <3>2 DEF PollSound
    <3> QED BY <2>0, <2>1, <3>1, <3>2, <3>3, <3>4, QuestionMoves
  <2>3. CASE Goes(q, "failing") /\ UNCHANGED question
    <3>1. RunOrder(question[q], "failing")
      BY <1>1, <2>0 DEF RunOrder, Claimed, ResultStages
    <3> QED BY <2>0, <2>1, <2>3, <3>1, RunMoves
  <2> QED BY <1>7, <2>2, <2>3 DEF SucceedRow
<1>8. ASSUME NEW q \in Questions, BeginRetrieval(q) \/ ShowEvidence(q)
      PROVE  InteractiveInv'
  <2>0. run[q] \in {"begun", "found"} /\ UNCHANGED <<question, call, poll>>
    BY <1>8 DEF BeginRetrieval, ShowEvidence
  <2>1. PICK pc \in {"cancelling", "embedding", "found", "failing", "answer",
                     "storing"} : Goes(q, pc)
    BY <1>8 DEF BeginRetrieval, ShowEvidence
  <2>2. ReservedIsSent(call[q], pc)
    BY <1>1, <2>0 DEF ReservedIsSent
  <2>3. RunOrder(question[q], pc)
    BY <1>1, <2>0, <2>1 DEF RunOrder, Claimed, ResultStages
  <2> QED BY <2>0, <2>1, <2>2, <2>3, RunMoves
<1>9. ASSUME NEW q \in Questions, NEW c \in Calls, GatewayStep(q, c)
      PROVE  InteractiveInv'
  <2>0. /\ run[q] \in {"embedding", "answer", "embedding sent", "answer sent"}
        /\ run[q] \in {c, Sent(c)} /\ UNCHANGED <<question, poll>>
    BY <1>9 DEF GatewayStep, ReserveCall, CallAnswered, CallRejected, CallFailed,
       CallStopped, CallBreaks, Calls, Sent
  <2>1. \A d \in Calls \ {c} : call[q][d] # "reserved"
    BY <1>1, <2>0 DEF Calls, Sent, ReservedIsSent
  <2>2. \A pc \in {"cancelling", "failing", AfterCall(c), Sent(c)} :
          RunOrder(question[q], pc)
    BY <1>1, <2>0 DEF RunOrder, Claimed, ResultStages, AfterCall, Sent
  <2>3. CASE UNCHANGED call /\ ReserveCall(q, c)
    <3>1. run[q] = c
      BY <2>3 DEF ReserveCall
    <3>2. PICK pc \in {"cancelling", "failing", AfterCall(c)} : Goes(q, pc)
      BY <1>0, <1>1, <2>3, <3>1 DEF ReserveCall, Calls
    <3>3. ReservedIsSent(call[q], pc)
      BY <1>1, <3>1 DEF ReservedIsSent, Calls
    <3> QED BY <2>0, <2>2, <2>3, <3>2, <3>3, RunMoves
  <2>4. CASE \E s \in CallStates, pc \in {"cancelling", "failing", AfterCall(c), Sent(c)} :
               /\ call' = [call EXCEPT ![q][c] = s] /\ Goes(q, pc)
               /\ s = "reserved" => pc = Sent(c)
    <3>1. PICK s \in CallStates, pc \in {"cancelling", "failing", AfterCall(c), Sent(c)} :
               /\ call' = [call EXCEPT ![q][c] = s] /\ Goes(q, pc)
               /\ s = "reserved" => pc = Sent(c)
      BY <2>4
    <3> QED BY <2>0, <2>1, <2>2, <3>1, CallMoves
  <2>5. \/ UNCHANGED call /\ ReserveCall(q, c)
        \/ \E s \in CallStates, pc \in {"cancelling", "failing", AfterCall(c), Sent(c)} :
               /\ call' = [call EXCEPT ![q][c] = s] /\ Goes(q, pc)
               /\ s = "reserved" => pc = Sent(c)
    <3>1. CASE ReserveCall(q, c)
      BY <3>1 DEF ReserveCall, CallStates
    <3>2. CASE CallAnswered(q, c) \/ CallRejected(q, c)
      BY <3>2 DEF CallAnswered, CallRejected, CallStates
    <3>3. CASE CallFailed(q, c)
      BY <3>3 DEF CallFailed, CallStates
    <3>4. CASE CallStopped(q, c)
      BY <3>4 DEF CallStopped, CallStates
    <3>5. CASE CallBreaks(q, c)
      BY <3>5 DEF CallBreaks, CallStates
    <3> QED BY <1>9, <3>1, <3>2, <3>3, <3>4, <3>5 DEF GatewayStep
  <2> QED BY <2>3, <2>4, <2>5
<1>10. ASSUME NEW q \in Questions, PollRow(q) \/ PollRecord(q)
       PROVE  InteractiveInv'
  <2>0. /\ question' = [question EXCEPT ![q] = question[q]]
        /\ run' = [run EXCEPT ![q] = run[q]]
        /\ call' = [call EXCEPT ![q] = call[q]]
    BY <1>0, <1>10 DEF PollRow, PollRecord
  <2>1. PICK p \in PollRows :
          poll' = [poll EXCEPT ![q] = p] /\ PollSound(question[q], p)
    <3>1. CASE PollRow(q)
      <4> DEFINE p == [NoPoll EXCEPT !.at = "row", !.row = question[q].row]
      <4>1. p \in PollRows /\ p.at = "row" /\ p.row = question[q].row
        BY <1>1 DEF NoPoll, PollRows, QuestionRows
      <4>2. poll' = [poll EXCEPT ![q] = p]
        BY <3>1 DEF PollRow
      <4> HIDE DEF p
      <4>3. PollSound(question[q], p)
        BY <4>1 DEF PollSound
      <4> QED BY <4>1, <4>2, <4>3
    <3>2. CASE PollRecord(q)
      <4> DEFINE p == [poll[q] EXCEPT !.at = "done", !.record = question[q].record,
                                      !.result = question[q].result]
      <4>0. poll[q].at = "row"
        BY <3>2 DEF PollRecord
      <4>1. /\ p \in PollRows /\ p.at = "done" /\ p.row = poll[q].row
            /\ p.record = question[q].record /\ p.result = question[q].result
        BY <1>1 DEF PollRows, QuestionRows
      <4>2. poll' = [poll EXCEPT ![q] = p]
        BY <1>0, <3>2 DEF PollRecord
      <4> HIDE DEF p
      <4>3. PollSound(question[q], p)
        BY <1>1, <4>0, <4>1 DEF PollSound, RunOrder
      <4> QED BY <4>1, <4>2, <4>3
    <3> QED BY <1>10, <3>1, <3>2
  <2> QED BY <1>1, <2>0, <2>1, OneQuestion
<1>11. CASE UNCHANGED interactiveVars
  BY <1>11 DEF InteractiveInv, InteractiveTypes, interactiveVars
<1> QED BY <1>2, <1>3, <1>4, <1>5, <1>6, <1>7, <1>8, <1>9, <1>10, <1>11, RestartInv
       DEF Next_Interactive

\* Questions in every order of runs, cancellations, polls and crashes.
THEOREM InteractiveInvariance == Spec_Interactive => []InteractiveInv
<1>1. Init_Interactive => InteractiveInv
  <2>1. NoQuestion \in QuestionRows /\ NoPoll \in PollRows
    BY DEF NoQuestion, NoPoll, QuestionRows, PollRows
  <2>2. /\ RunOrder(NoQuestion, "none") /\ PollSound(NoQuestion, NoPoll)
        /\ ReservedIsSent([c \in Calls |-> "none"], "none")
    BY DEF RunOrder, PollSound, ReservedIsSent, NoQuestion, NoPoll, Claimed
  <2>3. [c \in Calls |-> "none"] \in [Calls -> CallStates]
    BY DEF CallStates
  <2> QED BY <2>1, <2>2, <2>3 DEF Init_Interactive, InteractiveInv, InteractiveTypes
<1>2. InteractiveInv /\ [Next_Interactive]_interactiveVars => InteractiveInv'
  BY InteractiveStep
<1> QED BY <1>1, <1>2, PTL DEF Spec_Interactive

\* A browser that is told its question succeeded gets the result or is told it
\* expired; one told that it was cancelled gets none.
THEOREM PollsAreConsistent == Spec_Interactive => []PollIsConsistent
<1>1. InteractiveInv => PollIsConsistent
  BY DEF InteractiveInv, PollSound, PollIsConsistent
<1> QED BY <1>1, InteractiveInvariance, PTL

\* A run that is over, however it ended, leaves no attempt reserved.
THEOREM CallsEndResolved == Spec_Interactive => []CallEndsResolved
<1>1. InteractiveInv => CallEndsResolved
  BY DEF InteractiveInv, ReservedIsSent, CallEndsResolved, Sent
<1> QED BY <1>1, InteractiveInvariance, PTL

(***************************************************************************)
(* HostedLimits.  A request that was admitted may still cost its estimate  *)
(* until the provider has been called, and after that what is counted of   *)
(* what it really cost.                                                    *)
(***************************************************************************)
UsageRecords == [state : {"none", "reserved", "uncertain", "settled"}, day : Nat]
LogRecords == [day : Nat, cost : Nat]
SpendRecords == [day : Nat, cost : Nat, unreported : BOOLEAN, forgiven : BOOLEAN]
ServingStages == {"new", "rejected", "admitted", "answered", "failed", "logged",
                  "logged failure", "done"}

LimitTypes ==
  /\ day \in Nat
  /\ usage \in [AnswerRequests -> UsageRecords]
  /\ log \in [AnswerRequests -> LogRecords]
  /\ serving \in [AnswerRequests -> ServingStages]
  /\ spend \in [AnswerRequests -> SpendRecords]

HeldFor(w) == w.day > 0 /\ ~w.forgiven

\* A reservation of the day it was admitted, or an answer log with no less than
\* what is counted of its cost, not before that day.
IsReserved(w, x) == x.state \in {"reserved", "uncertain"} /\ x.day = w.day
IsLogged(w, l, d) == Counted(w) <= l.cost /\ w.day <= l.day /\ l.day <= d

\* s, w, x and l are where a request is, its spend, its reservation and its log.
RequestOK(s, w, x, l, d) ==
  /\ w.day <= d
  /\ s \in {"new", "admitted"} => w.cost = 0
  /\ s \in {"new", "rejected"} => w.day = 0
  /\ HeldFor(w) => /\ IsReserved(w, x) \/ (s = "done" /\ IsLogged(w, l, d))
                   /\ s = "logged" => IsLogged(w, l, d)

MayCost(s, w) == IF s = "admitted" THEN Estimate ELSE Counted(w)

MonthSet(sp, d) == {r \in AnswerRequests : HeldFor(sp[r]) /\ Month(sp[r].day) = Month(d)}
DaySet(sp, d, u) == {r \in AnswerRequests : HeldFor(sp[r]) /\ UserOf[r] = u /\ sp[r].day = d}
Committed(sv, sp, S) == SumFunction([r \in S |-> MayCost(sv[r], sp[r])])

Spending(sv, sp, d) ==
  /\ Committed(sv, sp, MonthSet(sp, d)) <= MonthlyBudget
  /\ \A u \in LimitedUsers : Committed(sv, sp, DaySet(sp, d, u)) <= DailyBudget

LimitInv ==
  /\ LimitTypes
  /\ \A r \in AnswerRequests : RequestOK(serving[r], spend[r], usage[r], log[r], day)
  /\ Spending(serving, spend, day)

\* What a step may do to the spend of a request without asking for budget.
Eases(s, w, t, v) ==
  HeldFor(v) => HeldFor(w) /\ v.day = w.day /\ MayCost(t, v) <= MayCost(s, w)

\* What is counted of a charge is within the estimate.
LEMMA CountedFits ==
  ASSUME NEW w \in SpendRecords
  PROVE  /\ Counted(w) \in Nat /\ Counted(w) <= Estimate /\ Counted(w) <= w.cost
         /\ \A s : MayCost(s, w) \in Nat /\ MayCost(s, w) <= Estimate
<1>1. w.cost \in Nat /\ Estimate \in Nat
  BY LimitsAssumption DEF SpendRecords
<1>2. Counted(w) \in Nat /\ Counted(w) <= Estimate /\ Counted(w) <= w.cost
  BY <1>1 DEF Counted
<1> QED BY <1>1, <1>2 DEF MayCost

\* The sets are finite, and what is added up are natural numbers.
LEMMA CommittedTypes ==
  ASSUME NEW sv \in [AnswerRequests -> ServingStages],
         NEW sp \in [AnswerRequests -> SpendRecords], NEW S \in SUBSET AnswerRequests
  PROVE  /\ IsFiniteSet(S)
         /\ [r \in S |-> MayCost(sv[r], sp[r])] \in [S -> Nat]
         /\ Committed(sv, sp, S) \in Nat
<1> DEFINE w == [r \in S |-> MayCost(sv[r], sp[r])]
<1>1. IsFiniteSet(S)
  BY LimitsAssumption, FS_Subset
<1>2. \A r \in S : MayCost(sv[r], sp[r]) \in Nat
  BY CountedFits
<1>3. w \in [S -> Nat]
  BY <1>2
<1>4. SumFunction(w) \in Nat
  <2> HIDE DEF w
  <2> QED BY <1>1, <1>3, SumType
<1> QED BY <1>1, <1>3, <1>4 DEF Committed

\* Fewer requests that may each cost no more.
LEMMA CommittedShrinks ==
  ASSUME NEW sv \in [AnswerRequests -> ServingStages],
         NEW sp \in [AnswerRequests -> SpendRecords], NEW S \in SUBSET AnswerRequests,
         NEW tv \in [AnswerRequests -> ServingStages],
         NEW tp \in [AnswerRequests -> SpendRecords], NEW T \in SUBSET S,
         \A r \in T : MayCost(tv[r], tp[r]) <= MayCost(sv[r], sp[r]),
         NEW bound \in Nat, Committed(sv, sp, S) <= bound
  PROVE  Committed(tv, tp, T) <= bound
<1> DEFINE u == [r \in T |-> MayCost(tv[r], tp[r])]
           v == [r \in S |-> MayCost(sv[r], sp[r])]
<1>1. u \in [T -> Nat] /\ Committed(tv, tp, T) \in Nat
  <2>1. T \in SUBSET AnswerRequests
    OBVIOUS
  <2> QED BY <2>1, CommittedTypes
<1>2. v \in [S -> Nat] /\ IsFiniteSet(S) /\ Committed(sv, sp, S) \in Nat
  BY CommittedTypes
<1>3. \A r \in T : u[r] <= v[r]
  OBVIOUS
<1>4. SumFunction(u) <= SumFunction(v)
  <2> HIDE DEF u, v
  <2> QED BY <1>1, <1>2, <1>3, SumMonotone
<1>5. Committed(tv, tp, T) <= Committed(sv, sp, S)
  BY <1>4 DEF Committed
<1> QED BY <1>1, <1>2, <1>5

\* Steps that only ease stay within the budgets, also over midnight.
LEMMA EasingKeepsBudgets ==
  ASSUME NEW sv \in [AnswerRequests -> ServingStages],
         NEW sp \in [AnswerRequests -> SpendRecords],
         NEW tv \in [AnswerRequests -> ServingStages],
         NEW tp \in [AnswerRequests -> SpendRecords],
         NEW d \in Nat, NEW e \in {d, d + 1},
         \A r \in AnswerRequests : Eases(sv[r], sp[r], tv[r], tp[r]) /\ sp[r].day <= d,
         Spending(sv, sp, d)
  PROVE  Spending(tv, tp, e)
<1>0. MonthlyBudget \in Nat /\ DailyBudget \in Nat /\ FirstMonth \in Nat
  BY LimitsAssumption
<1>t. \A r \in AnswerRequests : sp[r].day \in Nat
  BY DEF SpendRecords
<1>1. MonthSet(tp, e) \subseteq MonthSet(sp, d)
  <2> SUFFICES ASSUME NEW r \in AnswerRequests, HeldFor(tp[r]), Month(tp[r].day) = Month(e)
               PROVE  HeldFor(sp[r]) /\ Month(sp[r].day) = Month(d)
    BY DEF MonthSet
  <2>1. HeldFor(sp[r]) /\ tp[r].day = sp[r].day /\ sp[r].day <= d
    BY DEF Eases
  <2>2. Month(sp[r].day) = Month(e)
    BY <2>1
  <2>3. Month(sp[r].day) = Month(d)
    BY <1>0, <1>t, <2>1, <2>2 DEF Month
  <2> QED BY <2>1, <2>3
<1>2. \A u \in LimitedUsers : DaySet(tp, e, u) \subseteq DaySet(sp, d, u)
  <2> SUFFICES ASSUME NEW u \in LimitedUsers, NEW r \in AnswerRequests, HeldFor(tp[r]),
                      UserOf[r] = u, tp[r].day = e
               PROVE  HeldFor(sp[r]) /\ sp[r].day = d
    BY DEF DaySet
  <2>1. HeldFor(sp[r]) /\ tp[r].day = sp[r].day /\ sp[r].day <= d
    BY DEF Eases
  <2> QED BY <1>t, <2>1
<1>3. \A r \in AnswerRequests : HeldFor(tp[r]) => MayCost(tv[r], tp[r]) <= MayCost(sv[r], sp[r])
  BY DEF Eases
<1>4. Committed(tv, tp, MonthSet(tp, e)) <= MonthlyBudget
  <2>1. MonthSet(tp, e) \in SUBSET MonthSet(sp, d) /\ MonthSet(sp, d) \in SUBSET AnswerRequests
    BY <1>1 DEF MonthSet
  <2>2. \A r \in MonthSet(tp, e) : MayCost(tv[r], tp[r]) <= MayCost(sv[r], sp[r])
    BY <1>3 DEF MonthSet
  <2>3. Committed(sv, sp, MonthSet(sp, d)) <= MonthlyBudget
    BY DEF Spending
  <2> QED BY <1>0, <2>1, <2>2, <2>3, CommittedShrinks
<1>5. ASSUME NEW u \in LimitedUsers PROVE Committed(tv, tp, DaySet(tp, e, u)) <= DailyBudget
  <2>1. DaySet(tp, e, u) \in SUBSET DaySet(sp, d, u) /\ DaySet(sp, d, u) \in SUBSET AnswerRequests
    BY <1>2 DEF DaySet
  <2>2. \A r \in DaySet(tp, e, u) : MayCost(tv[r], tp[r]) <= MayCost(sv[r], sp[r])
    BY <1>3 DEF DaySet
  <2>3. Committed(sv, sp, DaySet(sp, d, u)) <= DailyBudget
    BY DEF Spending
  <2> QED BY <1>0, <2>1, <2>2, <2>3, CommittedShrinks
<1> QED BY <1>4, <1>5 DEF Spending

\* What the invariant says of the next state, given the next tables.
LEMMA LimitNext ==
  ASSUME LimitInv, LimitTypes', day' \in {day, day + 1},
         \A r \in AnswerRequests :
           /\ RequestOK(serving'[r], spend'[r], usage'[r], log'[r], day')
           /\ Eases(serving[r], spend[r], serving'[r], spend'[r])
  PROVE  LimitInv'
<1>1. Spending(serving', spend', day')
  <2>1. /\ serving \in [AnswerRequests -> ServingStages]
        /\ spend \in [AnswerRequests -> SpendRecords] /\ day \in Nat
        /\ serving' \in [AnswerRequests -> ServingStages]
        /\ spend' \in [AnswerRequests -> SpendRecords]
    BY DEF LimitInv, LimitTypes
  <2>2. /\ \A r \in AnswerRequests : spend[r].day <= day
        /\ Spending(serving, spend, day)
    BY DEF LimitInv, RequestOK
  <2> QED BY <2>1, <2>2, EasingKeepsBudgets
<1>2. Spending(serving, spend, day)'
  BY <1>1 DEF Spending, Committed, MonthSet, DaySet, MayCost, Counted, HeldFor, Month
<1>3. \A r \in AnswerRequests : RequestOK(serving[r], spend[r], usage[r], log[r], day)'
  BY DEF RequestOK, HeldFor, IsReserved, IsLogged, Counted
<1> QED BY <1>2, <1>3 DEF LimitInv

\* A step of one request.
LEMMA OneRequestMoves ==
  ASSUME LimitInv, NEW q \in AnswerRequests, NEW s \in ServingStages,
         NEW w \in SpendRecords, NEW x \in UsageRecords, NEW l \in LogRecords,
         serving' = [serving EXCEPT ![q] = s], spend' = [spend EXCEPT ![q] = w],
         usage' = [usage EXCEPT ![q] = x], log' = [log EXCEPT ![q] = l], day' = day,
         RequestOK(s, w, x, l, day), Eases(serving[q], spend[q], s, w)
  PROVE  LimitInv'
<1>1. LimitTypes
  BY DEF LimitInv
<1>2. LimitTypes'
  BY <1>1 DEF LimitTypes
<1>3. ASSUME NEW r \in AnswerRequests
      PROVE  /\ RequestOK(serving'[r], spend'[r], usage'[r], log'[r], day')
             /\ Eases(serving[r], spend[r], serving'[r], spend'[r])
  <2>1. CASE r = q
    <3>1. serving'[r] = s /\ spend'[r] = w /\ usage'[r] = x /\ log'[r] = l
      BY <1>1, <2>1 DEF LimitTypes
    <3> QED BY <2>1, <3>1
  <2>2. CASE r # q
    <3>1. /\ serving'[r] = serving[r] /\ spend'[r] = spend[r]
          /\ usage'[r] = usage[r] /\ log'[r] = log[r]
      BY <1>1, <2>2 DEF LimitTypes
    <3>2. MayCost(serving[r], spend[r]) \in Nat
      BY <1>1, CountedFits DEF LimitTypes
    <3>3. Eases(serving[r], spend[r], serving[r], spend[r])
      BY <3>2 DEF Eases
    <3>4. RequestOK(serving[r], spend[r], usage[r], log[r], day)
      BY DEF LimitInv
    <3> QED BY <3>1, <3>3, <3>4
  <2> QED BY <2>1, <2>2
<1>4. day' \in {day, day + 1}
  OBVIOUS
<1> QED BY <1>2, <1>3, <1>4, LimitNext

\* What is committed is counted by an admission: each request that is held has
\* its reservation outstanding, or its cost in an answer log of the same period.
LEMMA CommittedIsCounted ==
  ASSUME LimitInv, NEW S \in SUBSET AnswerRequests, NEW L \in SUBSET AnswerRequests,
         NEW O \in SUBSET AnswerRequests,
         \A r \in S : HeldFor(spend[r]),
         \A r \in S : IsReserved(spend[r], usage[r]) => r \in O,
         \A r \in S : IsLogged(spend[r], log[r], day) => r \in L
  PROVE  /\ SumFunction([r \in L |-> log[r].cost]) \in Nat
         /\ Cardinality(O) \in Nat
         /\ Committed(serving, spend, S)
              <= SumFunction([r \in L |-> log[r].cost]) + Estimate * Cardinality(O)
<1> DEFINE w == [r \in S |-> MayCost(serving[r], spend[r])]
           u == [r \in L |-> log[r].cost]
           v == [r \in O |-> Estimate]
<1>1. LimitTypes /\ Estimate \in Nat
  BY LimitsAssumption DEF LimitInv
<1>2. IsFiniteSet(S) /\ w \in [S -> Nat]
  BY <1>1, CommittedTypes DEF LimitTypes
<1>3. IsFiniteSet(L) /\ IsFiniteSet(O)
  BY LimitsAssumption, FS_Subset
<1>4. u \in [L -> Nat] /\ v \in [O -> Nat]
  BY <1>1 DEF LimitTypes, LogRecords
<1>5. ASSUME NEW r \in S
      PROVE  (r \in L /\ w[r] <= u[r]) \/ (r \in O /\ w[r] <= v[r])
  <2>1. RequestOK(serving[r], spend[r], usage[r], log[r], day) /\ HeldFor(spend[r])
    BY DEF LimitInv
  <2>2. /\ spend[r] \in SpendRecords /\ log[r].cost \in Nat
        /\ MayCost(serving[r], spend[r]) <= Estimate
    BY <1>1, CountedFits DEF LimitTypes, LogRecords
  <2>3. CASE IsReserved(spend[r], usage[r])
    BY <2>2, <2>3
  <2>4. CASE ~IsReserved(spend[r], usage[r])
    <3>1. serving[r] = "done" /\ IsLogged(spend[r], log[r], day)
      BY <2>1, <2>4 DEF RequestOK
    <3>2. MayCost(serving[r], spend[r]) <= log[r].cost
      BY <3>1 DEF MayCost, IsLogged
    <3> QED BY <3>1, <3>2
  <2> QED BY <2>3, <2>4
<1>6. SumFunction(v) = Estimate * Cardinality(O) /\ Cardinality(O) \in Nat
  BY <1>1, <1>3, SumOfConstants, FS_CardinalityType
<1>7. Committed(serving, spend, S) = SumFunction(w)
  BY DEF Committed
<1> HIDE DEF u, v, w
<1>8. SumFunction(w) <= SumFunction(u) + SumFunction(v)
  BY <1>2, <1>3, <1>4, <1>5, SumCovered
<1>9. SumFunction(u) \in Nat
  BY <1>3, <1>4, SumType
<1> QED BY <1>6, <1>7, <1>8, <1>9 DEF u

\* One request more may cost its estimate.
LEMMA CommittedGrows ==
  ASSUME LimitInv, NEW q \in AnswerRequests,
         NEW tv \in [AnswerRequests -> ServingStages],
         NEW tp \in [AnswerRequests -> SpendRecords],
         \A r \in AnswerRequests : r # q => tv[r] = serving[r] /\ tp[r] = spend[r],
         MayCost(tv[q], tp[q]) = Estimate,
         NEW S \in SUBSET AnswerRequests, NEW T \in SUBSET AnswerRequests, T \subseteq S \cup {q}
  PROVE  Committed(tv, tp, T) <= Committed(serving, spend, S) + Estimate
<1> DEFINE v == [r \in T |-> MayCost(tv[r], tp[r])]
           u == [r \in S |-> MayCost(serving[r], spend[r])]
<1>1. LimitTypes /\ Estimate \in Nat
  BY LimitsAssumption DEF LimitInv
<1>2. IsFiniteSet(T) /\ v \in [T -> Nat]
  BY CommittedTypes
<1>3. IsFiniteSet(S) /\ u \in [S -> Nat]
  BY <1>1, CommittedTypes DEF LimitTypes
<1>4. q \in T => v[q] <= Estimate
  BY <1>1
<1>5. \A r \in T \ {q} : v[r] <= u[r]
  <2> SUFFICES ASSUME NEW r \in T \ {q} PROVE v[r] <= u[r]
    OBVIOUS
  <2>1. r \in S /\ tv[r] = serving[r] /\ tp[r] = spend[r]
    OBVIOUS
  <2>2. v[r] = u[r] /\ u[r] \in Nat
    BY <1>3, <2>1
  <2> HIDE DEF u, v
  <2> QED BY <2>2
<1>6. Committed(tv, tp, T) = SumFunction(v) /\ Committed(serving, spend, S) = SumFunction(u)
  BY DEF Committed
<1> HIDE DEF u, v
<1>7. SumFunction(v) <= SumFunction(u) + Estimate
  BY <1>1, <1>2, <1>3, <1>4, <1>5, SumOneMore
<1> QED BY <1>6, <1>7

\* An admission was checked against everything it is added to.
LEMMA AdmitInv ==
  ASSUME LimitInv, NEW q \in AnswerRequests, Admit(q)
  PROVE  LimitInv'
<1>t. LimitTypes
  BY DEF LimitInv
<1>a. /\ MonthlyBudget \in Nat /\ DailyBudget \in Nat /\ FirstMonth \in Nat
      /\ Estimate \in Nat \ {0} /\ UserOf \in [AnswerRequests -> HostedUsers]
  BY LimitsAssumption
<1>q. /\ RequestOK(serving[q], spend[q], usage[q], log[q], day) /\ serving[q] = "new"
      /\ day' = day /\ log' = log
  BY DEF LimitInv, Admit
<1>z. /\ spend[q].day = 0 /\ spend[q].cost = 0 /\ spend[q] \in SpendRecords
      /\ usage[q] \in UsageRecords /\ log[q] \in LogRecords
      /\ log' = [log EXCEPT ![q] = log[q]]
  BY <1>q, <1>t DEF RequestOK, LimitTypes
<1>1. CASE Admissible(UserOf[q])
  <2> DEFINE w == [spend[q] EXCEPT !.day = day]
             x == [state |-> "reserved", day |-> day]
  <2>1. /\ serving' = [serving EXCEPT ![q] = "admitted"]
        /\ spend' = [spend EXCEPT ![q] = w]
        /\ usage' = [usage EXCEPT ![q] = x]
    BY <1>1, <1>t DEF Admit
  <2>2. w \in SpendRecords /\ w.day = day /\ w.cost = 0 /\ x \in UsageRecords
    BY <1>z, <1>t DEF SpendRecords, UsageRecords, LimitTypes
  <2>3. RequestOK("admitted", w, x, log[q], day)
    BY <1>a, <1>t, <2>2 DEF RequestOK, IsReserved, LimitTypes
  <2> HIDE DEF w, x
  <2>4. LimitTypes'
    BY <1>t, <1>q, <1>z, <2>1, <2>2 DEF LimitTypes, ServingStages
  <2>5. ASSUME NEW r \in AnswerRequests
        PROVE  RequestOK(serving'[r], spend'[r], usage'[r], log'[r], day')
    <3>1. CASE r = q
      <4>1. serving'[r] = "admitted" /\ spend'[r] = w /\ usage'[r] = x /\ log'[r] = log[q]
        BY <1>t, <1>q, <2>1, <3>1 DEF LimitTypes
      <4> QED BY <1>q, <2>3, <4>1
    <3>2. CASE r # q
      <4>1. /\ serving'[r] = serving[r] /\ spend'[r] = spend[r]
            /\ usage'[r] = usage[r] /\ log'[r] = log[r]
        BY <1>t, <1>q, <2>1, <3>2 DEF LimitTypes
      <4>2. RequestOK(serving[r], spend[r], usage[r], log[r], day)
        BY DEF LimitInv
      <4> QED BY <1>q, <4>1, <4>2
    <3> QED BY <3>1, <3>2
  <2>6. /\ serving' \in [AnswerRequests -> ServingStages]
        /\ spend' \in [AnswerRequests -> SpendRecords]
        /\ \A r \in AnswerRequests :
             r # q => serving'[r] = serving[r] /\ spend'[r] = spend[r]
        /\ MayCost(serving'[q], spend'[q]) = Estimate
    BY <1>t, <2>1, <2>4 DEF LimitTypes, MayCost
  <2>7. ~HeldFor(spend[q]) /\ day \in Nat
    BY <1>z, <1>t DEF HeldFor, LimitTypes
  <2>8. Committed(serving', spend', MonthSet(spend', day)) <= MonthlyBudget
    <3> DEFINE S == MonthSet(spend, day)
               T == MonthSet(spend', day)
               L == {r \in AnswerRequests : log[r].day > 0 /\ Month(log[r].day) = Month(day)}
               O == {r \in Outstanding : Month(usage[r].day) = Month(day)}
    <3>1. /\ S \in SUBSET AnswerRequests /\ T \in SUBSET AnswerRequests
          /\ L \in SUBSET AnswerRequests /\ O \in SUBSET AnswerRequests
      BY DEF MonthSet, Outstanding
    <3>2. T \subseteq S \cup {q}
      BY <2>6 DEF MonthSet
    <3>3. \A r \in S : HeldFor(spend[r])
      BY DEF MonthSet
    <3>4. \A r \in S : IsReserved(spend[r], usage[r]) => r \in O
      BY DEF MonthSet, IsReserved, Outstanding
    <3>5. \A r \in S : IsLogged(spend[r], log[r], day) => r \in L
      <4> SUFFICES ASSUME NEW r \in S, IsLogged(spend[r], log[r], day) PROVE r \in L
        OBVIOUS
      <4>1. /\ r \in AnswerRequests /\ spend[r].day > 0 /\ Month(spend[r].day) = Month(day)
            /\ spend[r].day <= log[r].day /\ log[r].day <= day
        BY DEF MonthSet, HeldFor, IsLogged
      <4>2. spend[r].day \in Nat /\ log[r].day \in Nat
        BY <1>t, <4>1 DEF LimitTypes, SpendRecords, LogRecords
      <4>3. Month(log[r].day) = Month(day)
        BY <1>a, <2>7, <4>1, <4>2 DEF Month
      <4>4. log[r].day > 0
        BY <4>1, <4>2
      <4> QED BY <4>1, <4>3, <4>4
    <3>6. UsedThisMonth = SumFunction([r \in L |-> log[r].cost]) + Estimate * Cardinality(O)
      BY DEF UsedThisMonth
    <3>7. UsedThisMonth + Estimate <= MonthlyBudget
      BY <1>1 DEF Admissible
    <3> HIDE DEF S, T, L, O
    <3>8. /\ SumFunction([r \in L |-> log[r].cost]) \in Nat /\ Cardinality(O) \in Nat
          /\ Committed(serving, spend, S) <= UsedThisMonth
      BY <3>1, <3>3, <3>4, <3>5, <3>6, CommittedIsCounted
    <3>9. UsedThisMonth \in Nat
      BY <1>a, <3>6, <3>8
    <3>10. Committed(serving', spend', T) <= Committed(serving, spend, S) + Estimate
      BY <2>6, <3>1, <3>2, CommittedGrows
    <3>11. Committed(serving', spend', T) \in Nat /\ Committed(serving, spend, S) \in Nat
      BY <1>t, <2>6, <3>1, CommittedTypes DEF LimitTypes
    <3>12. Committed(serving', spend', T) <= MonthlyBudget
      BY <1>a, <3>7, <3>8, <3>9, <3>10, <3>11
    <3> QED BY <3>12 DEF T
  <2>9. ASSUME NEW u \in LimitedUsers
        PROVE  Committed(serving', spend', DaySet(spend', day, u)) <= DailyBudget
    <3> DEFINE S == DaySet(spend, day, u)
               T == DaySet(spend', day, u)
    <3>1. S \in SUBSET AnswerRequests /\ T \in SUBSET AnswerRequests
      BY DEF DaySet
    <3>2. CASE u = UserOf[q]
      <4> DEFINE L == {r \in AnswerRequests : UserOf[r] = u /\ log[r].day = day}
                 O == {r \in Outstanding : UserOf[r] = u /\ usage[r].day = day}
      <4>1. L \in SUBSET AnswerRequests /\ O \in SUBSET AnswerRequests
        BY DEF Outstanding
      <4>2. T \subseteq S \cup {q}
        BY <2>6 DEF DaySet
      <4>3. \A r \in S : HeldFor(spend[r])
        BY DEF DaySet
      <4>4. \A r \in S : IsReserved(spend[r], usage[r]) => r \in O
        BY DEF DaySet, IsReserved, Outstanding
      <4>5. \A r \in S : IsLogged(spend[r], log[r], day) => r \in L
        <5> SUFFICES ASSUME NEW r \in S, IsLogged(spend[r], log[r], day) PROVE r \in L
          OBVIOUS
        <5>1. /\ r \in AnswerRequests /\ spend[r].day = day /\ UserOf[r] = u
              /\ spend[r].day <= log[r].day /\ log[r].day <= day
          BY DEF DaySet, IsLogged
        <5>2. log[r].day \in Nat
          BY <1>t, <5>1 DEF LimitTypes, LogRecords
        <5>3. log[r].day = day
          BY <2>7, <5>1, <5>2
        <5> QED BY <5>1, <5>3
      <4>6. UsedToday(u) = SumFunction([r \in L |-> log[r].cost]) + Estimate * Cardinality(O)
        BY DEF UsedToday
      <4>7. UsedToday(u) + Estimate <= DailyBudget
        BY <1>1, <3>2 DEF Admissible
      <4> HIDE DEF S, T, L, O
      <4>8. /\ SumFunction([r \in L |-> log[r].cost]) \in Nat /\ Cardinality(O) \in Nat
            /\ Committed(serving, spend, S) <= UsedToday(u)
        BY <3>1, <4>1, <4>3, <4>4, <4>5, <4>6, CommittedIsCounted
      <4>9. UsedToday(u) \in Nat
        BY <1>a, <4>6, <4>8
      <4>10. Committed(serving', spend', T) <= Committed(serving, spend, S) + Estimate
        BY <2>6, <3>1, <4>2, CommittedGrows
      <4>11. Committed(serving', spend', T) \in Nat /\ Committed(serving, spend, S) \in Nat
        BY <1>t, <2>6, <3>1, CommittedTypes DEF LimitTypes
      <4>12. Committed(serving', spend', T) <= DailyBudget
        BY <1>a, <4>7, <4>8, <4>9, <4>10, <4>11
      <4> QED BY <4>12 DEF T
    <3>3. CASE u # UserOf[q]
      <4>1. T \in SUBSET S /\ q \notin T
        BY <2>6, <3>3 DEF DaySet
      <4>2. Committed(serving, spend, S) <= DailyBudget
        BY DEF LimitInv, Spending
      <4> HIDE DEF S, T
      <4>3. \A r \in T : MayCost(serving'[r], spend'[r]) <= MayCost(serving[r], spend[r])
        <5>1. \A r \in T : /\ r \in AnswerRequests /\ serving'[r] = serving[r]
                           /\ spend'[r] = spend[r]
          BY <2>6, <3>1, <4>1
        <5>2. \A r \in AnswerRequests : MayCost(serving[r], spend[r]) \in Nat
          BY <1>t, CountedFits DEF LimitTypes
        <5> QED BY <5>1, <5>2
      <4>4. Committed(serving', spend', T) <= DailyBudget
        BY <1>a, <1>t, <2>6, <3>1, <4>1, <4>2, <4>3, CommittedShrinks DEF LimitTypes
      <4> QED BY <4>4 DEF T
    <3> QED BY <3>2, <3>3
  <2>10. Spending(serving, spend, day)'
    <3>1. Spending(serving', spend', day')
      BY <1>q, <2>8, <2>9 DEF Spending
    <3> QED BY <3>1 DEF Spending, Committed, MonthSet, DaySet, MayCost, Counted, HeldFor,
            Month
  <2>11. \A r \in AnswerRequests : RequestOK(serving[r], spend[r], usage[r], log[r], day)'
    BY <2>5 DEF RequestOK, HeldFor, IsReserved, IsLogged, Counted
  <2> QED BY <2>4, <2>10, <2>11 DEF LimitInv
<1>2. CASE ~Admissible(UserOf[q])
  <2>1. /\ serving' = [serving EXCEPT ![q] = "rejected"]
        /\ spend' = [spend EXCEPT ![q] = spend[q]]
        /\ usage' = [usage EXCEPT ![q] = usage[q]]
    BY <1>2, <1>t DEF Admit, LimitTypes
  <2>2. RequestOK("rejected", spend[q], usage[q], log[q], day)
    BY <1>q, <1>z DEF RequestOK, HeldFor
  <2>3. Eases(serving[q], spend[q], "rejected", spend[q]) /\ "rejected" \in ServingStages
    BY <1>z DEF Eases, HeldFor, ServingStages
  <2> QED BY <1>q, <1>z, <2>1, <2>2, <2>3, OneRequestMoves
<1> QED BY <1>1, <1>2

\* The steps of a request that was admitted.
LEMMA RequestStepInv ==
  ASSUME LimitInv, NEW q \in AnswerRequests,
         \/ \E cost \in ProviderCosts : CallHostedProvider(q, cost)
         \/ LogAnswer(q) \/ FinishUsage(q) \/ AbandonRequest(q) \/ PruneEvent(q)
  PROVE  LimitInv'
<1> DEFINE w == spend[q]
           x == usage[q]
           l == log[q]
           s == serving[q]
<1>t. LimitTypes /\ Estimate \in Nat
  BY LimitsAssumption DEF LimitInv
<1>0. /\ RequestOK(s, w, x, l, day) /\ day \in Nat
      /\ w \in SpendRecords /\ x \in UsageRecords /\ l \in LogRecords /\ s \in ServingStages
  BY <1>t DEF LimitInv, LimitTypes
<1>1. /\ w.day \in Nat /\ w.cost \in Nat /\ x.day \in Nat /\ l.day \in Nat /\ l.cost \in Nat
      /\ x.state \in {"none", "reserved", "uncertain", "settled"}
  BY <1>0 DEF SpendRecords, UsageRecords, LogRecords
<1>u. /\ spend = [spend EXCEPT ![q] = w] /\ usage = [usage EXCEPT ![q] = x]
      /\ log = [log EXCEPT ![q] = l] /\ serving = [serving EXCEPT ![q] = s]
  BY <1>t DEF LimitTypes
<1> HIDE DEF w, x, l, s
<1>e. ASSUME NEW t, MayCost(t, w) <= MayCost(s, w)
      PROVE  Eases(s, w, t, w)
  BY <1>e DEF Eases
<1>2. ASSUME NEW cost \in ProviderCosts, CallHostedProvider(q, cost) PROVE LimitInv'
  <2>1. s = "admitted" /\ cost \in Nat
    BY <1>t, <1>2, LimitsAssumption DEF CallHostedProvider, s
  <2>2. /\ usage' = [usage EXCEPT ![q] = x] /\ log' = [log EXCEPT ![q] = l] /\ day' = day
    BY <1>2, <1>u DEF CallHostedProvider
  <2>3. \E t \in {"answered", "failed"}, b \in BOOLEAN :
          /\ serving' = [serving EXCEPT ![q] = t]
          /\ spend' = [spend EXCEPT ![q] = [w EXCEPT !.cost = cost, !.unreported = b]]
    <3>1. CASE serving' = [serving EXCEPT ![q] = "answered"]
               /\ \E said \in {0, cost} :
                    spend' = [spend EXCEPT ![q].cost = cost, ![q].unreported = said # cost]
      BY <1>t, <3>1 DEF LimitTypes, w
    <3>2. CASE serving' = [serving EXCEPT ![q] = "failed"]
               /\ spend' = [spend EXCEPT ![q].cost = cost]
      <4>1. [w EXCEPT !.cost = cost] = [w EXCEPT !.cost = cost, !.unreported = w.unreported]
            /\ w.unreported \in BOOLEAN
        BY <1>0 DEF SpendRecords
      <4> QED BY <1>t, <3>2, <4>1 DEF LimitTypes, w
    <3> QED BY <1>2, <3>1, <3>2 DEF CallHostedProvider
  <2>4. PICK t \in {"answered", "failed"}, b \in BOOLEAN :
          /\ serving' = [serving EXCEPT ![q] = t]
          /\ spend' = [spend EXCEPT ![q] = [w EXCEPT !.cost = cost, !.unreported = b]]
    BY <2>3
  <2> DEFINE v == [w EXCEPT !.cost = cost, !.unreported = b]
  <2>5. v \in SpendRecords /\ v.day = w.day /\ v.forgiven = w.forgiven
    BY <1>0, <2>1 DEF SpendRecords
  <2>6. spend' = [spend EXCEPT ![q] = v]
    BY <2>4
  <2> HIDE DEF v
  <2>7. RequestOK(t, v, x, l, day)
    BY <1>0, <2>1, <2>5 DEF RequestOK, HeldFor, IsReserved
  <2>8. Eases(s, w, t, v)
    <3>1. MayCost(t, v) <= MayCost(s, w)
      BY <2>1, <2>5, CountedFits DEF MayCost
    <3> QED BY <2>5, <3>1 DEF Eases, HeldFor
  <2>9. t \in ServingStages
    BY DEF ServingStages
  <2> QED BY <1>0, <2>2, <2>4, <2>5, <2>6, <2>7, <2>8, <2>9, OneRequestMoves DEF s, w
<1>3. ASSUME LogAnswer(q) PROVE LimitInv'
  <2> DEFINE t == IF s = "answered" THEN "logged" ELSE "logged failure"
             m == [day |-> day, cost |-> IF s = "answered" /\ ~w.unreported
                                         THEN w.cost ELSE 0]
  <2>1. s \in {"answered", "failed"}
    BY <1>3 DEF LogAnswer, s
  <2>2. /\ serving' = [serving EXCEPT ![q] = t] /\ log' = [log EXCEPT ![q] = m]
        /\ spend' = [spend EXCEPT ![q] = w] /\ usage' = [usage EXCEPT ![q] = x] /\ day' = day
    BY <1>3, <1>u, <1>t DEF LogAnswer, LimitTypes, s, w
  <2>3. /\ m \in LogRecords /\ m.day = day /\ (s = "answered" => Counted(w) <= m.cost)
        /\ t \in {"logged", "logged failure"} /\ (t = "logged" => s = "answered")
    <3>1. w.unreported => Counted(w) = 0
      BY DEF Counted
    <3>2. Counted(w) \in Nat /\ Counted(w) <= w.cost
      BY <1>0, CountedFits
    <3> QED BY <1>0, <1>1, <3>1, <3>2 DEF LogRecords
  <2> HIDE DEF t, m
  <2>4. RequestOK(t, w, x, m, day)
    <3>1. HeldFor(w) => IsReserved(w, x)
      BY <1>0, <2>1 DEF RequestOK
    <3>2. t = "logged" => IsLogged(w, m, day)
      BY <1>0, <1>1, <2>3 DEF RequestOK, IsLogged
    <3> QED BY <1>0, <2>3, <3>1, <3>2 DEF RequestOK
  <2>5. Eases(s, w, t, w) /\ t \in ServingStages
    <3>1. MayCost(t, w) <= MayCost(s, w)
      <4>1. s # "admitted" /\ t # "admitted"
        BY <2>1, <2>3
      <4>2. MayCost(t, w) = Counted(w) /\ MayCost(s, w) = Counted(w)
        BY <4>1 DEF MayCost
      <4> QED BY <1>0, <4>2, CountedFits
    <3> QED BY <1>e, <2>3, <3>1 DEF ServingStages
  <2> QED BY <1>0, <2>2, <2>3, <2>4, <2>5, OneRequestMoves DEF s, w
<1>4. ASSUME FinishUsage(q) PROVE LimitInv'
  <2> DEFINE st == IF x.state = "none" THEN x.state
                   ELSE IF s = "logged" THEN "settled" ELSE "uncertain"
             y == [x EXCEPT !.state = st]
  <2>1. s \in {"logged", "logged failure"}
    BY <1>4 DEF FinishUsage, s
  <2>2. /\ serving' = [serving EXCEPT ![q] = "done"] /\ log' = [log EXCEPT ![q] = l]
        /\ spend' = [spend EXCEPT ![q] = w] /\ usage' = [usage EXCEPT ![q] = y] /\ day' = day
    BY <1>4, <1>u, <1>t DEF FinishUsage, LimitTypes, s, x
  <2>3. y \in UsageRecords /\ y.day = x.day /\ y.state = st
    BY <1>0, <1>1 DEF UsageRecords
  <2> HIDE DEF y
  <2>4. HeldFor(w) => IsReserved(w, x)
    BY <1>0, <2>1 DEF RequestOK
  <2>5. HeldFor(w) => IsReserved(w, y) \/ IsLogged(w, l, day)
    BY <1>0, <2>1, <2>3, <2>4 DEF RequestOK, IsReserved
  <2>6. RequestOK("done", w, y, l, day)
    BY <1>0, <2>5 DEF RequestOK
  <2>7. Eases(s, w, "done", w) /\ "done" \in ServingStages
    <3>1. MayCost("done", w) <= MayCost(s, w)
      <4>1. s # "admitted"
        BY <2>1
      <4>2. MayCost("done", w) = Counted(w) /\ MayCost(s, w) = Counted(w)
        BY <4>1 DEF MayCost
      <4> QED BY <1>0, <4>2, CountedFits
    <3> QED BY <1>e, <3>1 DEF ServingStages
  <2> QED BY <1>0, <2>2, <2>3, <2>6, <2>7, OneRequestMoves DEF s, w
<1>5. ASSUME AbandonRequest(q) PROVE LimitInv'
  <2> DEFINE y == [x EXCEPT !.state = IF x.state = "none" THEN x.state ELSE "uncertain"]
  <2>1. s \in {"admitted", "answered", "failed", "logged", "logged failure"}
    BY <1>5 DEF AbandonRequest, s
  <2>2. /\ serving' = [serving EXCEPT ![q] = "done"] /\ log' = [log EXCEPT ![q] = l]
        /\ spend' = [spend EXCEPT ![q] = w] /\ day' = day
    BY <1>5, <1>u DEF AbandonRequest
  <2>3. usage' = [usage EXCEPT ![q] = x] \/ usage' = [usage EXCEPT ![q] = y]
    BY <1>5, <1>u, <1>t DEF AbandonRequest, LimitTypes, x
  <2>4. /\ y \in UsageRecords /\ y.day = x.day
        /\ y.state = IF x.state = "none" THEN x.state ELSE "uncertain"
    BY <1>0, <1>1 DEF UsageRecords
  <2> HIDE DEF y
  <2>5. HeldFor(w) => IsReserved(w, x) /\ IsReserved(w, y)
    BY <1>0, <2>1, <2>4 DEF RequestOK, IsReserved
  <2>6. RequestOK("done", w, x, l, day) /\ RequestOK("done", w, y, l, day)
    BY <1>0, <2>5 DEF RequestOK
  <2>7. Eases(s, w, "done", w) /\ "done" \in ServingStages
    <3>1. MayCost("done", w) <= MayCost(s, w)
      BY <1>0, <1>t, CountedFits DEF MayCost
    <3> QED BY <1>e, <3>1 DEF ServingStages
  <2>8. CASE usage' = [usage EXCEPT ![q] = x]
    BY <1>0, <2>2, <2>6, <2>7, <2>8, OneRequestMoves DEF s, w
  <2>9. CASE usage' = [usage EXCEPT ![q] = y]
    BY <1>0, <2>2, <2>4, <2>6, <2>7, <2>9, OneRequestMoves DEF s, w
  <2> QED BY <2>3, <2>8, <2>9
<1>6. ASSUME PruneEvent(q) PROVE LimitInv'
  <2>1. x.state = "settled"
    BY <1>6 DEF PruneEvent, x
  <2>2. /\ serving' = [serving EXCEPT ![q] = s] /\ log' = [log EXCEPT ![q] = l]
        /\ spend' = [spend EXCEPT ![q] = w] /\ usage' = [usage EXCEPT ![q] = NoUsage]
        /\ day' = day
    BY <1>6, <1>u DEF PruneEvent
  <2>3. NoUsage \in UsageRecords
    BY DEF NoUsage, UsageRecords
  <2>4. RequestOK(s, w, NoUsage, l, day)
    BY <1>0, <2>1 DEF RequestOK, IsReserved
  <2>5. Eases(s, w, s, w)
    BY <1>0, <1>e, CountedFits
  <2> QED BY <1>0, <2>2, <2>3, <2>4, <2>5, OneRequestMoves DEF s, w
<1> QED BY <1>2, <1>3, <1>4, <1>5, <1>6

\* A reset forgives whatever it takes the record of.
LEMMA ResetInv ==
  ASSUME LimitInv, NEW u \in HostedUsers, ResetUser(u)
  PROVE  LimitInv'
<1>t. LimitTypes /\ day' = day /\ serving' = serving /\ Estimate \in Nat
  BY LimitsAssumption DEF LimitInv, ResetUser
<1>1. ASSUME NEW r \in AnswerRequests
      PROVE  /\ usage'[r] \in UsageRecords /\ log'[r] \in LogRecords
             /\ spend'[r] \in SpendRecords
             /\ RequestOK(serving'[r], spend'[r], usage'[r], log'[r], day')
             /\ Eases(serving[r], spend[r], serving'[r], spend'[r])
  <2>0. /\ RequestOK(serving[r], spend[r], usage[r], log[r], day)
        /\ spend[r] \in SpendRecords /\ usage[r] \in UsageRecords /\ log[r] \in LogRecords
    BY <1>t DEF LimitInv, LimitTypes
  <2>m. MayCost(serving[r], spend[r]) \in Nat
    BY <2>0, CountedFits
  <2>1. CASE UserOf[r] # u
    <3>1. usage'[r] = usage[r] /\ log'[r] = log[r] /\ spend'[r] = spend[r]
      BY <2>1 DEF ResetUser
    <3>2. Eases(serving[r], spend[r], serving[r], spend[r])
      BY <2>m DEF Eases
    <3> QED BY <1>t, <2>0, <3>1, <3>2
  <2>2. CASE UserOf[r] = u
    <3>1. /\ usage'[r] = NoUsage /\ (log'[r] = NoLog \/ log'[r] = log[r])
          /\ spend'[r] = IF spend[r].day > 0 THEN [spend[r] EXCEPT !.forgiven = TRUE]
                         ELSE spend[r]
      BY <2>2 DEF ResetUser
    <3>2. usage'[r] \in UsageRecords /\ log'[r] \in LogRecords
      BY <2>0, <3>1 DEF NoUsage, NoLog, UsageRecords, LogRecords
    <3>3. /\ spend'[r] \in SpendRecords /\ spend'[r].day = spend[r].day
          /\ spend'[r].cost = spend[r].cost /\ ~HeldFor(spend'[r])
      BY <2>0, <3>1 DEF SpendRecords, HeldFor
    <3>4. RequestOK(serving'[r], spend'[r], usage'[r], log'[r], day')
      BY <1>t, <2>0, <3>3 DEF RequestOK
    <3>5. Eases(serving[r], spend[r], serving'[r], spend'[r])
      BY <3>3 DEF Eases
    <3> QED BY <3>2, <3>3, <3>4, <3>5
  <2> QED BY <2>1, <2>2
<1>2. LimitTypes'
  <2>1. /\ usage' = [r \in AnswerRequests |-> usage'[r]]
        /\ log' = [r \in AnswerRequests |-> log'[r]]
        /\ spend' = [r \in AnswerRequests |-> spend'[r]]
    BY DEF ResetUser
  <2> QED BY <1>t, <1>1, <2>1 DEF LimitTypes
<1> QED BY <1>t, <1>1, <1>2, LimitNext

\* A day that passes, and what changes neither a request nor the date.
LEMMA ClockInv ==
  ASSUME LimitInv, UNCHANGED <<usage, log, serving, spend>>, day' \in {day, day + 1}
  PROVE  LimitInv'
<1>1. LimitTypes /\ Estimate \in Nat
  BY LimitsAssumption DEF LimitInv
<1>2. LimitTypes'
  BY <1>1 DEF LimitTypes
<1>3. ASSUME NEW r \in AnswerRequests
      PROVE  /\ RequestOK(serving'[r], spend'[r], usage'[r], log'[r], day')
             /\ Eases(serving[r], spend[r], serving'[r], spend'[r])
  <2>1. /\ RequestOK(serving[r], spend[r], usage[r], log[r], day) /\ day \in Nat
        /\ spend[r].day \in Nat /\ log[r].day \in Nat /\ spend[r] \in SpendRecords
    BY <1>1 DEF LimitInv, LimitTypes, SpendRecords, LogRecords
  <2>2. IsLogged(spend[r], log[r], day) => IsLogged(spend[r], log[r], day')
    BY <2>1 DEF IsLogged
  <2>3. RequestOK(serving[r], spend[r], usage[r], log[r], day')
    BY <2>1, <2>2 DEF RequestOK
  <2>4. Eases(serving[r], spend[r], serving[r], spend[r])
    BY <2>1, CountedFits DEF Eases
  <2> QED BY <2>3, <2>4
<1> QED BY <1>2, <1>3, LimitNext

\* Admissions, crashes, late logs, resets and midnights in any order.
THEOREM LimitInvariance == Spec_Limits => []LimitInv
<1>1. Init_Limits => LimitInv
  <2> SUFFICES ASSUME Init_Limits PROVE LimitInv
    OBVIOUS
  <2>0. MonthlyBudget \in Nat /\ DailyBudget \in Nat /\ Estimate \in Nat
    BY LimitsAssumption
  <2>1. LimitTypes
    BY DEF Init_Limits, LimitTypes, NoUsage, NoLog, NoSpend, UsageRecords, LogRecords, SpendRecords,
           ServingStages
  <2>2. \A r \in AnswerRequests : /\ spend[r].day = 0 /\ spend[r].cost = 0 /\ day = 1
                                  /\ serving[r] = "new"
    BY DEF Init_Limits, NoSpend
  <2>3. \A r \in AnswerRequests : ~HeldFor(spend[r])
    BY <2>2 DEF HeldFor
  <2>4. \A r \in AnswerRequests : RequestOK(serving[r], spend[r], usage[r], log[r], day)
    BY <2>0, <2>2, <2>3 DEF RequestOK
  <2>5. MonthSet(spend, day) = {} /\ \A u \in LimitedUsers : DaySet(spend, day, u) = {}
    BY <2>3 DEF MonthSet, DaySet
  <2>6. Committed(serving, spend, {}) = 0
    <3> DEFINE w == [r \in {} |-> MayCost(serving[r], spend[r])]
    <3>1. w \in [{} -> Nat] /\ DOMAIN w = {} /\ IsFiniteSet({})
      BY FS_EmptySet
    <3>2. SumFunction(w) = 0
      <4> HIDE DEF w
      <4>1. SumFunctionOnSet(w, {}) = 0
        BY <3>1, SumSplit
      <4> QED BY <3>1, <4>1 DEF SumFunction
    <3> QED BY <3>2 DEF Committed
  <2>7. Spending(serving, spend, day)
    BY <2>0, <2>5, <2>6 DEF Spending
  <2> QED BY <2>1, <2>4, <2>7 DEF LimitInv
<1>2. LimitInv /\ [Next_Limits]_limitVars => LimitInv'
  <2> SUFFICES ASSUME LimitInv, [Next_Limits]_limitVars PROVE LimitInv'
    OBVIOUS
  <2>1. ASSUME NEW r \in AnswerRequests,
               \/ Admit(r) \/ LogAnswer(r) \/ FinishUsage(r) \/ AbandonRequest(r)
               \/ PruneEvent(r)
               \/ \E cost \in ProviderCosts : CallHostedProvider(r, cost)
        PROVE  LimitInv'
    BY <2>1, AdmitInv, RequestStepInv
  <2>2. ASSUME NEW u \in LimitedUsers, WindowSlides(u) PROVE LimitInv'
    BY <2>2, ClockInv DEF WindowSlides
  <2>3. ASSUME NEW u \in HostedUsers, ResetUser(u) PROVE LimitInv'
    BY <2>3, ResetInv
  <2>4. ASSUME DayPasses PROVE LimitInv'
    BY <2>4, ClockInv DEF DayPasses
  <2>5. ASSUME UNCHANGED limitVars PROVE LimitInv'
    BY <2>5, ClockInv DEF limitVars
  <2> QED BY <2>1, <2>2, <2>3, <2>4, <2>5 DEF Next_Limits
<1> QED BY <1>1, <1>2, PTL DEF Spec_Limits

\* What the provider charges and reports for requests admitted this month, and
\* for those a user had admitted today, each up to its estimate, stays in the
\* budgets, whatever they cost above it and however requests overlap, die, are
\* logged after midnight or lose their reservation, unless they were reset.
THEOREM SpendStaysInBudgets == Spec_Limits => []SpendWithinBudgets
<1>1. LimitInv => SpendWithinBudgets
  <2> SUFFICES ASSUME LimitInv PROVE SpendWithinBudgets
    OBVIOUS
  <2>0. /\ LimitTypes /\ MonthlyBudget \in Nat /\ DailyBudget \in Nat /\ Estimate \in Nat
        /\ \A r \in AnswerRequests : spend[r] \in SpendRecords
    BY LimitsAssumption DEF LimitInv, LimitTypes
  <2>1. ASSUME NEW S \in SUBSET AnswerRequests, NEW bound \in Nat,
               Committed(serving, spend, S) <= bound
        PROVE  Charged(S) <= bound
    <3> DEFINE u == [r \in S |-> Counted(spend[r])]
               v == [r \in S |-> MayCost(serving[r], spend[r])]
    <3>1. IsFiniteSet(S) /\ v \in [S -> Nat] /\ Committed(serving, spend, S) \in Nat
      BY <2>0, CommittedTypes DEF LimitTypes
    <3>2. u \in [S -> Nat]
      BY <2>0, CountedFits
    <3>3. \A r \in S : u[r] <= v[r]
      <4> SUFFICES ASSUME NEW r \in S
                   PROVE  Counted(spend[r]) <= MayCost(serving[r], spend[r])
        OBVIOUS
      <4>1. Counted(spend[r]) <= Estimate /\ Counted(spend[r]) \in Nat
        BY <2>0, CountedFits
      <4> QED BY <4>1 DEF MayCost
    <3>4. Charged(S) = SumFunction(u) /\ Committed(serving, spend, S) = SumFunction(v)
      BY DEF Charged, Committed
    <3> HIDE DEF u, v
    <3>5. SumFunction(u) <= SumFunction(v) /\ SumFunction(u) \in Nat
      BY <3>1, <3>2, <3>3, SumMonotone, SumType
    <3> QED BY <2>1, <3>1, <3>4, <3>5
  <2> DEFINE held == {r \in AnswerRequests : spend[r].day > 0 /\ ~spend[r].forgiven}
  <2>2. /\ {r \in held : Month(spend[r].day) = Month(day)} = MonthSet(spend, day)
        /\ \A u \in LimitedUsers :
             {r \in held : UserOf[r] = u /\ spend[r].day = day} = DaySet(spend, day, u)
    BY DEF MonthSet, DaySet, HeldFor
  <2>3. /\ Committed(serving, spend, MonthSet(spend, day)) <= MonthlyBudget
        /\ \A u \in LimitedUsers : Committed(serving, spend, DaySet(spend, day, u)) <= DailyBudget
    BY DEF LimitInv, Spending
  <2>4. MonthSet(spend, day) \in SUBSET AnswerRequests
        /\ \A u \in LimitedUsers : DaySet(spend, day, u) \in SUBSET AnswerRequests
    BY DEF MonthSet, DaySet
  <2>5. Charged(MonthSet(spend, day)) <= MonthlyBudget
    BY <2>0, <2>1, <2>3, <2>4
  <2>6. \A u \in LimitedUsers : Charged(DaySet(spend, day, u)) <= DailyBudget
    BY <2>0, <2>1, <2>3, <2>4
  <2>7. /\ Charged({r \in held : Month(spend[r].day) = Month(day)}) <= MonthlyBudget
        /\ \A u \in LimitedUsers :
             Charged({r \in held : UserOf[r] = u /\ spend[r].day = day}) <= DailyBudget
    <3> HIDE DEF held
    <3> QED BY <2>2, <2>5, <2>6
  <2> QED BY <2>7 DEF SpendWithinBudgets
<1> QED BY <1>1, LimitInvariance, PTL

(***************************************************************************)
(* PropertyPages.  An export is built page by page, from live, cached and   *)
(* stale pages, while the publisher changes rows.  What makes it exact is   *)
(* that a page, whatever became of the dataset since, still covers the rows *)
(* that were left alone: it lists those between its cursor and its end.     *)
(***************************************************************************)
\* The elements of S that R puts before x.
Before(S, R, x) == {y \in S : <<y, x>> \in R}

\* R is a strict total order of S.
TotalOrder(S, R) ==
  /\ \A x \in S : <<x, x>> \notin R
  /\ \A x, y \in S : x = y \/ <<x, y>> \in R \/ <<y, x>> \in R
  /\ \A x, y, z \in S : <<x, y>> \in R /\ <<y, z>> \in R => <<x, z>> \in R

\* In a total order of a finite set the number of elements before an element
\* grows with the order and takes every value below the size of the set.
LEMMA Ranks ==
  ASSUME NEW S, IsFiniteSet(S), NEW R, TotalOrder(S, R)
  PROVE  /\ Cardinality(S) \in Nat
         /\ \A x, y \in S : <<x, y>> \in R =>
              Cardinality(Before(S, R, x)) < Cardinality(Before(S, R, y))
         /\ \A i \in 1..Cardinality(S) :
              \E x \in S : Cardinality(Before(S, R, x)) = i - 1
<1> DEFINE rank(x) == Cardinality(Before(S, R, x))
<1>1. Cardinality(S) \in Nat
  BY FS_CardinalityType
<1>2. ASSUME NEW x \in S
      PROVE  IsFiniteSet(Before(S, R, x)) /\ rank(x) \in Nat /\ rank(x) < Cardinality(S)
  <2>1. Before(S, R, x) \in SUBSET S /\ x \notin Before(S, R, x)
    BY DEF Before, TotalOrder
  <2>2. /\ IsFiniteSet(Before(S, R, x)) /\ rank(x) \in Nat
        /\ rank(x) <= Cardinality(S) /\ rank(x) # Cardinality(S)
    BY <2>1, FS_Subset, FS_CardinalityType
  <2> QED BY <2>2, <1>1
<1>3. ASSUME NEW x \in S, NEW y \in S, <<x, y>> \in R PROVE rank(x) < rank(y)
  <2>1. Before(S, R, x) \in SUBSET Before(S, R, y)
    BY <1>3 DEF Before, TotalOrder
  <2>2. x \in Before(S, R, y) /\ x \notin Before(S, R, x)
    BY <1>3 DEF Before, TotalOrder
  <2>3. rank(x) <= rank(y) /\ rank(x) # rank(y)
    BY <2>1, <2>2, <1>2, FS_Subset
  <2> QED BY <2>3, <1>2
<1> DEFINE f == [x \in S |-> rank(x) + 1]
           n == Cardinality(S)
<1>4. \A x, y \in S : rank(x) = rank(y) => x = y
  <2>1. \A x, y \in S : x = y \/ <<x, y>> \in R \/ <<y, x>> \in R
    BY DEF TotalOrder
  <2>2. \A x, y \in S : x = y \/ rank(x) < rank(y) \/ rank(y) < rank(x)
    BY <2>1, <1>3
  <2> HIDE DEF rank
  <2> QED BY <2>2, <1>2
<1>5. f \in [S -> 1..n]
  <2>1. \A x \in S : rank(x) + 1 \in 1..n
    <3> HIDE DEF rank
    <3> QED BY <1>1, <1>2
  <2> HIDE DEF rank, n
  <2> QED BY <2>1
<1>6. f \in Injection(S, 1..n)
  <2>1. \A x, y \in S : f[x] = f[y] => x = y
    <3> HIDE DEF rank
    <3> QED BY <1>2, <1>4
  <2> HIDE DEF f
  <2> QED BY <1>5, <2>1 DEF Injection, IsInjective
<1>7. IsFiniteSet(1..n) /\ Cardinality(1..n) = n
  BY <1>1, FS_Interval
<1>8. f \in Surjection(S, 1..n)
  <2> HIDE DEF f
  <2> QED BY <1>6, <1>7, FS_Injection
<1>9. \A i \in 1..n : \E x \in S : f[x] = i
  <2> HIDE DEF f, n
  <2> QED BY <1>8 DEF Surjection
<1>10. ASSUME NEW i \in 1..n PROVE \E x \in S : rank(x) = i - 1
  <2>1. PICK x \in S : f[x] = i
    BY <1>9
  <2>2. rank(x) + 1 = i
    <3> HIDE DEF rank
    <3> QED BY <2>1
  <2> HIDE DEF rank
  <2> QED BY <2>2, <1>2
<1> QED BY <1>1, <1>3, <1>10

\* The elements of S, each at the place that the number of its predecessors
\* gives it.
ByRank(S, R) == [i \in 1..Cardinality(S) |->
                   CHOOSE x \in S : Cardinality(Before(S, R, x)) = i - 1]

\* Such a list has every element of S, and the places follow the order.
LEMMA ByRankIsSorted ==
  ASSUME NEW S, IsFiniteSet(S), NEW R, TotalOrder(S, R), NEW ord, ord = ByRank(S, R)
  PROVE  /\ Cardinality(S) \in Nat /\ DOMAIN ord = 1..Cardinality(S)
         /\ \A i \in DOMAIN ord : ord[i] \in S
         /\ \A i, k \in DOMAIN ord : i < k <=> <<ord[i], ord[k]>> \in R
         /\ \A x \in S : \E i \in DOMAIN ord : ord[i] = x
<1> DEFINE rank(x) == Cardinality(Before(S, R, x))
           n == Cardinality(S)
<1>1. /\ n \in Nat
      /\ \A x, y \in S : <<x, y>> \in R => rank(x) < rank(y)
      /\ \A i \in 1..n : \E x \in S : rank(x) = i - 1
  BY Ranks
<1>2. ord = [i \in 1..n |-> CHOOSE x \in S : rank(x) = i - 1]
  BY DEF ByRank
<1>3. \A x \in S : rank(x) \in 0..(n - 1)
  <2> TAKE x \in S
  <2>1. Before(S, R, x) \in SUBSET S /\ x \notin Before(S, R, x)
    BY DEF Before, TotalOrder
  <2>2. rank(x) \in Nat /\ rank(x) <= n /\ rank(x) # n
    BY <2>1, FS_Subset, FS_CardinalityType
  <2> HIDE DEF rank, n
  <2> QED BY <2>2, <1>1
<1>4. \A x, y \in S : x = y \/ <<x, y>> \in R \/ <<y, x>> \in R
  BY DEF TotalOrder
<1> HIDE DEF rank, n
<1>5. DOMAIN ord = 1..n
  BY <1>2
<1>6. \A i \in 1..n : ord[i] \in S /\ rank(ord[i]) = i - 1
  BY <1>1, <1>2
<1>7. ASSUME NEW i \in 1..n, NEW k \in 1..n PROVE i < k <=> <<ord[i], ord[k]>> \in R
  <2>1. rank(ord[i]) = i - 1 /\ rank(ord[k]) = k - 1 /\ ord[i] \in S /\ ord[k] \in S
    BY <1>6
  <2>2. <<ord[i], ord[k]>> \in R => i < k
    BY <2>1, <1>1
  <2>3. <<ord[k], ord[i]>> \in R => k < i
    BY <2>1, <1>1
  <2>4. ord[i] = ord[k] => i = k
    BY <2>1, <1>1
  <2> QED BY <2>1, <2>2, <2>3, <2>4, <1>1, <1>4
<1>8. ASSUME NEW x \in S PROVE \E i \in 1..n : ord[i] = x
  <2>1. rank(x) \in 0..(n - 1) /\ rank(x) + 1 \in 1..n
    BY <1>1, <1>3
  <2>2. ord[rank(x) + 1] \in S /\ rank(ord[rank(x) + 1]) = rank(x)
    BY <2>1, <1>6
  <2>3. PICK y \in S : y = ord[rank(x) + 1]
    BY <2>2
  <2>4. rank(y) = rank(x)
    BY <2>2, <2>3
  <2>5. ~(rank(x) < rank(y)) /\ ~(rank(y) < rank(x))
    BY <2>1, <2>4, <1>1
  <2>6. y = x
    BY <2>5, <1>1, <1>4
  <2> QED BY <2>1, <2>3, <2>6
<1> QED BY <1>1, <1>5, <1>6, <1>7, <1>8 DEF n

\* The rows the publisher can have, as a page lists them, and the cursors
\* that point at one.
Dataset == [Violations -> Rows \cup {Gone}]
RowRecords == [v : Violations, b : Buildings, d : Dates \cup {NoDate}]
Cursors == {Start} \cup [b : Buildings, d : Dates \cup {NoDate}, v : Violations]
Holds(records, v) == \E i \in DOMAIN records : records[i].v = v

\* What the publisher returns for a set of rows: rows of the set, all of them
\* when the limit allows, and none that comes after one that is left out.
IsTop(r, S, n) ==
  /\ r \in Seq(RowRecords) /\ Len(r) <= n
  /\ \A i \in DOMAIN r : r[i].v \in S /\ r[i] = RowAt(r[i].v)
  /\ Len(r) < n => \A v \in S : Holds(r, v)
  /\ \A k \in DOMAIN r, v \in S : Precedes(r[k].v, v) \/ \E i \in 1..k : r[i].v = v

\* Rows are returned in the order of dates and ids, from the first.
LEMMA TopFacts ==
  ASSUME dataset \in Dataset, NEW S \in SUBSET Violations, \A v \in S : dataset[v] # Gone,
         NEW n \in Nat
  PROVE  IsTop(Top(S, n), S, n)
<1> DEFINE r == Top(S, n)
<1> DEFINE R == {z \in S \X S : Precedes(z[1], z[2])}
           ord == InOrder(S, Precedes)
           m == IF Cardinality(S) < n THEN Cardinality(S) ELSE n
<1>1. IsFiniteSet(S) /\ S \subseteq Nat
  BY PageAssumption, FS_Subset
<1>2. \A v \in S : dataset[v] \in Rows /\ dataset[v].d \in Nat
  <2>1. \A v \in S : dataset[v] \in Rows
    BY DEF Dataset
  <2>2. \A x \in Rows : x.d \in Nat
    <3>1. Dates \cup {NoDate} \subseteq Nat
      BY PageAssumption DEF NoDate
    <3>2. \A x \in Rows : x.d \in Dates \cup {NoDate}
      BY DEF Rows
    <3> QED BY <3>1, <3>2
  <2> QED BY <2>1, <2>2
<1>3. \A x, y \in S : <<x, y>> \in R <=> Precedes(x, y)
  OBVIOUS
<1>4. TotalOrder(S, R)
  <2>1. \A x \in S : ~Precedes(x, x)
    BY <1>1, <1>2 DEF Precedes
  <2>2. \A x, y \in S : x = y \/ Precedes(x, y) \/ Precedes(y, x)
    BY <1>1, <1>2 DEF Precedes
  <2>3. \A x, y, z \in S : Precedes(x, y) /\ Precedes(y, z) => Precedes(x, z)
    BY <1>1, <1>2 DEF Precedes
  <2> HIDE DEF R
  <2> QED BY <1>3, <2>1, <2>2, <2>3 DEF TotalOrder
<1>5. ord = ByRank(S, R)
  <2>1. \A x \in S : {y \in S : Precedes(y, x)} = Before(S, R, x)
    BY <1>3 DEF Before
  <2> DEFINE A(i) == CHOOSE x \in S : Cardinality({y \in S : Precedes(y, x)}) = i - 1
             B(i) == CHOOSE x \in S : Cardinality(Before(S, R, x)) = i - 1
  <2>2. \A i \in 1..Cardinality(S) : A(i) = B(i)
    BY <2>1
  <2>3. ord = [i \in 1..Cardinality(S) |-> A(i)]
    BY DEF InOrder
  <2>4. ByRank(S, R) = [i \in 1..Cardinality(S) |-> B(i)]
    BY DEF ByRank
  <2> HIDE DEF A, B
  <2> QED BY <2>2, <2>3, <2>4
<1> HIDE DEF ord, R
<1>6. /\ Cardinality(S) \in Nat /\ DOMAIN ord = 1..Cardinality(S)
      /\ \A i \in DOMAIN ord : ord[i] \in S
      /\ \A i, k \in DOMAIN ord : i < k <=> <<ord[i], ord[k]>> \in R
      /\ \A x \in S : \E i \in DOMAIN ord : ord[i] = x
  BY <1>1, <1>4, <1>5, ByRankIsSorted
<1>7. r = [i \in 1..m |-> RowAt(ord[i])]
  BY DEF Top, ord
<1> HIDE DEF r
<1>8. m \in Nat /\ m <= n /\ m <= Cardinality(S) /\ (m < n => m = Cardinality(S))
  BY <1>6
<1> HIDE DEF m
<1>9. \A v \in S : RowAt(v) \in RowRecords /\ RowAt(v).v = v
  BY <1>2 DEF RowAt, RowRecords, Rows
<1>10. \A i \in 1..m : ord[i] \in S
  BY <1>6, <1>8
<1>11. r \in Seq(RowRecords) /\ Len(r) = m /\ DOMAIN r = 1..m
  <2>1. r \in [1..m -> RowRecords]
    BY <1>7, <1>9, <1>10
  <2> QED BY <2>1, <1>8
<1>12. \A i \in 1..m : r[i] = RowAt(ord[i]) /\ r[i].v = ord[i]
  BY <1>7, <1>9, <1>10
<1>13. Len(r) < n => \A v \in S : Holds(r, v)
  BY <1>6, <1>8, <1>11, <1>12 DEF Holds
<1>14. ASSUME NEW k \in 1..m, NEW v \in S
       PROVE  Precedes(r[k].v, v) \/ \E i \in 1..k : r[i].v = v
  <2>1. PICK i \in 1..Cardinality(S) : ord[i] = v
    BY <1>6
  <2>2. CASE k < i
    <3>1. k \in 1..Cardinality(S)
      BY <1>6, <1>8
    <3>2. <<ord[k], ord[i]>> \in R
      BY <2>2, <3>1, <1>6
    <3> QED BY <3>2, <2>1, <1>3, <1>10, <1>12
  <2>3. CASE i <= k
    BY <2>1, <2>3, <1>8, <1>12
  <2> QED BY <2>2, <2>3, <1>6, <1>8
<1>15. IsTop(r, S, n)
  BY <1>8, <1>10, <1>11, <1>12, <1>13, <1>14 DEF IsTop
<1> QED BY <1>15 DEF r

\* The pages a search can leave behind.
Pages == [at : Cursors, records : Seq(RowRecords), next : Cursors, more : BOOLEAN,
          select : BOOLEAN, fresh : BOOLEAN, kept : SUBSET Violations]

\* An export lists every record of its pages, none of them twice.
LEMMA CombineFacts ==
  ASSUME NEW pages \in Seq(Pages), NEW c, c = Combine(pages)
  PROVE  /\ c \in Seq(RowRecords)
         /\ \A i, k \in DOMAIN c : i # k => c[i].v # c[k].v
         /\ \A i \in DOMAIN c : \E j \in DOMAIN pages :
              \E k \in DOMAIN pages[j].records : c[i] = pages[j].records[k]
         /\ \A j \in DOMAIN pages : \A k \in DOMAIN pages[j].records :
              Holds(c, pages[j].records[k].v)
<1> DEFINE P == RecordsAt(pages)
           S == Firsts(pages)
           R == {z \in S \X S : Earlier(z[1], z[2])}
           ord == InOrder(S, Earlier)
           at(x) == RecordAt(pages, x)
<1>1. /\ DOMAIN pages = 1..Len(pages) /\ Len(pages) \in Nat
      /\ \A j \in DOMAIN pages : /\ pages[j] \in Pages
                                 /\ pages[j].records \in Seq(RowRecords)
                                 /\ DOMAIN pages[j].records = 1..Len(pages[j].records)
                                 /\ Len(pages[j].records) \in Nat
  <2>1. DOMAIN pages = 1..Len(pages) /\ Len(pages) \in Nat
    OBVIOUS
  <2>2. \A j \in DOMAIN pages : pages[j] \in Pages
    OBVIOUS
  <2>3. \A p \in Pages : p.records \in Seq(RowRecords)
    BY DEF Pages
  <2> HIDE DEF Pages
  <2>4. \A s \in Seq(RowRecords) : DOMAIN s = 1..Len(s) /\ Len(s) \in Nat
    OBVIOUS
  <2> QED BY ONLY <2>1, <2>2, <2>3, <2>4
<1>2. \A j \in DOMAIN pages, k \in Nat :
        <<j, k>> \in P <=> k \in DOMAIN pages[j].records
  BY DEF RecordsAt
<1>3. \A x \in P : /\ x = <<x[1], x[2]>> /\ x[1] \in DOMAIN pages
                   /\ x[2] \in DOMAIN pages[x[1]].records
                   /\ x[1] \in Nat /\ x[2] \in Nat /\ at(x) \in RowRecords
  <2> TAKE x \in P
  <2>1. PICK j \in DOMAIN pages : x \in {j} \X DOMAIN pages[j].records
    BY DEF RecordsAt
  <2>2. x = <<x[1], x[2]>> /\ x[1] = j /\ x[2] \in DOMAIN pages[j].records
    BY <2>1
  <2>3. x[1] \in Nat /\ x[2] \in Nat /\ pages[j].records[x[2]] \in RowRecords
    BY <2>2, <1>1
  <2> QED BY <2>2, <2>3 DEF RecordAt
<1>4. IsFiniteSet(P)
  <2> DEFINE box(j) == {j} \X DOMAIN pages[j].records
             F == {box(j) : j \in DOMAIN pages}
  <2>1. \A j \in DOMAIN pages : IsFiniteSet(box(j))
    <3> TAKE j \in DOMAIN pages
    <3>1. IsFiniteSet({j})
      BY FS_Singleton
    <3>2. PICK l \in Nat : DOMAIN pages[j].records = 1..l
      BY <1>1
    <3>3. IsFiniteSet(1..l)
      BY FS_Interval
    <3> QED BY <3>1, <3>2, <3>3, FS_Product
  <2>2. IsFiniteSet(F)
    <3> DEFINE f == [j \in DOMAIN pages |-> box(j)]
    <3>1. f \in Surjection(DOMAIN pages, F)
      BY DEF Surjection
    <3>2. IsFiniteSet(DOMAIN pages)
      <4>1. PICK l \in Nat : DOMAIN pages = 1..l
        BY <1>1
      <4>2. IsFiniteSet(1..l)
        BY FS_Interval
      <4> QED BY <4>1, <4>2
    <3> HIDE DEF f, F
    <3> QED BY <3>1, <3>2, FS_Surjection
  <2>3. \A s \in F : IsFiniteSet(s)
    BY <2>1
  <2>4. P = UNION F
    BY DEF RecordsAt
  <2> HIDE DEF F, P
  <2> QED BY <2>2, <2>3, <2>4, FS_UNION
<1>5. S \subseteq P /\ IsFiniteSet(S)
  <2>1. S \in SUBSET P
    BY DEF Firsts
  <2> HIDE DEF S, P
  <2> QED BY <2>1, <1>4, FS_Subset
<1>6. /\ \A x \in P : ~Earlier(x, x)
      /\ \A x, y \in P : x = y \/ Earlier(x, y) \/ Earlier(y, x)
      /\ \A x, y, z \in P : Earlier(x, y) /\ Earlier(y, z) => Earlier(x, z)
  <2> HIDE DEF P
  <2>1. \A x, y \in P : x[1] = y[1] /\ x[2] = y[2] => x = y
    BY <1>3
  <2>2. \A x \in P : x[1] \in Nat /\ x[2] \in Nat
    BY <1>3
  <2>3. \A x \in P : ~Earlier(x, x)
    BY <2>2 DEF Earlier
  <2>4. \A x, y \in P : x = y \/ Earlier(x, y) \/ Earlier(y, x)
    BY <2>1, <2>2 DEF Earlier
  <2>5. \A x, y, z \in P : Earlier(x, y) /\ Earlier(y, z) => Earlier(x, z)
    BY <2>2 DEF Earlier
  <2> QED BY <2>3, <2>4, <2>5
<1>7. \A x, y \in S : <<x, y>> \in R <=> Earlier(x, y)
  <2> HIDE DEF S
  <2> QED OBVIOUS
<1>8. TotalOrder(S, R)
  <2> HIDE DEF R, S, P
  <2> QED BY <1>5, <1>6, <1>7 DEF TotalOrder
<1>9. ord = ByRank(S, R)
  <2> HIDE DEF S
  <2>1. \A x \in S : {y \in S : Earlier(y, x)} = Before(S, R, x)
    BY <1>7 DEF Before
  <2> DEFINE A(i) == CHOOSE x \in S : Cardinality({y \in S : Earlier(y, x)}) = i - 1
             B(i) == CHOOSE x \in S : Cardinality(Before(S, R, x)) = i - 1
  <2>2. \A i \in 1..Cardinality(S) : A(i) = B(i)
    BY <2>1
  <2>3. ord = [i \in 1..Cardinality(S) |-> A(i)]
    BY DEF InOrder
  <2>4. ByRank(S, R) = [i \in 1..Cardinality(S) |-> B(i)]
    BY DEF ByRank
  <2> HIDE DEF A, B
  <2> QED BY <2>2, <2>3, <2>4
<1>10. c = [i \in DOMAIN ord |-> at(ord[i])]
  BY DEF Combine
<1>11. \A x \in S, y \in P : Earlier(y, x) => at(y).v # at(x).v
  BY DEF Firsts
<1>12. \A x \in P : (\A y \in P : Earlier(y, x) => at(y).v # at(x).v) => x \in S
  BY DEF Firsts
<1> HIDE DEF ord, R, S
<1>13. /\ Cardinality(S) \in Nat /\ DOMAIN ord = 1..Cardinality(S)
       /\ \A i \in DOMAIN ord : ord[i] \in S
       /\ \A i, k \in DOMAIN ord : i < k <=> <<ord[i], ord[k]>> \in R
       /\ \A x \in S : \E i \in DOMAIN ord : ord[i] = x
  BY <1>5, <1>8, <1>9, ByRankIsSorted
<1> HIDE DEF P, at
<1>14. DOMAIN c = DOMAIN ord /\ \A i \in DOMAIN c : c[i] = at(ord[i]) /\ ord[i] \in P
  BY <1>5, <1>10, <1>13
<1>15. c \in Seq(RowRecords)
  <2>1. c \in [1..Cardinality(S) -> RowRecords]
    BY <1>3, <1>10, <1>13, <1>14
  <2> QED BY <2>1, <1>13
<1>16. ASSUME NEW i \in DOMAIN c, NEW k \in DOMAIN c, i < k PROVE c[i].v # c[k].v
  <2>1. Earlier(ord[i], ord[k])
    BY <1>7, <1>13, <1>14, <1>16
  <2> QED BY <2>1, <1>11, <1>13, <1>14
<1>17. \A i, k \in DOMAIN c : i # k => c[i].v # c[k].v
  BY <1>13, <1>14, <1>16
<1>18. \A i \in DOMAIN c : \E j \in DOMAIN pages :
         \E k \in DOMAIN pages[j].records : c[i] = pages[j].records[k]
  BY <1>3, <1>14 DEF at, RecordAt
<1>19. ASSUME NEW x \in P PROVE Holds(c, at(x).v)
  <2> DEFINE same == {y \in P : at(y).v = at(x).v}
  <2>1. \E y \in same : \A z \in same : ~Earlier(z, y)
    <3> DEFINE ks == {y[1] : y \in same}
    <3>1. ks \subseteq Nat /\ ks # {}
      BY <1>3
    <3>2. PICK m \in ks : \A k \in ks : m <= k
      <4> HIDE DEF ks
      <4> QED BY <3>1, LeastNatural
    <3> DEFINE js == {y[2] : y \in {z \in same : z[1] = m}}
    <3>3. js \subseteq Nat /\ js # {}
      BY <1>3
    <3>4. PICK l \in js : \A k \in js : l <= k
      <4> HIDE DEF js
      <4> QED BY <3>3, LeastNatural
    <3>5. PICK y \in same : y[1] = m /\ y[2] = l
      OBVIOUS
    <3>6. ASSUME NEW z \in same PROVE ~Earlier(z, y)
      <4>1. z[1] \in Nat /\ z[2] \in Nat /\ m \in Nat /\ l \in Nat /\ m <= z[1]
        BY <1>3, <3>1, <3>2, <3>3
      <4>2. z[1] = m => l <= z[2]
        BY <3>4
      <4> QED BY <4>1, <4>2, <3>5 DEF Earlier
    <3> QED BY <3>5, <3>6
  <2>2. PICK y \in same : \A z \in same : ~Earlier(z, y)
    BY <2>1
  <2>3. y \in S
    BY <2>2, <1>12
  <2>4. PICK i \in DOMAIN c : ord[i] = y
    BY <2>3, <1>13, <1>14
  <2> QED BY <2>4, <1>14 DEF Holds
<1>20. ASSUME NEW j \in DOMAIN pages, NEW k \in DOMAIN pages[j].records
       PROVE  Holds(c, pages[j].records[k].v)
  <2>1. <<j, k>> \in P
    BY <1>1, <1>2
  <2>2. at(<<j, k>>) = pages[j].records[k]
    BY DEF at, RecordAt
  <2> QED BY <2>1, <2>2, <1>19
<1> QED BY <1>15, <1>17, <1>18, <1>20

\* The searches and exports that can be under way.
Fetches == [pc : {"idle", "resolve", "rows", "nulls"}, who : {"export", "user"},
            at : Cursors, b : Buildings \cup {"none"}, rows : Seq(RowRecords),
            kept : SUBSET Violations, old : SUBSET Pages]
Exports == [state : {"none", "running", "done", "failed"}, pages : Seq(Pages),
            next : Cursors, complete : BOOLEAN, records : Seq(RowRecords),
            kept : SUBSET Violations]

PageTypes ==
  /\ dataset \in Dataset /\ pquery \in [b : QueriedBuildings, dated : BOOLEAN]
  /\ pcache \subseteq Pages /\ fetch \in Fetches /\ export \in Exports

CursorOf(r) == [b |-> r.b, d |-> r.d, v |-> r.v]

\* What a page says of a row that was left alone since it was asked for: the
\* first page is of its building, and a page of its building behind whose
\* cursor it lies lists it, or leaves it to the pages that follow.
Covers(p, v) ==
  /\ p.at = Start => \A i \in DOMAIN p.records : p.records[i].b = dataset[v].b
  /\ (p.at = Start \/ dataset[v].b = p.at.b) /\ AfterCursor(v, p.at) =>
       Holds(p.records, v) \/ (p.more /\ AfterCursor(v, p.next))

\* The rows of a page are of one building, its cursor's, and a page that has
\* a successor ends where that begins.
OneBuilding(p) ==
  \A i, k \in DOMAIN p.records :
    p.records[i].b = p.records[k].b /\ (p.at # Start => p.records[i].b = p.at.b)
Continues(p) ==
  p.more => p.records # <<>> /\ p.next = CursorOf(p.records[Len(p.records)])
SoundPage(p) ==
  /\ OneBuilding(p) /\ Continues(p)
  /\ ~p.select => \A v \in p.kept \cap Matching(pquery) : Covers(p, v)

SearchInv ==
  /\ \A p \in fetch.old : SoundPage(p) /\ p.at = fetch.at
  /\ fetch.pc # "idle" => \/ /\ export.state = "running"
                             /\ fetch.who = "export" /\ fetch.at = export.next
                          \/ fetch.who = "user" /\ export.state = "none"
  /\ fetch.pc = "resolve" => fetch.at = Start /\ pquery.b = ByAddress
  /\ fetch.pc \in {"rows", "nulls"} /\ fetch.at = Start /\ pquery.b = ByAddress =>
       \A v \in fetch.kept : dataset[v] # Gone => dataset[v].b = fetch.b
  /\ fetch.pc = "nulls" =>
       /\ ~InNullPartition(fetch.at) /\ Len(fetch.rows) <= PageLimit
       /\ \A i \in DOMAIN fetch.rows : fetch.rows[i].d # NoDate
                                       /\ fetch.rows[i].b = PageBuilding(fetch)
       /\ \A v \in fetch.kept \cap Matching(pquery) :
            dataset[v].b = PageBuilding(fetch) /\ dataset[v].d # NoDate
            /\ AfterCursor(v, fetch.at) => Holds(fetch.rows, v)

\* The export so far: its rows are of one building, and every row left alone
\* by its pages is listed or lies ahead.
Listed(pages, v) == \E i \in DOMAIN pages : Holds(pages[i].records, v)
Ahead(pages, next, v) ==
  /\ pages # <<>> => dataset[v].b = next.b
  /\ Listed(pages, v) \/ AfterCursor(v, next)
ExportInv ==
  /\ export.state # "running" => export.pages = <<>>
  /\ export.state # "done" => export.records = <<>>
  /\ export.pages # <<>> => export.next # Start
  /\ export.state \in {"none", "running"} /\ export.pages = <<>> => export.next = Start
  /\ \A i \in DOMAIN export.pages : \A k \in DOMAIN export.pages[i].records :
       export.pages[i].records[k].b = export.next.b
  /\ export.state = "running" =>
       \A v \in KeptByAll(export.pages) \cap Matching(pquery) :
         Ahead(export.pages, export.next, v)

PagesInv ==
  /\ PageTypes /\ \A p \in pcache : SoundPage(p)
  /\ SearchInv /\ ExportInv /\ ExportIsExact

\* What a page says does not change while the publisher's rows do not.
LEMMA SoundPageStays ==
  ASSUME UNCHANGED <<dataset, pquery>>, NEW p
  PROVE  SoundPage(p)' <=> SoundPage(p)
<1>1. Matching(pquery)' = Matching(pquery)
  BY DEF Matching
<1>2. \A v : Covers(p, v)' <=> Covers(p, v)
  BY DEF Covers, AfterCursor
<1> QED BY <1>1, <1>2 DEF SoundPage, OneBuilding, Continues

\* An export that takes a page is exact when it ends with it, and otherwise
\* still has every row listed or ahead.
LEMMA EndInv ==
  ASSUME PageTypes, NEW pages \in Seq(Pages), pages # <<>>, NEW interrupted \in BOOLEAN,
         export.state = "running", EndExport(pages, interrupted), UNCHANGED <<dataset, pquery>>,
         \A i, j \in DOMAIN pages :
           \A k \in DOMAIN pages[i].records, l \in DOMAIN pages[j].records :
             pages[i].records[k].b = pages[j].records[l].b,
         ~interrupted /\ ~Last(pages).more =>
           \A v \in KeptByAll(pages) \cap Matching(pquery) : Listed(pages, v)
  PROVE  export' \in Exports /\ ExportInv' /\ ExportIsExact' /\ export'.state = "done"
<1> DEFINE c == Combine(pages)
<1>1. /\ c \in Seq(RowRecords)
      /\ \A i, k \in DOMAIN c : i # k => c[i].v # c[k].v
      /\ \A i \in DOMAIN c : \E j \in DOMAIN pages :
           \E k \in DOMAIN pages[j].records : c[i] = pages[j].records[k]
      /\ \A j \in DOMAIN pages : \A k \in DOMAIN pages[j].records :
           Holds(c, pages[j].records[k].v)
  BY CombineFacts
<1> HIDE DEF c
<1>2. export' = [export EXCEPT !.state = "done", !.pages = <<>>,
                   !.complete = ~interrupted /\ ~Last(pages).more,
                   !.records = c, !.kept = KeptByAll(pages)]
  BY DEF EndExport, c
<1>3. (~interrupted /\ ~Last(pages).more) \in BOOLEAN /\ KeptByAll(pages) \in SUBSET Violations
  BY DEF KeptByAll
<1>4. export \in Exports /\ <<>> \in Seq(Pages)
  BY DEF PageTypes
<1>5. export' \in Exports
  <2> HIDE DEF Pages
  <2> QED BY <1>1, <1>2, <1>3, <1>4 DEF Exports
<1>6. /\ export'.state = "done" /\ export'.pages = <<>> /\ export'.records = c
      /\ export'.complete = (~interrupted /\ ~Last(pages).more)
      /\ export'.kept = KeptByAll(pages)
  BY <1>2, <1>4 DEF Exports
<1>7. ExportInv'
  BY <1>6 DEF ExportInv
<1>8. \A i, k \in DOMAIN c : c[i].b = c[k].b
  BY <1>1
<1>9. Matching(pquery)' = Matching(pquery)
  BY DEF Matching
<1>10. ASSUME export'.complete, NEW v \in KeptByAll(pages) \cap Matching(pquery)
       PROVE  \E i \in DOMAIN c : c[i].v = v
  <2>1. Listed(pages, v)
    BY <1>6, <1>10
  <2> QED BY <2>1, <1>1 DEF Listed, Holds
<1> QED BY <1>1, <1>5, <1>6, <1>7, <1>8, <1>9, <1>10 DEF ExportIsExact

\* A failed export lists nothing.
LEMMA FailInv ==
  ASSUME PageTypes, ExportInv, export.state = "running", FailExport
  PROVE  export' \in Exports /\ ExportInv' /\ ExportIsExact' /\ export'.state = "failed"
<1>1. export \in Exports /\ <<>> \in Seq(Pages)
  BY DEF PageTypes
<1>2. export.records = <<>>
  BY DEF ExportInv
<1> HIDE DEF Pages
<1>3. export' \in Exports /\ export'.state = "failed"
      /\ export'.pages = <<>> /\ export'.records = <<>>
  BY <1>1, <1>2 DEF FailExport, Exports
<1>4. ExportInv'
  BY <1>3 DEF ExportInv
<1>5. ExportIsExact'
  BY <1>3 DEF ExportIsExact
<1> QED BY <1>3, <1>4, <1>5

\* The next page of an export: its rows are of the export's building, and
\* every row left alone is listed now, or lies behind the page's end.
LEMMA NextPage ==
  ASSUME PageTypes, ExportInv, export.state = "running",
         NEW p \in Pages, SoundPage(p), ~p.select, p.at = export.next
  PROVE  LET pages == Append(export.pages, p)
         IN  /\ pages \in Seq(Pages) /\ pages # <<>> /\ Last(pages) = p
             /\ \A i, j \in DOMAIN pages :
                  \A k \in DOMAIN pages[i].records, l \in DOMAIN pages[j].records :
                    pages[i].records[k].b = pages[j].records[l].b
             /\ p.more => \A i \in DOMAIN pages : \A k \in DOMAIN pages[i].records :
                            pages[i].records[k].b = p.next.b
             /\ p.more => p.next # Start
             /\ \A v \in KeptByAll(pages) \cap Matching(pquery) :
                  /\ p.more => dataset[v].b = p.next.b
                  /\ Listed(pages, v) \/ (p.more /\ AfterCursor(v, p.next))
<1> DEFINE old == export.pages
           pages == Append(old, p)
           n == Len(old)
<1> HIDE DEF Pages
<1>1. old \in Seq(Pages) /\ n \in Nat /\ DOMAIN old = 1..n
  BY DEF PageTypes, Exports
<1>2. /\ pages \in Seq(Pages) /\ Len(pages) = n + 1 /\ DOMAIN pages = 1..(n + 1)
      /\ pages[n + 1] = p /\ \A i \in 1..n : pages[i] = old[i]
  <2> HIDE DEF old
  <2> QED BY <1>1
<1>3. pages # <<>> /\ Last(pages) = p
  <2> HIDE DEF pages
  <2> QED BY <1>1, <1>2 DEF Last
<1> HIDE DEF pages, old, n
<1>4. \A i \in DOMAIN pages : i \in 1..n \/ i = n + 1
  BY <1>1, <1>2
<1>5. /\ p.records \in Seq(RowRecords) /\ DOMAIN p.records = 1..Len(p.records)
      /\ Len(p.records) \in Nat
  BY DEF Pages
<1>6. /\ \A i \in 1..n : \A k \in DOMAIN old[i].records : old[i].records[k].b = export.next.b
      /\ old # <<>> => export.next # Start
      /\ old = <<>> => export.next = Start
      /\ \A v \in KeptByAll(old) \cap Matching(pquery) :
           /\ old # <<>> => dataset[v].b = export.next.b
           /\ Listed(old, v) \/ AfterCursor(v, export.next)
  BY <1>1 DEF ExportInv, Ahead, old
<1>7. old = <<>> <=> n = 0
  BY <1>1 DEF n
<1>8. n # 0 => \A i \in DOMAIN pages : \A k \in DOMAIN pages[i].records :
                 pages[i].records[k].b = export.next.b
  BY <1>2, <1>4, <1>6, <1>7 DEF SoundPage, OneBuilding
<1>9. n = 0 => \A i, j \in DOMAIN pages :
        \A k \in DOMAIN pages[i].records, l \in DOMAIN pages[j].records :
          pages[i].records[k].b = pages[j].records[l].b
  BY <1>2, <1>4 DEF SoundPage, OneBuilding
<1>10. \A i, j \in DOMAIN pages :
         \A k \in DOMAIN pages[i].records, l \in DOMAIN pages[j].records :
           pages[i].records[k].b = pages[j].records[l].b
  BY <1>8, <1>9
<1>11. p.more => /\ Len(p.records) \in DOMAIN p.records
                 /\ p.next = CursorOf(p.records[Len(p.records)])
                 /\ p.next.b = p.records[Len(p.records)].b /\ p.next.b \in Buildings
  <2> SUFFICES ASSUME p.more PROVE /\ Len(p.records) \in DOMAIN p.records
                 /\ p.next = CursorOf(p.records[Len(p.records)])
                 /\ p.next.b = p.records[Len(p.records)].b /\ p.next.b \in Buildings
    OBVIOUS
  <2>1. p.records # <<>> /\ p.next = CursorOf(p.records[Len(p.records)])
    BY DEF SoundPage, Continues
  <2>2. Len(p.records) \in DOMAIN p.records
    BY <2>1, <1>5
  <2>3. p.records[Len(p.records)] \in RowRecords
    BY <2>2, <1>5
  <2> QED BY <2>1, <2>2, <2>3 DEF CursorOf, RowRecords
<1>12. p.more => p.next # Start
  BY <1>11, PageAssumption DEF Start
<1>13. n + 1 \in DOMAIN pages
  BY <1>1, <1>2
<1>14. p.more => \A i \in DOMAIN pages : \A k \in DOMAIN pages[i].records :
                   pages[i].records[k].b = p.next.b
  BY <1>2, <1>10, <1>11, <1>13
<1>15. ASSUME NEW v \in KeptByAll(pages) \cap Matching(pquery)
       PROVE  /\ p.more => dataset[v].b = p.next.b
              /\ Listed(pages, v) \/ (p.more /\ AfterCursor(v, p.next))
  <2>1. v \in p.kept \cap Matching(pquery) /\ v \in KeptByAll(old)
    BY <1>1, <1>2, <1>13 DEF KeptByAll
  <2>2. Covers(p, v)
    BY <2>1 DEF SoundPage
  <2>3. p.at = Start \/ dataset[v].b = p.at.b
    BY <2>1, <1>6
  <2>4. p.more => dataset[v].b = p.next.b
    <3>1. CASE p.at = Start
      BY <3>1, <2>2, <1>11 DEF Covers
    <3>2. CASE p.at # Start
      BY <3>2, <2>3, <1>11 DEF SoundPage, OneBuilding
    <3> QED BY <3>1, <3>2
  <2>5. Listed(old, v) => Listed(pages, v)
    BY <1>1, <1>2, <1>4 DEF Listed
  <2>6. Holds(p.records, v) => Listed(pages, v)
    BY <1>2, <1>13 DEF Listed
  <2>7. Listed(old, v) \/ AfterCursor(v, p.at)
    BY <2>1, <1>6
  <2>8. AfterCursor(v, p.at) => Holds(p.records, v) \/ (p.more /\ AfterCursor(v, p.next))
    BY <2>2, <2>3 DEF Covers
  <2> QED BY <2>4, <2>5, <2>6, <2>7, <2>8
<1> QED BY <1>2, <1>3, <1>10, <1>12, <1>14, <1>15 DEF pages, old

\* The export takes a page that says what pages say.
LEMMA TakePageInv ==
  ASSUME PageTypes, ExportInv, export.state = "running", UNCHANGED <<dataset, pquery>>,
         NEW p \in Pages, SoundPage(p), p.at = export.next, TakePage(p)
  PROVE  export' \in Exports /\ ExportInv' /\ ExportIsExact'
<1> DEFINE pages == Append(export.pages, p)
<1>1. CASE p.select
  <2>1. FailExport
    BY <1>1 DEF TakePage
  <2> QED BY <2>1, FailInv
<1>2. CASE ~p.select
  <2>1. /\ pages \in Seq(Pages) /\ pages # <<>> /\ Last(pages) = p
        /\ \A i, j \in DOMAIN pages :
             \A k \in DOMAIN pages[i].records, l \in DOMAIN pages[j].records :
               pages[i].records[k].b = pages[j].records[l].b
        /\ p.more => \A i \in DOMAIN pages : \A k \in DOMAIN pages[i].records :
                       pages[i].records[k].b = p.next.b
        /\ p.more => p.next # Start
        /\ \A v \in KeptByAll(pages) \cap Matching(pquery) :
             /\ p.more => dataset[v].b = p.next.b
             /\ Listed(pages, v) \/ (p.more /\ AfterCursor(v, p.next))
    BY <1>2, NextPage
  <2> HIDE DEF pages
  <2>2. CASE ~p.more
    <3>1. EndExport(pages, FALSE)
      BY <1>2, <2>2 DEF TakePage, pages
    <3>2. \A v \in KeptByAll(pages) \cap Matching(pquery) : Listed(pages, v)
      BY <2>1, <2>2
    <3> QED BY <2>1, <3>1, <3>2, EndInv
  <2>3. CASE p.more /\ Len(pages) = MaxPages
    <3>1. EndExport(pages, TRUE)
      BY <1>2, <2>3 DEF TakePage, pages
    <3> QED BY <2>1, <3>1, EndInv
  <2>4. CASE p.more /\ Len(pages) # MaxPages
    <3>1. export' = [export EXCEPT !.pages = pages, !.next = p.next]
      BY <1>2, <2>4 DEF TakePage, pages
    <3>2. export \in Exports /\ p.next \in Cursors
      BY DEF PageTypes, Pages
    <3>3. export.records = <<>>
      BY DEF ExportInv
    <3>4. /\ export' \in Exports /\ export'.pages = pages /\ export'.next = p.next
          /\ export'.state = "running" /\ export'.records = <<>>
      <4> HIDE DEF Pages
      <4> QED BY <2>1, <3>1, <3>2, <3>3 DEF Exports
    <3>5. Matching(pquery)' = Matching(pquery)
      BY DEF Matching
    <3>6. \A v \in KeptByAll(pages) \cap Matching(pquery) : Ahead(pages, p.next, v)
      BY <2>1, <2>4 DEF Ahead
    <3>7. \A v : Ahead(export.pages, export.next, v)' <=> Ahead(pages, p.next, v)
      BY <3>4 DEF Ahead, AfterCursor
    <3>8. KeptByAll(export.pages)' = KeptByAll(pages)
      BY <3>4 DEF KeptByAll
    <3>9. ExportInv'
      BY <2>1, <2>4, <3>4, <3>5, <3>6, <3>7, <3>8 DEF ExportInv
    <3>10. ExportIsExact'
      BY <3>4 DEF ExportIsExact
    <3> QED BY <3>4, <3>9, <3>10
  <2> QED BY <2>2, <2>3, <2>4
<1> QED BY <1>1, <1>2

\* An interrupted export ends with the pages it has.
LEMMA InterruptInv ==
  ASSUME PageTypes, ExportInv, export.state = "running", UNCHANGED <<dataset, pquery>>,
         InterruptExport
  PROVE  export' \in Exports /\ ExportInv' /\ ExportIsExact'
<1>1. CASE export.pages = <<>>
  BY <1>1, FailInv DEF InterruptExport
<1>2. CASE export.pages # <<>>
  <2>1. export.pages \in Seq(Pages)
    BY DEF PageTypes, Exports
  <2>2. EndExport(export.pages, TRUE)
    BY <1>2 DEF InterruptExport
  <2>3. \A i, j \in DOMAIN export.pages :
          \A k \in DOMAIN export.pages[i].records, l \in DOMAIN export.pages[j].records :
            export.pages[i].records[k].b = export.pages[j].records[l].b
    BY DEF ExportInv
  <2> QED BY <1>2, <2>1, <2>2, <2>3, EndInv
<1> QED BY <1>1, <1>2

\* The smaller of two numbers.
LEMMA Shorter ==
  ASSUME NEW l \in Nat, NEW q \in Nat
  PROVE  LET k == IF l < q THEN l ELSE q
         IN  k \in Nat /\ k <= l /\ k <= q /\ (l > q => k = q) /\ (~(l > q) => k = l)
OBVIOUS

\* The page made of the rows that were read.
LEMMA PageOfSound ==
  ASSUME PageTypes, fetch.pc # "idle", NEW rows \in Seq(RowRecords),
         \A i \in DOMAIN rows : rows[i].b = PageBuilding(fetch),
         fetch.at = Start => \A v \in fetch.kept \cap Matching(pquery) :
                               dataset[v].b = PageBuilding(fetch),
         \A v \in fetch.kept \cap Matching(pquery) :
           dataset[v].b = PageBuilding(fetch) /\ AfterCursor(v, fetch.at) =>
             \/ \E i \in DOMAIN rows : i <= PageLimit /\ rows[i].v = v
             \/ Len(rows) > PageLimit /\ AfterCursor(v, CursorOf(rows[PageLimit]))
  PROVE  /\ PageOf(rows) \in Pages /\ SoundPage(PageOf(rows))
         /\ PageOf(rows).at = fetch.at
<1> DEFINE m == IF Len(rows) < PageLimit THEN Len(rows) ELSE PageLimit
           records == SubSeq(rows, 1, m)
           more == Len(rows) > PageLimit
           next == IF more THEN [b |-> Last(records).b, d |-> Last(records).d,
                                 v |-> Last(records).v] ELSE Start
           p == PageOf(rows)
<1>1. Len(rows) \in Nat /\ PageLimit \in Nat /\ PageLimit > 0 /\ DOMAIN rows = 1..Len(rows)
  BY PageAssumption
<1>2. m \in Nat /\ m <= Len(rows) /\ m <= PageLimit /\ (more => m = PageLimit)
      /\ (~more => m = Len(rows))
  BY <1>1, Shorter
<1> HIDE DEF m
<1>3. /\ records \in Seq(RowRecords) /\ Len(records) = m /\ DOMAIN records = 1..m
      /\ \A i \in 1..m : records[i] = rows[i]
  <2>1. \A i \in 1..m : rows[i] \in RowRecords
    BY <1>1, <1>2
  <2>2. /\ records \in Seq(RowRecords) /\ Len(records) = IF 1 <= m THEN m - 1 + 1 ELSE 0
        /\ \A i \in 1..(m - 1 + 1) : records[i] = rows[1 + i - 1]
    BY <1>2, <2>1, SubSeqProperties
  <2>3. Len(records) = m /\ \A i \in 1..m : records[i] = rows[i]
    BY ONLY <1>2, <2>2
  <2> QED BY <1>2, <2>2, <2>3
<1> HIDE DEF records
<1>4. more => /\ m \in DOMAIN records /\ records # <<>> /\ rows[m] \in RowRecords
              /\ next = CursorOf(rows[m]) /\ next = CursorOf(records[Len(records)])
              /\ next \in Cursors
  <2> SUFFICES ASSUME more
               PROVE  /\ m \in DOMAIN records /\ records # <<>> /\ rows[m] \in RowRecords
                      /\ next = CursorOf(rows[m]) /\ next = CursorOf(records[Len(records)])
                      /\ next \in Cursors
    OBVIOUS
  <2>1. m \in 1..m /\ m \in DOMAIN records /\ m \in DOMAIN rows
    BY <1>1, <1>2, <1>3
  <2>2. records # <<>> /\ rows[m] \in RowRecords /\ Last(records) = rows[m]
    BY <2>1, <1>3 DEF Last
  <2>3. next = CursorOf(rows[m])
    BY <2>2 DEF CursorOf
  <2>4. CursorOf(rows[m]) \in Cursors
    BY <2>2 DEF CursorOf, Cursors, RowRecords
  <2> HIDE DEF next
  <2> QED BY <2>1, <2>2, <2>3, <2>4, <1>3
<1>5. next \in Cursors
  <2>1. CASE more
    BY <2>1, <1>4
  <2>2. CASE ~more
    BY <2>2 DEF Cursors
  <2> QED BY <2>1, <2>2
<1>6. p = [NoPage EXCEPT !.at = fetch.at, !.records = records, !.more = more,
             !.fresh = TRUE, !.kept = fetch.kept, !.next = next]
  BY DEF PageOf, records, m
<1>7. more \in BOOLEAN /\ fetch.at \in Cursors /\ fetch.kept \in SUBSET Violations
  BY DEF PageTypes, Fetches
<1> HIDE DEF p, more, next
<1>8. p = [at |-> fetch.at, records |-> records, next |-> next, more |-> more,
           select |-> FALSE, fresh |-> TRUE, kept |-> fetch.kept]
  BY <1>6 DEF NoPage
<1>9. p \in Pages
  BY <1>3, <1>5, <1>7, <1>8 DEF Pages
<1>10. /\ p.at = fetch.at /\ p.records = records /\ p.next = next /\ p.more = more
       /\ p.select = FALSE /\ p.kept = fetch.kept
  BY <1>8
<1>11. \A i \in 1..m : i \in DOMAIN rows /\ records[i].b = PageBuilding(fetch)
  <2>1. \A i \in 1..m : i \in 1..Len(rows)
    <3>1. m \in Nat /\ m <= Len(rows) /\ Len(rows) \in Nat
      BY <1>1, <1>2
    <3> QED BY ONLY <3>1
  <2>2. \A i \in 1..m : i \in DOMAIN rows
    BY ONLY <1>1, <2>1
  <2> QED BY <1>3, <2>2
<1>12. fetch.at # Start => PageBuilding(fetch) = fetch.at.b
  BY DEF PageBuilding
<1>13. OneBuilding(p)
  BY <1>3, <1>10, <1>11, <1>12 DEF OneBuilding
<1>14. Continues(p)
  BY <1>4, <1>10 DEF Continues
<1>15. ASSUME NEW v \in fetch.kept \cap Matching(pquery) PROVE Covers(p, v)
  <2>1. fetch.at = Start => \A i \in DOMAIN records : records[i].b = dataset[v].b
    BY <1>3, <1>11
  <2>2. ASSUME fetch.at = Start \/ dataset[v].b = fetch.at.b, AfterCursor(v, fetch.at)
        PROVE  Holds(records, v) \/ (more /\ AfterCursor(v, next))
    <3>1. dataset[v].b = PageBuilding(fetch)
      BY <2>2, <1>12
    <3>2. CASE \E i \in DOMAIN rows : i <= PageLimit /\ rows[i].v = v
      <4>1. PICK i \in DOMAIN rows : i <= PageLimit /\ rows[i].v = v
        BY <3>2
      <4>2. i \in 1..m
        <5>1. i \in Nat /\ i >= 1 /\ i <= Len(rows)
          BY <1>1
        <5>2. i <= m
          BY <4>1, <5>1, <1>1, <1>2
        <5> QED BY <5>1, <5>2, <1>2
      <4> QED BY <4>1, <4>2, <1>3 DEF Holds
    <3>3. CASE Len(rows) > PageLimit /\ AfterCursor(v, CursorOf(rows[PageLimit]))
      <4>1. more /\ m = PageLimit
        BY <3>3, <1>2 DEF more
      <4> QED BY <3>3, <4>1, <1>4
    <3> QED BY <2>2, <3>1, <3>2, <3>3
  <2> QED BY <2>1, <2>2, <1>10 DEF Covers
<1>16. SoundPage(p)
  BY <1>10, <1>13, <1>14, <1>15 DEF SoundPage
<1> QED BY <1>9, <1>10, <1>16 DEF p

\* The dates of rows are numbers.
LEMMA RowFacts ==
  ASSUME dataset \in Dataset, NEW v \in Matching(pquery)
  PROVE  /\ v \in Violations /\ v \in Nat /\ dataset[v] # Gone /\ dataset[v] \in Rows
         /\ dataset[v].d \in Nat /\ dataset[v].b \in Buildings
<1>1. v \in Violations /\ dataset[v] # Gone
  BY DEF Matching
<1>2. dataset[v] \in Rows
  BY <1>1 DEF Dataset
<1>3. dataset[v].d \in Dates \cup {NoDate} /\ dataset[v].b \in Buildings
  BY <1>2 DEF Rows
<1>4. Dates \cup {NoDate} \subseteq Nat /\ Violations \subseteq Nat
  BY PageAssumption DEF NoDate
<1> QED BY <1>1, <1>2, <1>3, <1>4

\* The rows after a row, in the publisher's order, are those after its cursor.
LEMMA AfterRow ==
  ASSUME dataset \in Dataset, NEW w \in Matching(pquery), NEW v \in Matching(pquery),
         Precedes(w, v)
  PROVE  AfterCursor(v, CursorOf(RowAt(w)))
<1>1. w \in Nat /\ v \in Nat /\ dataset[w].d \in Nat /\ dataset[v].d \in Nat
  BY RowFacts
<1>2. CursorOf(RowAt(w)).d = dataset[w].d /\ CursorOf(RowAt(w)).v = w
  BY DEF CursorOf, RowAt
<1> QED BY <1>1, <1>2 DEF AfterCursor, Precedes

\* The first page is of the building of every row that was left alone.
LEMMA FirstPageBuilding ==
  ASSUME PageTypes, SearchInv, fetch.pc \in {"rows", "nulls"}, fetch.at = Start,
         NEW v \in fetch.kept \cap Matching(pquery)
  PROVE  dataset[v].b = PageBuilding(fetch)
<1>1. dataset[v] # Gone /\ pquery.b \in {ByAddress, dataset[v].b}
  BY DEF Matching
<1>2. CASE pquery.b = ByAddress
  <2>1. dataset[v].b = fetch.b
    BY <1>1, <1>2 DEF SearchInv
  <2> QED BY <2>1, <1>2 DEF PageBuilding
<1>3. CASE pquery.b # ByAddress
  BY <1>1, <1>3 DEF PageBuilding
<1> QED BY <1>2, <1>3

\* The rows a request returns: rows of the set it asks for, all of them unless
\* there are too many, and otherwise those that the last one does not precede.
AreRowsOf(r, S, n) ==
  /\ r \in Seq(RowRecords) /\ Len(r) \in Nat /\ DOMAIN r = 1..Len(r) /\ Len(r) <= n
  /\ \A i \in DOMAIN r : /\ r[i].b = PageBuilding(fetch)
                         /\ r[i].v \in S /\ r[i].d = dataset[r[i].v].d
  /\ Len(r) < n => \A v \in S : Holds(r, v)
  /\ \A k \in DOMAIN r, v \in S : \/ \E i \in 1..k : r[i].v = v
                                  \/ AfterCursor(v, CursorOf(r[k]))

\* A request returns such rows.
LEMMA RowsRead ==
  ASSUME PageTypes, NEW S \in SUBSET InBuilding, NEW n \in Nat
  PROVE  AreRowsOf(Top(S, n), S, n)
<1> DEFINE r == Top(S, n)
<1>1. dataset \in Dataset
  BY DEF PageTypes
<1>2. S \subseteq Matching(pquery) /\ \A v \in S : dataset[v].b = PageBuilding(fetch)
  BY DEF InBuilding
<1>3. S \in SUBSET Violations /\ \A v \in S : dataset[v] # Gone
  BY <1>2 DEF Matching
<1>4. /\ r \in Seq(RowRecords) /\ Len(r) <= n
      /\ \A i \in DOMAIN r : r[i].v \in S /\ r[i] = RowAt(r[i].v)
      /\ Len(r) < n => \A v \in S : Holds(r, v)
      /\ \A k \in DOMAIN r, v \in S : Precedes(r[k].v, v) \/ \E i \in 1..k : r[i].v = v
  <2>1. IsTop(r, S, n)
    BY <1>1, <1>3, TopFacts
  <2> HIDE DEF r
  <2> QED BY <2>1 DEF IsTop
<1> HIDE DEF r
<1>5. Len(r) \in Nat /\ DOMAIN r = 1..Len(r)
  BY <1>4
<1>6. \A i \in DOMAIN r : r[i].b = dataset[r[i].v].b /\ r[i].d = dataset[r[i].v].d
  <2>1. \A v : RowAt(v).b = dataset[v].b /\ RowAt(v).d = dataset[v].d
    BY DEF RowAt
  <2> QED BY ONLY <1>4, <2>1
<1>7. ASSUME NEW k \in DOMAIN r, NEW v \in S
      PROVE  (\E i \in 1..k : r[i].v = v) \/ AfterCursor(v, CursorOf(r[k]))
  <2>1. r[k].v \in Matching(pquery) /\ v \in Matching(pquery) /\ r[k] = RowAt(r[k].v)
    BY <1>2, <1>4
  <2>2. CASE Precedes(r[k].v, v)
    <3>1. AfterCursor(v, CursorOf(RowAt(r[k].v)))
      BY <1>1, <2>1, <2>2, AfterRow
    <3> QED BY ONLY <2>1, <3>1
  <2> QED BY <1>4, <2>2
<1>8. AreRowsOf(r, S, n)
  BY ONLY <1>2, <1>4, <1>5, <1>6, <1>7 DEF AreRowsOf
<1> QED BY <1>8 DEF r

\* A row of the page's building behind its cursor is asked for, or is undated
\* and asked for next.
LEMMA WantedFacts ==
  ASSUME PageTypes
  PROVE  /\ Wanted \in SUBSET InBuilding /\ Undated \in SUBSET InBuilding
         /\ ~InNullPartition(fetch.at) => \A v \in Wanted : dataset[v].d # NoDate
         /\ \A v \in Undated : dataset[v].d = NoDate
         /\ \A v \in Matching(pquery) :
              dataset[v].b = PageBuilding(fetch) /\ AfterCursor(v, fetch.at) =>
                v \in Wanted \/ (v \in Undated /\ ~InNullPartition(fetch.at))
<1>1. dataset \in Dataset
  BY DEF PageTypes
<1>2. ASSUME NEW v \in Matching(pquery), dataset[v].b = PageBuilding(fetch),
             AfterCursor(v, fetch.at)
      PROVE  v \in Wanted \/ (v \in Undated /\ ~InNullPartition(fetch.at))
  <2>1. v \in InBuilding
    BY <1>2 DEF InBuilding
  <2>2. CASE InNullPartition(fetch.at)
    <3>1. fetch.at # Start /\ fetch.at.d = NoDate /\ dataset[v].d \in Nat
      BY <2>2, <1>1, RowFacts DEF InNullPartition
    <3>2. dataset[v].d = NoDate /\ v > fetch.at.v
      BY <3>1, <1>2 DEF AfterCursor, NoDate
    <3> QED BY <2>1, <2>2, <3>2 DEF Wanted
  <2>3. CASE ~InNullPartition(fetch.at)
    BY <2>1, <2>3, <1>2 DEF Wanted, Undated
  <2> QED BY <2>2, <2>3
<1>3. Wanted \in SUBSET InBuilding /\ Undated \in SUBSET InBuilding
  BY DEF Wanted, Undated
<1>4. ~InNullPartition(fetch.at) => \A v \in Wanted : dataset[v].d # NoDate
  BY DEF Wanted
<1>5. \A v \in Undated : dataset[v].d = NoDate
  BY DEF Undated
<1> QED BY <1>2, <1>3, <1>4, <1>5

\* The page of one request.
LEMMA RowsPage ==
  ASSUME PageTypes, SearchInv, fetch.pc = "rows", NEW rows,
         rows = Top(Wanted, PageLimit + 1),
         \/ InNullPartition(fetch.at) \/ Len(rows) > PageLimit \/ pquery.dated
  PROVE  /\ PageOf(rows) \in Pages /\ SoundPage(PageOf(rows))
         /\ PageOf(rows).at = fetch.at
<1>1. PageLimit \in Nat /\ PageLimit > 0 /\ PageLimit + 1 \in Nat
  BY PageAssumption
<1>2. /\ rows \in Seq(RowRecords) /\ Len(rows) \in Nat /\ DOMAIN rows = 1..Len(rows)
      /\ \A i \in DOMAIN rows : /\ rows[i].b = PageBuilding(fetch)
                                /\ rows[i].v \in Wanted /\ rows[i].d = dataset[rows[i].v].d
      /\ Len(rows) < PageLimit + 1 => \A v \in Wanted : Holds(rows, v)
      /\ \A k \in DOMAIN rows, v \in Wanted : \/ \E i \in 1..k : rows[i].v = v
                                              \/ AfterCursor(v, CursorOf(rows[k]))
  <2>1. AreRowsOf(rows, Wanted, PageLimit + 1)
    BY <1>1, WantedFacts, RowsRead
  <2> QED BY <2>1 DEF AreRowsOf
<1>3. ASSUME NEW v \in fetch.kept \cap Matching(pquery),
             dataset[v].b = PageBuilding(fetch), AfterCursor(v, fetch.at)
      PROVE  \/ \E i \in DOMAIN rows : i <= PageLimit /\ rows[i].v = v
             \/ Len(rows) > PageLimit /\ AfterCursor(v, CursorOf(rows[PageLimit]))
  <2>1. v \in Wanted \/ (v \in Undated /\ ~InNullPartition(fetch.at))
    BY <1>3, WantedFacts
  <2>2. CASE v \in Wanted /\ Len(rows) <= PageLimit
    <3>1. PICK i \in DOMAIN rows : rows[i].v = v
      BY <2>2, <1>1, <1>2 DEF Holds
    <3>2. i <= PageLimit
      BY <2>2, <1>1, <1>2
    <3> QED BY <3>1, <3>2
  <2>3. CASE v \in Wanted /\ Len(rows) > PageLimit
    <3>1. PageLimit \in DOMAIN rows
      BY <2>3, <1>1, <1>2
    <3>2. (\E i \in 1..PageLimit : rows[i].v = v) \/ AfterCursor(v, CursorOf(rows[PageLimit]))
      BY <2>3, <3>1, <1>2
    <3>3. \A i \in 1..PageLimit : i \in DOMAIN rows /\ i <= PageLimit
      BY <2>3, <1>1, <1>2
    <3> QED BY ONLY <2>3, <3>2, <3>3
  <2>4. CASE v \in Undated /\ ~InNullPartition(fetch.at)
    <3>1. dataset[v].d = NoDate
      BY <2>4, WantedFacts
    <3>2. ~pquery.dated
      BY <3>1 DEF Matching
    <3>3. Len(rows) > PageLimit
      BY <2>4, <3>2
    <3>4. PageLimit \in DOMAIN rows
      BY <3>3, <1>1, <1>2
    <3>5. rows[PageLimit].d # NoDate /\ rows[PageLimit].d \in Dates \cup {NoDate}
      <4>1. rows[PageLimit] \in RowRecords
        BY <3>4, <1>2
      <4>2. dataset[rows[PageLimit].v].d # NoDate
        BY <2>4, <3>4, <1>2, WantedFacts
      <4> QED BY <4>1, <4>2, <3>4, <1>2 DEF RowRecords
    <3>6. rows[PageLimit].d \in Nat /\ rows[PageLimit].d > 0
      <4>1. Dates \subseteq Nat \ {0}
        BY PageAssumption
      <4>2. rows[PageLimit].d \in Nat /\ rows[PageLimit].d # 0
        BY ONLY <3>5, <4>1 DEF NoDate
      <4> QED BY ONLY <4>2
    <3>7. AfterCursor(v, CursorOf(rows[PageLimit]))
      BY <3>1, <3>6 DEF AfterCursor, CursorOf, NoDate
    <3> QED BY <3>3, <3>7
  <2> QED BY <2>1, <2>2, <2>3, <2>4, <1>1, <1>2
<1>4. fetch.at = Start => \A v \in fetch.kept \cap Matching(pquery) :
                            dataset[v].b = PageBuilding(fetch)
  BY FirstPageBuilding
<1>5. fetch.pc # "idle"
  OBVIOUS
<1> QED BY <1>2, <1>3, <1>4, <1>5, PageOfSound

\* The page of two requests: the rows read first, and the undated ones.
LEMMA NullsPage ==
  ASSUME PageTypes, SearchInv, fetch.pc = "nulls", NEW rows,
         rows = fetch.rows \o Top(Undated, PageLimit + 1 - Len(fetch.rows))
  PROVE  /\ PageOf(rows) \in Pages /\ SoundPage(PageOf(rows))
         /\ PageOf(rows).at = fetch.at
<1> DEFINE l == Len(fetch.rows)
           n == PageLimit + 1 - l
           t == Top(Undated, n)
<1>1. PageLimit \in Nat /\ PageLimit > 0
  BY PageAssumption
<1>2. fetch.rows \in Seq(RowRecords) /\ l \in Nat /\ l <= PageLimit
      /\ DOMAIN fetch.rows = 1..l
  BY DEF PageTypes, Fetches, SearchInv
<1>3. /\ ~InNullPartition(fetch.at)
      /\ \A i \in 1..l : fetch.rows[i].d # NoDate /\ fetch.rows[i].b = PageBuilding(fetch)
      /\ \A v \in fetch.kept \cap Matching(pquery) :
           dataset[v].b = PageBuilding(fetch) /\ dataset[v].d # NoDate
           /\ AfterCursor(v, fetch.at) => Holds(fetch.rows, v)
  BY <1>2 DEF SearchInv
<1>4. n \in Nat
  BY <1>1, <1>2
<1>5. AreRowsOf(t, Undated, n)
  <2>1. Undated \in SUBSET InBuilding
    BY WantedFacts
  <2> HIDE DEF n
  <2> QED BY <1>4, <2>1, RowsRead
<1>6. rows = fetch.rows \o t
  OBVIOUS
<1> HIDE DEF n, t, l
<1>7. /\ t \in Seq(RowRecords) /\ Len(t) \in Nat /\ DOMAIN t = 1..Len(t)
      /\ \A i \in DOMAIN t : /\ t[i].b = PageBuilding(fetch)
                             /\ t[i].v \in Undated /\ t[i].d = dataset[t[i].v].d
      /\ Len(t) < n => \A v \in Undated : Holds(t, v)
      /\ \A k \in DOMAIN t, v \in Undated : \/ \E i \in 1..k : t[i].v = v
                                            \/ AfterCursor(v, CursorOf(t[k]))
  BY <1>5 DEF AreRowsOf
<1>8. /\ rows \in Seq(RowRecords) /\ Len(rows) = l + Len(t)
      /\ \A i \in 1..(l + Len(t)) : rows[i] = IF i <= l THEN fetch.rows[i] ELSE t[i - l]
  <2> DEFINE fr == fetch.rows
  <2>1. fr \in Seq(RowRecords) /\ l = Len(fr)
    BY <1>2 DEF l
  <2> HIDE DEF fr
  <2>2. /\ fr \o t \in Seq(RowRecords) /\ Len(fr \o t) = Len(fr) + Len(t)
        /\ \A i \in 1..(Len(fr) + Len(t)) :
             (fr \o t)[i] = IF i <= Len(fr) THEN fr[i] ELSE t[i - Len(fr)]
    BY ONLY <2>1, <1>7, ConcatProperties
  <2>3. rows = fr \o t
    BY <1>6 DEF fr
  <2>4. /\ rows \in Seq(RowRecords) /\ Len(rows) = l + Len(t)
        /\ \A i \in 1..(l + Len(t)) : rows[i] = IF i <= l THEN fr[i] ELSE t[i - l]
    BY ONLY <2>1, <2>2, <2>3
  <2> QED BY ONLY <2>4 DEF fr
<1>9. DOMAIN rows = 1..(l + Len(t)) /\ l + Len(t) \in Nat
  BY ONLY <1>2, <1>7, <1>8
<1>10. \A i \in 1..l : i \in DOMAIN rows /\ rows[i] = fetch.rows[i]
  BY ONLY <1>2, <1>7, <1>8, <1>9
<1>11. \A i \in 1..Len(t) : l + i \in DOMAIN rows /\ rows[l + i] = t[i]
  BY ONLY <1>2, <1>7, <1>8, <1>9
<1>12. \A i \in DOMAIN rows : rows[i].b = PageBuilding(fetch)
  <2> TAKE i \in DOMAIN rows
  <2>1. CASE i <= l
    <3>1. i \in 1..l
      BY ONLY <2>1, <1>2, <1>7, <1>9
    <3> QED BY ONLY <3>1, <1>3, <1>10
  <2>2. CASE ~(i <= l)
    <3>1. i - l \in 1..Len(t) /\ l + (i - l) = i
      BY ONLY <2>2, <1>2, <1>7, <1>9
    <3> QED BY ONLY <3>1, <1>7, <1>11
  <2> QED BY <2>1, <2>2
<1>13. ASSUME NEW v \in fetch.kept \cap Matching(pquery),
              dataset[v].b = PageBuilding(fetch), AfterCursor(v, fetch.at)
       PROVE  \/ \E i \in DOMAIN rows : i <= PageLimit /\ rows[i].v = v
              \/ Len(rows) > PageLimit /\ AfterCursor(v, CursorOf(rows[PageLimit]))
  <2>1. CASE dataset[v].d # NoDate
    <3>1. PICK i \in 1..l : fetch.rows[i].v = v
      BY <2>1, <1>2, <1>3, <1>13 DEF Holds
    <3>2. i <= PageLimit /\ i \in DOMAIN rows /\ rows[i].v = v
      BY ONLY <3>1, <1>1, <1>2, <1>10
    <3> QED BY <3>2
  <2>2. CASE dataset[v].d = NoDate
    <3>1. v \in Undated
      BY <2>2, <1>13 DEF Undated, InBuilding
    <3>2. CASE Len(t) < n
      <4>1. PICK i \in 1..Len(t) : t[i].v = v
        BY <3>1, <3>2, <1>7 DEF Holds
      <4>2. l + i <= PageLimit
        BY ONLY <3>2, <4>1, <1>1, <1>2, <1>7 DEF n
      <4>3. l + i \in DOMAIN rows /\ rows[l + i].v = v
        BY <4>1, <1>11
      <4> QED BY <4>2, <4>3
    <3>3. CASE ~(Len(t) < n)
      <4>1. Len(t) = n /\ Len(rows) = PageLimit + 1 /\ Len(rows) > PageLimit
        <5>1. Len(t) <= n
          BY <1>5 DEF AreRowsOf
        <5> QED BY ONLY <5>1, <3>3, <1>1, <1>2, <1>4, <1>7, <1>8 DEF n
      <4>2. CASE l = PageLimit
        <5>1. PageLimit \in 1..l /\ rows[PageLimit] = fetch.rows[PageLimit]
          BY ONLY <4>2, <1>1, <1>10
        <5>2. rows[PageLimit] \in RowRecords /\ rows[PageLimit].d # NoDate
          BY ONLY <5>1, <1>2, <1>3
        <5>3. rows[PageLimit].d \in Nat /\ rows[PageLimit].d # 0
          <6>1. rows[PageLimit].d \in Dates \cup {NoDate}
            BY <5>2 DEF RowRecords
          <6>2. Dates \subseteq Nat \ {0}
            BY PageAssumption
          <6> QED BY ONLY <5>2, <6>1, <6>2 DEF NoDate
        <5>4. AfterCursor(v, CursorOf(rows[PageLimit]))
          BY ONLY <2>2, <5>3 DEF AfterCursor, CursorOf, NoDate
        <5> QED BY <4>1, <5>4
      <4>3. CASE l # PageLimit
        <5> DEFINE k == PageLimit - l
        <5>1. k \in 1..Len(t) /\ l + k = PageLimit
          BY ONLY <4>1, <4>3, <1>1, <1>2, <1>4, <1>7 DEF n
        <5>2. rows[PageLimit] = t[k] /\ k \in DOMAIN t
          <6> HIDE DEF k
          <6> QED BY <5>1, <1>7, <1>11
        <5> HIDE DEF k
        <5>3. (\E i \in 1..k : t[i].v = v) \/ AfterCursor(v, CursorOf(t[k]))
          BY <3>1, <5>2, <1>7
        <5>4. ASSUME NEW i \in 1..k, t[i].v = v
              PROVE  l + i \in DOMAIN rows /\ l + i <= PageLimit /\ rows[l + i].v = v
          <6>1. i \in 1..Len(t) /\ l + i <= PageLimit
            BY ONLY <5>1, <1>1, <1>2, <1>7
          <6> QED BY <6>1, <5>4, <1>11
        <5> QED BY <4>1, <5>2, <5>3, <5>4
      <4> QED BY <4>2, <4>3
    <3> QED BY <3>2, <3>3
  <2> QED BY <2>1, <2>2
<1>14. fetch.at = Start => \A v \in fetch.kept \cap Matching(pquery) :
                             dataset[v].b = PageBuilding(fetch)
  BY FirstPageBuilding
<1>15. fetch.pc # "idle"
  OBVIOUS
<1> QED BY <1>8, <1>12, <1>13, <1>14, <1>15, PageOfSound

\* What the publisher's change leaves of a page.
Without(p, w) == [p EXCEPT !.kept = @ \ {w}]

\* A change of one row changes what holds of that row alone.
LEMMA OtherRows ==
  ASSUME PageTypes, NEW w \in Violations, NEW r \in Rows \cup {Gone}, Publish(w, r)
  PROVE  /\ dataset' \in Dataset /\ pquery' = pquery
         /\ \A v \in Violations \ {w} :
              /\ dataset'[v] = dataset[v]
              /\ v \in Matching(pquery)' <=> v \in Matching(pquery)
              /\ \A c : AfterCursor(v, c)' <=> AfterCursor(v, c)
<1>1. dataset \in Dataset /\ dataset' = [dataset EXCEPT ![w] = r] /\ pquery' = pquery
  BY DEF Publish, PageTypes
<1>2. dataset' \in Dataset /\ \A v \in Violations \ {w} : dataset'[v] = dataset[v]
  BY <1>1 DEF Dataset
<1>3. \A v \in Violations \ {w} :
        /\ v \in Matching(pquery)' <=> v \in Matching(pquery)
        /\ \A c : AfterCursor(v, c)' <=> AfterCursor(v, c)
  BY <1>1, <1>2 DEF Matching, AfterCursor
<1> QED BY <1>1, <1>2, <1>3

\* A page says as much of the rows that were left alone as before.
LEMMA PageShrinks ==
  ASSUME PageTypes, NEW w \in Violations, NEW r \in Rows \cup {Gone}, Publish(w, r),
         NEW p \in Pages
  PROVE  /\ Without(p, w) \in Pages
         /\ Without(p, w).at = p.at /\ Without(p, w).next = p.next
         /\ Without(p, w).records = p.records /\ Without(p, w).more = p.more
         /\ Without(p, w).select = p.select /\ Without(p, w).kept = p.kept \ {w}
         /\ SoundPage(p) => SoundPage(Without(p, w))'
<1> DEFINE q == Without(p, w)
<1>1. /\ q \in Pages /\ q.at = p.at /\ q.next = p.next /\ q.records = p.records
      /\ q.more = p.more /\ q.select = p.select /\ q.kept = p.kept \ {w}
  BY DEF Without, Pages
<1> HIDE DEF q
<1>2. ASSUME SoundPage(p) PROVE SoundPage(q)'
  <2>1. OneBuilding(q) /\ Continues(q)
    BY <1>1, <1>2 DEF SoundPage, OneBuilding, Continues
  <2>2. ASSUME ~q.select, NEW v \in q.kept, v \in Matching(pquery)'
        PROVE  Covers(q, v)'
    <3>1. v \in Violations \ {w} /\ v \in p.kept
      BY <1>1 DEF Pages
    <3>2. v \in Matching(pquery)
      BY <2>2, <3>1, OtherRows
    <3>3. Covers(p, v)
      BY <1>1, <1>2, <2>2, <3>1, <3>2 DEF SoundPage
    <3>4. dataset'[v] = dataset[v] /\ \A c : AfterCursor(v, c)' <=> AfterCursor(v, c)
      BY <3>1, OtherRows
    <3> QED BY <3>3, <3>4, <1>1 DEF Covers
  <2> QED BY <2>1, <2>2 DEF SoundPage, OneBuilding, Continues
<1> QED BY <1>1, <1>2 DEF q

\* The publisher changes a row.
LEMMA PublishInv ==
  ASSUME PagesInv, NEW w \in Violations, NEW r \in Rows \cup {Gone}, Publish(w, r)
  PROVE  PagesInv'
<1>1. /\ PageTypes /\ SearchInv /\ ExportInv
      /\ \A p \in pcache : SoundPage(p)
  BY DEF PagesInv
<1>2. /\ dataset' \in Dataset /\ pquery' = pquery
      /\ \A v \in Violations \ {w} :
           /\ dataset'[v] = dataset[v]
           /\ v \in Matching(pquery)' <=> v \in Matching(pquery)
           /\ \A c : AfterCursor(v, c)' <=> AfterCursor(v, c)
  BY <1>1, OtherRows
<1>3. \A p \in Pages :
        /\ Without(p, w) \in Pages
        /\ Without(p, w).at = p.at /\ Without(p, w).next = p.next
        /\ Without(p, w).records = p.records /\ Without(p, w).more = p.more
        /\ Without(p, w).select = p.select /\ Without(p, w).kept = p.kept \ {w}
        /\ SoundPage(p) => SoundPage(Without(p, w))'
  BY <1>1, PageShrinks
<1>4. /\ pcache \subseteq Pages /\ fetch \in Fetches /\ export \in Exports
      /\ pquery \in [b : QueriedBuildings, dated : BOOLEAN]
  BY <1>1 DEF PageTypes
<1>5. /\ pcache' = {Without(p, w) : p \in pcache}
      /\ fetch' = [fetch EXCEPT !.kept = @ \ {w}, !.old = {Without(p, w) : p \in @}]
      /\ export' = [export EXCEPT !.kept = @ \ {w},
                      !.pages = [i \in DOMAIN @ |-> Without(export.pages[i], w)]]
      /\ export.state \notin {"done", "failed"}
  <2>1. pcache' = {Without(p, w) : p \in pcache}
    BY DEF Publish, Without
  <2>2. fetch' = [fetch EXCEPT !.kept = @ \ {w}, !.old = {Without(p, w) : p \in @}]
    BY DEF Publish, Without
  <2>3. export' = [export EXCEPT !.kept = @ \ {w},
                     !.pages = [i \in DOMAIN @ |-> Without(export.pages[i], w)]]
    BY DEF Publish, Without
  <2>4. export.state \notin {"done", "failed"}
    BY DEF Publish, Ended
  <2> QED BY <2>1, <2>2, <2>3, <2>4
<1> HIDE DEF Pages
<1>6. pcache' \subseteq Pages /\ \A p \in pcache' : SoundPage(p)'
  BY <1>1, <1>3, <1>4, <1>5
<1>7. /\ fetch' \in Fetches /\ fetch'.pc = fetch.pc /\ fetch'.who = fetch.who
      /\ fetch'.at = fetch.at /\ fetch'.b = fetch.b /\ fetch'.rows = fetch.rows
      /\ fetch'.kept = fetch.kept \ {w} /\ fetch'.old = {Without(p, w) : p \in fetch.old}
  <2>1. {Without(p, w) : p \in fetch.old} \in SUBSET Pages
    BY <1>3, <1>4 DEF Fetches
  <2>2. fetch' = [fetch EXCEPT !.kept = fetch.kept \ {w},
                               !.old = {Without(p, w) : p \in fetch.old}]
    BY <1>4, <1>5 DEF Fetches
  <2> QED BY <1>4, <2>1, <2>2 DEF Fetches
<1> DEFINE pages == export.pages
           shrunk == [i \in DOMAIN pages |-> Without(pages[i], w)]
<1>8. /\ pages \in Seq(Pages) /\ shrunk \in Seq(Pages) /\ DOMAIN shrunk = DOMAIN pages
      /\ (shrunk = <<>> <=> pages = <<>>)
      /\ \A i \in DOMAIN pages : pages[i] \in Pages /\ shrunk[i] = Without(pages[i], w)
  <2>1. pages \in Seq(Pages)
    BY <1>4 DEF Exports
  <2> HIDE DEF pages
  <2>2. DOMAIN pages = 1..Len(pages) /\ Len(pages) \in Nat
        /\ \A i \in DOMAIN pages : pages[i] \in Pages
    BY <2>1
  <2>3. shrunk \in [1..Len(pages) -> Pages]
    BY <1>3, <2>2
  <2>4. shrunk \in Seq(Pages) /\ Len(shrunk) = Len(pages)
    BY <2>2, <2>3
  <2>5. pages = <<>> <=> Len(pages) = 0
    BY <2>1
  <2>6. shrunk = <<>> <=> Len(shrunk) = 0
    <3> HIDE DEF shrunk
    <3> QED BY <2>4
  <2> QED BY <2>1, <2>2, <2>4, <2>5, <2>6
<1>9. /\ export' \in Exports /\ export'.state = export.state /\ export'.pages = shrunk
      /\ export'.next = export.next /\ export'.records = export.records
  <2>1. export' = [export EXCEPT !.kept = export.kept \ {w}, !.pages = shrunk]
    BY <1>4, <1>5 DEF Exports
  <2> HIDE DEF shrunk
  <2> QED BY <1>4, <1>8, <2>1 DEF Exports
<1> HIDE DEF pages, shrunk
<1>10. PageTypes'
  BY <1>2, <1>4, <1>6, <1>7, <1>9 DEF PageTypes
<1>11. SearchInv'
  <2>1. \A p \in fetch'.old : SoundPage(p)' /\ p.at = fetch'.at
    <3>1. fetch.old \subseteq Pages
      BY <1>4 DEF Fetches
    <3> QED BY <1>1, <1>3, <1>7, <3>1 DEF SearchInv
  <2>2. PageBuilding(fetch)' = PageBuilding(fetch)
    BY <1>2, <1>7 DEF PageBuilding
  <2>3. /\ fetch'.pc # "idle" => \/ /\ export'.state = "running"
                                    /\ fetch'.who = "export" /\ fetch'.at = export'.next
                                 \/ fetch'.who = "user" /\ export'.state = "none"
        /\ fetch'.pc = "resolve" => fetch'.at = Start /\ pquery'.b = ByAddress
    BY <1>1, <1>2, <1>7, <1>9 DEF SearchInv
  <2>4. \A v \in fetch'.kept : v \in Violations \ {w} /\ v \in fetch.kept
    BY <1>4, <1>7 DEF Fetches
  <2>5. fetch'.pc \in {"rows", "nulls"} /\ fetch'.at = Start /\ pquery'.b = ByAddress =>
          \A v \in fetch'.kept : dataset'[v] # Gone => dataset'[v].b = fetch'.b
    BY <1>1, <1>2, <1>7, <2>4 DEF SearchInv
  <2>6. ASSUME fetch'.pc = "nulls"
        PROVE  /\ ~InNullPartition(fetch'.at) /\ Len(fetch'.rows) <= PageLimit
               /\ \A i \in DOMAIN fetch'.rows : fetch'.rows[i].d # NoDate
                                       /\ fetch'.rows[i].b = PageBuilding(fetch)'
               /\ \A v \in fetch'.kept \cap Matching(pquery)' :
                    dataset'[v].b = PageBuilding(fetch)' /\ dataset'[v].d # NoDate
                    /\ AfterCursor(v, fetch.at)' => Holds(fetch'.rows, v)
    <3>1. /\ ~InNullPartition(fetch.at) /\ Len(fetch.rows) <= PageLimit
          /\ \A i \in DOMAIN fetch.rows : fetch.rows[i].d # NoDate
                                          /\ fetch.rows[i].b = PageBuilding(fetch)
          /\ \A v \in fetch.kept \cap Matching(pquery) :
               dataset[v].b = PageBuilding(fetch) /\ dataset[v].d # NoDate
               /\ AfterCursor(v, fetch.at) => Holds(fetch.rows, v)
      BY <1>1, <1>7, <2>6 DEF SearchInv
    <3>2. \A v \in fetch'.kept : AfterCursor(v, fetch.at)' <=> AfterCursor(v, fetch.at)
      <4>1. \A v \in Violations \ {w} : dataset'[v] = dataset[v]
        BY <1>2
      <4> QED BY <2>4, <4>1, <1>7 DEF AfterCursor
    <3> QED BY <1>2, <1>7, <2>2, <2>4, <3>1, <3>2
  <2> QED BY <2>1, <2>3, <2>5, <2>6 DEF SearchInv, InNullPartition, Holds
<1>12. ExportInv'
  <2>1. \A i \in DOMAIN shrunk : /\ shrunk[i].records = pages[i].records
                                 /\ shrunk[i].kept = pages[i].kept \ {w}
    BY <1>3, <1>8
  <2>2. /\ export'.state # "running" => export'.pages = <<>>
        /\ export'.state # "done" => export'.records = <<>>
        /\ export'.pages # <<>> => export'.next # Start
        /\ export'.state \in {"none", "running"} /\ export'.pages = <<>> => export'.next = Start
    BY <1>1, <1>8, <1>9 DEF ExportInv, pages
  <2>3. \A i \in DOMAIN export'.pages : \A k \in DOMAIN export'.pages[i].records :
          export'.pages[i].records[k].b = export'.next.b
    BY <1>1, <1>8, <1>9, <2>1 DEF ExportInv, pages
  <2>4. ASSUME export'.state = "running", NEW v \in KeptByAll(export'.pages),
               v \in Matching(pquery)'
        PROVE  Ahead(export.pages, export.next, v)'
    <3>1. CASE pages = <<>>
      <4>1. export'.next = Start /\ export'.pages = <<>>
        BY <3>1, <2>2, <2>4, <1>8, <1>9
      <4> QED BY <4>1 DEF Ahead, AfterCursor
    <3>2. CASE pages # <<>>
      <4>1. 1 \in DOMAIN pages
        BY <3>2, <1>8
      <4>2. v \in KeptByAll(pages) /\ v \in Violations \ {w}
        BY <4>1, <1>8, <1>9, <2>1 DEF KeptByAll
      <4>3. v \in Matching(pquery) /\ dataset'[v] = dataset[v]
        BY <4>2, <2>4, <1>2
      <4>4. Ahead(pages, export.next, v)
        BY <4>2, <4>3, <2>4, <1>1, <1>9 DEF ExportInv, pages
      <4>5. Listed(shrunk, v) <=> Listed(pages, v)
        BY <1>8, <2>1 DEF Listed
      <4> QED BY <4>3, <4>4, <4>5, <1>8, <1>9 DEF Ahead, AfterCursor
    <3> QED BY <3>1, <3>2
  <2> QED BY <2>2, <2>3, <2>4 DEF ExportInv, KeptByAll
<1>13. ExportIsExact'
  <2>1. export.records = <<>> /\ export.state # "done"
    BY <1>1, <1>5 DEF ExportInv
  <2> QED BY <2>1, <1>9 DEF ExportIsExact
<1> QED BY <1>6, <1>10, <1>11, <1>12, <1>13 DEF PagesInv

\* What holds of the export holds while neither it nor the rows change.
LEMMA ExportStays ==
  ASSUME PagesInv, UNCHANGED <<dataset, pquery, export>>
  PROVE  export' \in Exports /\ ExportInv' /\ ExportIsExact'
<1>1. Matching(pquery)' = Matching(pquery)
  BY DEF Matching
<1>2. \A v : Ahead(export.pages, export.next, v)' <=> Ahead(export.pages, export.next, v)
  BY DEF Ahead, AfterCursor
<1>3. ExportInv'
  BY <1>1, <1>2 DEF ExportInv, PagesInv, KeptByAll
<1>4. ExportIsExact'
  BY <1>1 DEF ExportIsExact, PagesInv
<1> QED BY <1>3, <1>4 DEF PagesInv, PageTypes

\* When no search is under way nothing is asked of one.
LEMMA IdleInv ==
  ASSUME fetch' = Idle
  PROVE  fetch' \in Fetches /\ SearchInv'
<1>1. Idle \in Fetches /\ Idle.pc = "idle" /\ Idle.old = {}
  BY DEF Idle, Fetches, Cursors
<1> QED BY <1>1 DEF SearchInv

\* The cache holds what pages say.
LEMMA CacheStays ==
  ASSUME PagesInv, UNCHANGED <<dataset, pquery>>, NEW T, T \subseteq pcache
  PROVE  T \subseteq Pages /\ \A p \in T : SoundPage(p)'
<1>1. pcache \subseteq Pages /\ \A p \in pcache : SoundPage(p)
  BY DEF PagesInv, PageTypes
<1> QED BY <1>1, SoundPageStays

\* A search ends with a page.
LEMMA FinishInv ==
  ASSUME PagesInv, fetch.pc # "idle", UNCHANGED <<dataset, pquery>>,
         NEW p \in Pages, SoundPage(p), p.at = fetch.at, FinishFetch(p)
  PROVE  PagesInv'
<1>1. PageTypes /\ SearchInv /\ ExportInv
  BY DEF PagesInv
<1>2. fetch' \in Fetches /\ SearchInv'
  BY IdleInv DEF FinishFetch
<1>3. pcache' \subseteq Pages /\ \A q \in pcache' : SoundPage(q)'
  <2>1. pcache \ Cached(p.at) \subseteq Pages
        /\ \A q \in pcache \ Cached(p.at) : SoundPage(q)'
    BY CacheStays
  <2>2. SoundPage(p)'
    BY SoundPageStays
  <2> QED BY <2>1, <2>2 DEF FinishFetch
<1>4. export' \in Exports /\ ExportInv' /\ ExportIsExact'
  <2>1. CASE fetch.who = "export"
    <3>1. export.state = "running" /\ p.at = export.next
      BY <1>1, <2>1 DEF SearchInv
    <3>2. TakePage(p)
      BY <2>1 DEF FinishFetch, Deliver
    <3> QED BY <1>1, <3>1, <3>2, TakePageInv
  <2>2. CASE fetch.who # "export"
    <3>1. export' = export
      BY <2>2 DEF FinishFetch, Deliver
    <3> QED BY <3>1, ExportStays
  <2> QED BY <2>1, <2>2
<1>5. dataset' \in Dataset /\ pquery' \in [b : QueriedBuildings, dated : BOOLEAN]
  BY <1>1 DEF PageTypes
<1> QED BY <1>2, <1>3, <1>4, <1>5 DEF PagesInv, PageTypes

\* A search that is not under way stays sound.
LEMMA RestingInv ==
  ASSUME PagesInv, fetch.pc = "idle", UNCHANGED <<dataset, pquery, fetch>>
  PROVE  fetch' \in Fetches /\ SearchInv'
<1>1. /\ fetch \in Fetches /\ \A p \in fetch.old : SoundPage(p) /\ p.at = fetch.at
  BY DEF PagesInv, PageTypes, SearchInv
<1>2. \A p \in fetch.old : SoundPage(p)'
  BY <1>1, SoundPageStays
<1> QED BY <1>1, <1>2 DEF SearchInv

\* A search stays sound while nothing it looks at changes.
LEMMA SearchStays ==
  ASSUME PagesInv, UNCHANGED <<dataset, pquery, fetch, export>>
  PROVE  fetch' \in Fetches /\ SearchInv'
<1>1. fetch \in Fetches /\ SearchInv
  BY DEF PagesInv, PageTypes
<1>2. \A p \in fetch.old : SoundPage(p)'
  BY <1>1, SoundPageStays DEF SearchInv
<1>3. Matching(pquery)' = Matching(pquery) /\ PageBuilding(fetch)' = PageBuilding(fetch)
      /\ \A v : AfterCursor(v, fetch.at)' <=> AfterCursor(v, fetch.at)
  BY DEF Matching, PageBuilding, AfterCursor
<1> QED BY <1>1, <1>2, <1>3 DEF SearchInv, InNullPartition

\* The address is resolved: to one building, or to a page without rows.
LEMMA ResolveInv ==
  ASSUME PagesInv, Resolve
  PROVE  PagesInv'
<1> DEFINE found == {dataset[v].b : v \in {v \in Violations : dataset[v] # Gone}}
           p == [NoPage EXCEPT !.at = fetch.at, !.fresh = TRUE,
                   !.select = found # {}, !.kept = fetch.kept]
<1>1. /\ PageTypes /\ SearchInv /\ ExportInv /\ fetch.pc = "resolve"
      /\ UNCHANGED <<dataset, pquery>> /\ fetch \in Fetches
  BY DEF PagesInv, Resolve, PageTypes
<1>2. CASE Cardinality(found) = 1
  <2>1. PICK b \in found : fetch' = [fetch EXCEPT !.pc = "rows", !.b = b]
    BY <1>2 DEF Resolve
  <2>2. pcache' = pcache /\ export' = export
    BY <1>2 DEF Resolve
  <2>3. \A v \in Violations : dataset[v] # Gone => dataset[v].b = b
    <3>1. IsFiniteSet(found)
      <4> DEFINE T == {v \in Violations : dataset[v] # Gone}
                 f == [v \in T |-> dataset[v].b]
      <4>1. IsFiniteSet(T)
        BY PageAssumption, FS_Subset
      <4>2. f \in Surjection(T, found)
        BY DEF Surjection
      <4> HIDE DEF T, f, found
      <4> QED BY <4>1, <4>2, FS_Surjection
    <3>2. PICK x : found = {x}
      <4> HIDE DEF found
      <4> QED BY <1>2, <3>1, FS_Singleton
    <3> QED BY <2>1, <3>2
  <2>4. b \in Buildings
    <3>1. PICK v \in Violations : dataset[v] # Gone /\ b = dataset[v].b
      OBVIOUS
    <3>2. dataset[v] \in Rows
      BY <3>1, <1>1 DEF PageTypes, Dataset
    <3> QED BY <3>1, <3>2 DEF Rows
  <2>5. /\ fetch' \in Fetches /\ fetch'.pc = "rows" /\ fetch'.at = fetch.at /\ fetch'.b = b
        /\ fetch'.who = fetch.who /\ fetch'.old = fetch.old /\ fetch'.kept = fetch.kept
    BY <1>1, <2>1, <2>4 DEF Fetches
  <2>6. \A q \in fetch.old : SoundPage(q)' /\ q.at = fetch.at
    BY <1>1, SoundPageStays DEF SearchInv
  <2>7. \A v \in fetch.kept : v \in Violations
    BY <1>1 DEF Fetches
  <2>8. SearchInv'
    BY <1>1, <2>2, <2>3, <2>5, <2>6, <2>7 DEF SearchInv
  <2>9. pcache' \subseteq Pages /\ \A q \in pcache' : SoundPage(q)'
    BY <1>1, <2>2, CacheStays
  <2>10. export' \in Exports /\ ExportInv' /\ ExportIsExact'
    BY <1>1, <2>2, ExportStays
  <2> QED BY <1>1, <2>5, <2>8, <2>9, <2>10 DEF PagesInv, PageTypes
<1>3. CASE Cardinality(found) # 1
  <2>1. FinishFetch(p)
    BY <1>3 DEF Resolve
  <2>2. p = [at |-> fetch.at, records |-> <<>>, next |-> Start, more |-> FALSE,
             select |-> (found # {}), fresh |-> TRUE, kept |-> fetch.kept]
    <3> DEFINE some == found # {}
    <3>1. p = [NoPage EXCEPT !.at = fetch.at, !.fresh = TRUE, !.select = some,
                 !.kept = fetch.kept]
      OBVIOUS
    <3> HIDE DEF some, p
    <3>2. p = [at |-> fetch.at, records |-> <<>>, next |-> Start, more |-> FALSE,
               select |-> some, fresh |-> TRUE, kept |-> fetch.kept]
      BY <3>1 DEF NoPage
    <3> QED BY <3>2 DEF some
  <2>3. fetch.at \in Cursors /\ Start \in Cursors /\ fetch.kept \in SUBSET Violations
        /\ (found # {}) \in BOOLEAN /\ <<>> \in Seq(RowRecords)
    BY <1>1 DEF Fetches, Cursors
  <2> HIDE DEF p
  <2>4. p \in Pages
    <3> HIDE DEF found
    <3> QED BY <2>2, <2>3 DEF Pages
  <2>5. /\ p.at = fetch.at /\ p.records = <<>> /\ p.more = FALSE
        /\ p.select = (found # {})
    BY <2>2
  <2>6. ~p.select => Matching(pquery) = {}
    BY <2>5 DEF Matching
  <2>7. SoundPage(p)
    <3>1. OneBuilding(p) /\ Continues(p)
      BY ONLY <2>5 DEF OneBuilding, Continues
    <3>2. ~p.select => \A v \in p.kept \cap Matching(pquery) : Covers(p, v)
      BY ONLY <2>6
    <3> QED BY ONLY <3>1, <3>2 DEF SoundPage
  <2> QED BY <1>1, <2>1, <2>4, <2>5, <2>7, FinishInv
<1> QED BY <1>2, <1>3

\* The rows of a page are read.
LEMMA ReadRowsInv ==
  ASSUME PagesInv, ReadRows
  PROVE  PagesInv'
<1> DEFINE rows == Top(Wanted, PageLimit + 1)
<1>1. /\ PageTypes /\ SearchInv /\ fetch.pc = "rows"
      /\ UNCHANGED <<dataset, pquery>> /\ fetch \in Fetches
  BY DEF PagesInv, ReadRows, PageTypes
<1>2. PageLimit \in Nat /\ PageLimit + 1 \in Nat
  BY PageAssumption
<1>3. AreRowsOf(rows, Wanted, PageLimit + 1)
  BY <1>1, <1>2, WantedFacts, RowsRead
<1>4. CASE ~InNullPartition(fetch.at) /\ Len(rows) <= PageLimit /\ ~pquery.dated
  <2>1. fetch' = [fetch EXCEPT !.pc = "nulls", !.rows = rows]
        /\ pcache' = pcache /\ export' = export
    BY <1>4 DEF ReadRows
  <2> HIDE DEF rows
  <2>2. /\ rows \in Seq(RowRecords) /\ Len(rows) \in Nat
        /\ \A i \in DOMAIN rows : /\ rows[i].b = PageBuilding(fetch)
                                  /\ rows[i].v \in Wanted /\ rows[i].d = dataset[rows[i].v].d
        /\ Len(rows) < PageLimit + 1 => \A v \in Wanted : Holds(rows, v)
    BY <1>3 DEF AreRowsOf
  <2>3. /\ fetch' \in Fetches /\ fetch'.pc = "nulls" /\ fetch'.at = fetch.at
        /\ fetch'.b = fetch.b /\ fetch'.rows = rows
        /\ fetch'.who = fetch.who /\ fetch'.old = fetch.old /\ fetch'.kept = fetch.kept
    BY <1>1, <2>1, <2>2 DEF Fetches
  <2>4. \A q \in fetch.old : SoundPage(q)' /\ q.at = fetch.at
    BY <1>1, SoundPageStays DEF SearchInv
  <2>5. Matching(pquery)' = Matching(pquery) /\ PageBuilding(fetch)' = PageBuilding(fetch)
        /\ \A v : AfterCursor(v, fetch.at)' <=> AfterCursor(v, fetch.at)
    BY <1>1, <2>3 DEF Matching, PageBuilding, AfterCursor
  <2>6. \A i \in DOMAIN rows : rows[i].d # NoDate /\ rows[i].b = PageBuilding(fetch)
    BY <1>1, <1>4, <2>2, WantedFacts
  <2>7. ASSUME NEW v \in fetch.kept \cap Matching(pquery), dataset[v].b = PageBuilding(fetch),
               dataset[v].d # NoDate, AfterCursor(v, fetch.at)
        PROVE  Holds(rows, v)
    <3>1. v \in Wanted
      BY <1>1, <2>7, WantedFacts
    <3>2. Len(rows) < PageLimit + 1
      BY <1>2, <1>4, <2>2
    <3> QED BY <2>2, <3>1, <3>2
  <2>8. /\ fetch.at = Start /\ pquery.b = ByAddress =>
             \A v \in fetch.kept : dataset[v] # Gone => dataset[v].b = fetch.b
        /\ \/ /\ export.state = "running" /\ fetch.who = "export" /\ fetch.at = export.next
           \/ fetch.who = "user" /\ export.state = "none"
    BY <1>1 DEF SearchInv
  <2>9. SearchInv'
    BY <1>1, <1>4, <2>1, <2>3, <2>4, <2>5, <2>6, <2>7, <2>8 DEF SearchInv, InNullPartition
  <2>10. pcache' \subseteq Pages /\ \A q \in pcache' : SoundPage(q)'
    BY <1>1, <2>1, CacheStays
  <2>11. export' \in Exports /\ ExportInv' /\ ExportIsExact'
    BY <1>1, <2>1, ExportStays
  <2> QED BY <1>1, <2>3, <2>9, <2>10, <2>11 DEF PagesInv, PageTypes
<1>5. CASE ~(~InNullPartition(fetch.at) /\ Len(rows) <= PageLimit /\ ~pquery.dated)
  <2>1. FinishFetch(PageOf(rows))
    BY <1>5 DEF ReadRows
  <2>2. Len(rows) \in Nat
    BY <1>3 DEF AreRowsOf
  <2>3. InNullPartition(fetch.at) \/ Len(rows) > PageLimit \/ pquery.dated
    <3> HIDE DEF rows
    <3> QED BY <1>2, <1>5, <2>2
  <2>4. /\ PageOf(rows) \in Pages /\ SoundPage(PageOf(rows)) /\ PageOf(rows).at = fetch.at
    BY <1>1, <2>3, RowsPage
  <2> HIDE DEF rows
  <2> QED BY <1>1, <2>1, <2>4, FinishInv
<1> QED BY <1>4, <1>5

\* The undated rows of a page are read.
LEMMA ReadNullsInv ==
  ASSUME PagesInv, ReadNulls
  PROVE  PagesInv'
<1> DEFINE rows == fetch.rows \o Top(Undated, PageLimit + 1 - Len(fetch.rows))
<1>1. /\ PageTypes /\ SearchInv /\ fetch.pc = "nulls"
      /\ UNCHANGED <<dataset, pquery>> /\ FinishFetch(PageOf(rows))
  BY DEF PagesInv, ReadNulls
<1>2. /\ PageOf(rows) \in Pages /\ SoundPage(PageOf(rows)) /\ PageOf(rows).at = fetch.at
  BY <1>1, NullsPage
<1> HIDE DEF rows
<1> QED BY <1>1, <1>2, FinishInv

\* A search fails: a stale page stands in, or the export is interrupted.
LEMMA FetchFailsInv ==
  ASSUME PagesInv, FetchFails
  PROVE  PagesInv'
<1> DEFINE usable == {p \in fetch.old : p.records # <<>> \/ p.select}
<1>1. /\ PageTypes /\ SearchInv /\ ExportInv /\ fetch.pc # "idle" /\ fetch' = Idle
      /\ UNCHANGED <<dataset, pquery, pcache>> /\ fetch \in Fetches
  BY DEF PagesInv, FetchFails, PageTypes
<1>2. fetch' \in Fetches /\ SearchInv'
  BY <1>1, IdleInv
<1>3. pcache' \subseteq Pages /\ \A q \in pcache' : SoundPage(q)'
  BY <1>1, CacheStays
<1>4. export' \in Exports /\ ExportInv' /\ ExportIsExact'
  <2>1. CASE fetch.who = "user"
    <3>1. export' = export
      BY <2>1 DEF FetchFails
    <3> QED BY <1>1, <3>1, ExportStays
  <2>2. CASE fetch.who # "user" /\ usable # {}
    <3>1. PICK p \in usable : TakePage(p)
      BY <2>2 DEF FetchFails
    <3>2. p \in Pages /\ SoundPage(p) /\ p.at = fetch.at
      BY <1>1 DEF SearchInv, Fetches
    <3>3. export.state = "running" /\ fetch.at = export.next
      BY <1>1, <2>2 DEF SearchInv
    <3> QED BY <1>1, <3>1, <3>2, <3>3, TakePageInv
  <2>3. CASE fetch.who # "user" /\ usable = {}
    <3>1. InterruptExport
      BY <2>3 DEF FetchFails
    <3>2. export.state = "running"
      BY <1>1, <2>3 DEF SearchInv
    <3> QED BY <1>1, <3>1, <3>2, InterruptInv
  <2> QED BY <2>1, <2>2, <2>3
<1> QED BY <1>1, <1>2, <1>3, <1>4 DEF PagesInv, PageTypes

\* A search begins.
LEMMA BeginFetchInv ==
  ASSUME PagesInv, NEW s \in Searches, NEW refresh \in BOOLEAN, BeginFetch(s, refresh)
  PROVE  PagesInv'
<1>1. /\ PageTypes /\ fetch.pc = "idle" /\ export \in Exports
      /\ UNCHANGED <<dataset, pquery, pcache, export>>
      /\ pcache \subseteq Pages /\ \A p \in pcache : SoundPage(p)
      /\ export.state \notin {"done", "failed"}
  BY DEF PagesInv, BeginFetch, PageTypes, Ended
<1>2. /\ s.at \in Cursors
      /\ \/ s.who = "export" /\ s.at = export.next /\ export.state = "running"
         \/ s.who = "user" /\ export.state = "none"
  <2>1. CASE export.state = "running"
    <3>1. s = [who |-> "export", at |-> export.next]
      BY <2>1 DEF Searches
    <3> QED BY <2>1, <3>1, <1>1 DEF Exports
  <2>2. CASE export.state # "running"
    <3>1. PICK c \in {Start} \cup {p.next : p \in pcache} : s = [who |-> "user", at |-> c]
      BY <2>2 DEF Searches
    <3>2. c \in Cursors
      BY <1>1 DEF Pages, Cursors
    <3>3. export.state = "none"
      BY <1>1, <2>2 DEF Exports
    <3> QED BY <3>1, <3>2, <3>3
  <2> QED BY <2>1, <2>2
<1>3. Cached(s.at) \in SUBSET Pages /\ \A p \in Cached(s.at) : SoundPage(p) /\ p.at = s.at
  BY <1>1 DEF Cached
<1> DEFINE pc == IF pquery.b = ByAddress /\ s.at = Start THEN "resolve" ELSE "rows"
<1>4. fetch' = [Idle EXCEPT !.pc = pc, !.who = s.who, !.at = s.at, !.kept = Violations,
                            !.old = Cached(s.at)]
  BY DEF BeginFetch
<1>5. pc \in {"resolve", "rows"} /\ (pc = "resolve" <=> pquery.b = ByAddress /\ s.at = Start)
  OBVIOUS
<1> HIDE DEF pc
<1>6. fetch' = [pc |-> pc, who |-> s.who, at |-> s.at, b |-> "none", rows |-> <<>>,
                kept |-> Violations, old |-> Cached(s.at)]
  BY <1>4 DEF Idle
<1>7. /\ fetch'.pc = pc /\ fetch'.who = s.who /\ fetch'.at = s.at /\ fetch'.old = Cached(s.at)
  BY <1>6
<1>8. fetch' \in Fetches
  <2>1. <<>> \in Seq(RowRecords) /\ Violations \in SUBSET Violations
    OBVIOUS
  <2> HIDE DEF Pages
  <2> QED BY <1>2, <1>3, <1>5, <1>6, <2>1 DEF Fetches
<1>9. SearchInv'
  <2>1. \A p \in fetch'.old : SoundPage(p)' /\ p.at = fetch'.at
    BY <1>1, <1>3, <1>7, SoundPageStays
  <2>2. \/ /\ export'.state = "running" /\ fetch'.who = "export" /\ fetch'.at = export'.next
        \/ fetch'.who = "user" /\ export'.state = "none"
    BY <1>1, <1>2, <1>7
  <2>3. pquery' = pquery
    BY <1>1
  <2> QED BY <2>1, <2>2, <2>3, <1>5, <1>7 DEF SearchInv
<1>10. export' \in Exports /\ ExportInv' /\ ExportIsExact'
  BY <1>1, ExportStays
<1>11. pcache' \subseteq Pages /\ \A q \in pcache' : SoundPage(q)'
  BY <1>1, CacheStays
<1> QED BY <1>1, <1>8, <1>9, <1>10, <1>11 DEF PagesInv, PageTypes

\* A page is found in the cache, the export begins or is stopped.
LEMMA ExportStepInv ==
  ASSUME PagesInv, StartExport \/ StopExport \/ \E s \in Searches : FreshHit(s)
  PROVE  PagesInv'
<1>1. /\ PageTypes /\ SearchInv /\ ExportInv /\ ExportIsExact /\ fetch.pc = "idle"
      /\ UNCHANGED <<dataset, pquery, pcache, fetch>>
      /\ export \in Exports /\ pcache \subseteq Pages
  BY DEF PagesInv, PageTypes, StartExport, StopExport, FreshHit
<1>2. fetch' \in Fetches /\ SearchInv'
  BY <1>1, RestingInv
<1>3. pcache' \subseteq Pages /\ \A q \in pcache' : SoundPage(q)'
  BY <1>1, CacheStays
<1>4. CASE StartExport
  <2>1. export' = [export EXCEPT !.state = "running"] /\ export.state = "none"
    BY <1>4 DEF StartExport
  <2>2. /\ export' \in Exports /\ export'.state = "running" /\ export'.pages = export.pages
        /\ export'.next = export.next /\ export'.records = export.records
    BY <1>1, <2>1 DEF Exports
  <2>3. export.pages = <<>> /\ export.next = Start /\ export.records = <<>>
    BY <1>1, <2>1 DEF ExportInv
  <2>4. \A v : Ahead(export.pages, export.next, v)'
    BY <2>2, <2>3 DEF Ahead, AfterCursor
  <2>5. ExportInv'
    BY <2>2, <2>3, <2>4 DEF ExportInv
  <2>6. ExportIsExact'
    BY <2>2, <2>3 DEF ExportIsExact
  <2> QED BY <1>1, <1>2, <1>3, <2>2, <2>5, <2>6 DEF PagesInv, PageTypes
<1>5. CASE StopExport
  <2>1. export' \in Exports /\ ExportInv' /\ ExportIsExact'
    BY <1>1, <1>5, InterruptInv DEF StopExport
  <2> QED BY <1>1, <1>2, <1>3, <2>1 DEF PagesInv, PageTypes
<1>6. CASE \E s \in Searches : FreshHit(s)
  <2>1. PICK s \in Searches : FreshHit(s)
    BY <1>6
  <2>2. s.who = "export" /\ \E p \in Cached(s.at) : Deliver(s.who, p)
    BY <2>1 DEF FreshHit
  <2>3. PICK p \in Cached(s.at) : TakePage(p)
    BY <2>2 DEF Deliver
  <2>4. export.state = "running" /\ s.at = export.next
    BY <2>2 DEF Searches
  <2>5. p \in Pages /\ SoundPage(p) /\ p.at = export.next
    BY <1>1, <2>4 DEF Cached, PagesInv
  <2>6. export' \in Exports /\ ExportInv' /\ ExportIsExact'
    BY <1>1, <2>3, <2>4, <2>5, TakePageInv
  <2> QED BY <1>1, <1>2, <1>3, <2>6 DEF PagesInv, PageTypes
<1> QED BY <1>4, <1>5, <1>6

\* A page grows old.
LEMMA LapseInv ==
  ASSUME PagesInv, NEW p \in pcache, Lapse(p)
  PROVE  PagesInv'
<1> DEFINE q == [p EXCEPT !.fresh = FALSE]
<1>1. /\ PageTypes /\ UNCHANGED <<dataset, pquery, fetch, export>>
      /\ p \in Pages /\ SoundPage(p)
      /\ pcache' \subseteq (pcache \ {p}) \cup {q}
  BY DEF PagesInv, Lapse, PageTypes
<1>2. /\ q \in Pages /\ q.at = p.at /\ q.next = p.next /\ q.records = p.records
      /\ q.more = p.more /\ q.select = p.select /\ q.kept = p.kept
  BY <1>1 DEF Pages
<1> HIDE DEF q
<1>3. SoundPage(q)
  BY <1>1, <1>2 DEF SoundPage, OneBuilding, Continues, Covers
<1>4. SoundPage(q)'
  BY <1>1, <1>3, SoundPageStays
<1>5. pcache \ {p} \subseteq Pages /\ \A x \in pcache \ {p} : SoundPage(x)'
  BY <1>1, CacheStays
<1>6. pcache' \subseteq Pages /\ \A x \in pcache' : SoundPage(x)'
  BY <1>1, <1>2, <1>4, <1>5
<1>7. fetch' \in Fetches /\ SearchInv'
  BY <1>1, SearchStays
<1>8. export' \in Exports /\ ExportInv' /\ ExportIsExact'
  BY <1>1, ExportStays
<1> QED BY <1>1, <1>6, <1>7, <1>8 DEF PagesInv, PageTypes

\* Every page that is cached, delivered or strung into an export lists what it
\* claims: at all times the rows left alone are listed so far, or lie ahead of
\* the export's cursor in its building.
THEOREM PagesInvariance == Spec_Pages => []PagesInv
<1>1. Init_Pages => PagesInv
  <2> SUFFICES ASSUME Init_Pages PROVE PagesInv
    OBVIOUS
  <2>1. /\ Idle \in Fetches /\ Idle.pc = "idle" /\ Idle.old = {}
    BY DEF Idle, Fetches, Cursors
  <2>2. /\ export \in Exports /\ export.state = "none" /\ export.pages = <<>>
        /\ export.next = Start /\ export.records = <<>>
    <3>1. export = [state |-> "none", pages |-> <<>>, next |-> Start,
                    complete |-> FALSE, records |-> <<>>, kept |-> Violations]
      BY DEF Init_Pages
    <3>2. /\ <<>> \in Seq(Pages) /\ <<>> \in Seq(RowRecords) /\ Start \in Cursors
          /\ Violations \in SUBSET Violations
      BY DEF Cursors
    <3> HIDE DEF Pages
    <3> QED BY <3>1, <3>2 DEF Exports
  <2>3. PageTypes
    BY <2>1, <2>2 DEF Init_Pages, PageTypes, Dataset
  <2>4. SearchInv
    BY <2>1 DEF Init_Pages, SearchInv
  <2>5. ExportInv /\ ExportIsExact
    BY <2>2 DEF ExportInv, ExportIsExact
  <2>6. pcache = {}
    BY DEF Init_Pages
  <2> QED BY <2>3, <2>4, <2>5, <2>6 DEF PagesInv
<1>2. PagesInv /\ [Next_Pages]_pageVars => PagesInv'
  <2> SUFFICES ASSUME PagesInv, [Next_Pages]_pageVars PROVE PagesInv'
    OBVIOUS
  <2>1. CASE \E v \in Violations, r \in Rows \cup {Gone} : Publish(v, r)
    BY <2>1, PublishInv
  <2>2. CASE \E p \in pcache : Lapse(p)
    BY <2>2, LapseInv
  <2>3. CASE StartExport \/ StopExport \/ \E s \in Searches : FreshHit(s)
    BY <2>3, ExportStepInv
  <2>4. CASE \E s \in Searches : \E refresh \in BOOLEAN : BeginFetch(s, refresh)
    BY <2>4, BeginFetchInv
  <2>5. CASE Resolve
    BY <2>5, ResolveInv
  <2>6. CASE ReadRows
    BY <2>6, ReadRowsInv
  <2>7. CASE ReadNulls
    BY <2>7, ReadNullsInv
  <2>8. CASE FetchFails
    BY <2>8, FetchFailsInv
  <2>9. CASE UNCHANGED pageVars
    <3>1. UNCHANGED <<dataset, pquery, pcache, fetch, export>>
      BY <2>9 DEF pageVars
    <3>2. pcache' \subseteq Pages /\ \A x \in pcache' : SoundPage(x)'
      BY <3>1, CacheStays
    <3> QED BY <3>1, <3>2, SearchStays, ExportStays DEF PagesInv, PageTypes
  <2> QED BY <2>1, <2>2, <2>3, <2>4, <2>5, <2>6, <2>7, <2>8, <2>9 DEF Next_Pages
<1> QED BY <1>1, <1>2, PTL DEF Spec_Pages

\* An export lists no row twice and rows of one building only, and when it says
\* it is complete it holds every row of its query that was left alone since its
\* oldest page was asked for: for any rows, page size, cached and stale pages
\* and changes in between.
THEOREM ExportsAreExact == Spec_Pages => []ExportIsExact
<1>1. PagesInv => ExportIsExact
  BY DEF PagesInv
<1> QED BY <1>1, PagesInvariance, PTL
=============================================================================
