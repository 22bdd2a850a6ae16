-------------------------- MODULE PropertyDossiers --------------------------
(***************************************************************************)
(* Confirmed property identities and dated observations of them            *)
(* (research/dossiers.py, the endpoints of local_app.py).                  *)
(*                                                                         *)
(* An identity belongs to an address; every later resolution of the        *)
(* address writes the building the user confirmed then.  A dossier reads   *)
(* the identity, awaits a search for its building, and reads the identity  *)
(* again before it records what it found.                                  *)
(***************************************************************************)
EXTENDS Naturals

CONSTANTS Addresses, HpdBuildings, DossierRequests, MaxRevision

NoBuilding == "no building"
ASSUME DossiersAssumption == NoBuilding \notin HpdBuildings

VARIABLES identity,     \* property_identities, by normalized address
          request,      \* a dossier request in progress
          observations  \* dossier_observations
dossierVars == <<identity, request, observations>>

NoDossier == [at |-> "idle", address |-> CHOOSE a \in Addresses : TRUE,
              asked |-> NoBuilding, found |-> {}]

Init_Dossiers ==
  /\ identity = [a \in Addresses |-> [building |-> NoBuilding, revision |-> 0]]
  /\ request = [r \in DossierRequests |-> NoDossier]
  /\ observations = {}

(* resolve: the one candidate, or the confirmed one, becomes the identity   *)
(* of its address; without one the user has to choose and nothing changes.  *)
ResolveIdentity(a, b) ==
  /\ identity[a].revision < MaxRevision
  /\ identity' = [identity EXCEPT ![a] = [building |-> b, revision |-> @.revision + 1]]
  /\ UNCHANGED <<request, observations>>

(* POST /properties/{id}/dossiers: the building to ask for. *)
AskForDossier(r, a) ==
  /\ request[r].at = "idle" /\ identity[a].revision > 0
  /\ request' = [request EXCEPT ![r] = [at |-> "asked", address |-> a,
                                        asked |-> identity[a].building, found |-> {}]]
  /\ UNCHANGED <<identity, observations>>

(* The search returns the records and the candidates of the building asked  *)
(* for; a source that knows it by another number returns that.              *)
ReceiveRecords(r, bs) ==
  /\ request[r].at = "asked"
  /\ request' = [request EXCEPT ![r].at = "found", ![r].found = bs]
  /\ UNCHANGED <<identity, observations>>

\* Mutant: the records are checked against the building that was asked for.
IsOfConfirmedWhenAsked(r, building) == request[r].found \subseteq {request[r].asked}

(* create_observation's check: the query and every row and candidate are of *)
(* the building of the identity as it is now.                               *)
IsOfConfirmed(r, building) ==
  request[r].asked = building /\ request[r].found \subseteq {building}

RecordObservation(r) ==
  /\ request[r].at = "found"
  /\ LET building == identity[request[r].address].building IN
     observations' = IF IsOfConfirmed(r, building)
                     THEN observations \cup {[identity |-> identity[request[r].address],
                                              records |-> request[r].found]}
                     ELSE observations
  /\ request' = [request EXCEPT ![r] = NoDossier]
  /\ UNCHANGED identity

(* The search fails: offline, too late, or the source is not there. *)
DossierFails(r) ==
  /\ request[r].at = "asked"
  /\ request' = [request EXCEPT ![r] = NoDossier]
  /\ UNCHANGED <<identity, observations>>

Next_Dossiers ==
  \/ \E a \in Addresses, b \in HpdBuildings : ResolveIdentity(a, b)
  \/ \E r \in DossierRequests :
       \/ (\E a \in Addresses : AskForDossier(r, a))
       \/ (\E bs \in SUBSET HpdBuildings : ReceiveRecords(r, bs))
       \/ RecordObservation(r) \/ DossierFails(r)

Spec_Dossiers == Init_Dossiers /\ [][Next_Dossiers]_dossierVars
-----------------------------------------------------------------------------
(* An observation shows the records of the building of the identity it is   *)
(* filed under, although the identity may have been resolved anew, to       *)
(* another building, while the records were fetched                         *)
(* (dossiers.py:139-219, local_app.py:1961-2011).                           *)
ObservationIsOfItsBuilding ==
  \A o \in observations : o.records \subseteq {o.identity.building}
=============================================================================
