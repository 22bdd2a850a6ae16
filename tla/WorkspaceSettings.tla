-------------------------- MODULE WorkspaceSettings --------------------------
(***************************************************************************)
(* The settings file, the credential stores and the profiles they select   *)
(* (workspace/settings.py, workspace/context.py, providers/profiles.py,    *)
(* providers/validation.py, credentials/store.py, the settings endpoints   *)
(* of local_app.py, the commands setup, credentials and profiles).         *)
(*                                                                         *)
(* Every process reads the whole file when it starts and writes the whole  *)
(* record back when it changes one field, so a command that waits (for a   *)
(* key to be typed, for a provider's answer) writes back what it read.     *)
(* One kind of profile stands for both.  A custom endpoint is an element   *)
(* of Endpoints with its prices and its credential slot: an override that  *)
(* passes validate_profile_override; one that does not changes nothing.    *)
(***************************************************************************)
EXTENDS Naturals

CONSTANTS Endpoints,   \* custom endpoints, each with the rest of its override
          OwnSlot,     \* the ones with a credential slot of their own
          MaxCommands, \* bound: processes of the command line, one command each
          MaxServes    \* bound: launches of the browser application

VARIABLES config,      \* config.json
          initialized, \* the file exists
          doing,       \* which processes have not run yet, are open, are closed
          context,     \* the settings every process holds
          policy,      \* WorkspacePolicy: what background work of the application reads
          secrets,     \* <<store, slot>> pairs that hold a credential
          serves,      \* launches so far
          passed,      \* endpoints that answered a compatibility check
          sentTo       \* endpoints that were sent a question or a passage
settingsVars == <<config, initialized, doing, context, policy, secrets, serves, passed, sentTo>>

(* Commands are numbered in the order in which they start. *)
Web == 0
Commands == 1..MaxCommands
Processes == Commands \cup {Web}
Packaged == "packaged endpoint"
NoCheck == <<>>
Open(p) == doing[p] = "open"
Starts(p) == doing[p] = "not yet" /\ \A q \in 1..(p - 1) : doing[q] # "not yet"

Slots == {"openai"} \cup OwnSlot
Stores == {"keyring", "file"}

(* profile_override_fingerprint: a digest of the whole override. *)
Fingerprint(e) == <<"fingerprint", e>>

(* LocalSettings, the fields that matter here. *)
Defaults == [profile |-> "fake", override |-> Packaged, check |-> NoCheck, offline |-> FALSE]

(* The credential slot of the profile that the settings describe. *)
SlotOf(s) == IF s.override \in OwnSlot THEN s.override ELSE "openai"

(* A folder without a workspace, or a workspace whose custom endpoint has   *)
(* its credential and has not been checked.  Of the stores, the environment *)
(* alone is not written by the program.                                     *)
Init_Settings ==
  /\ initialized \in BOOLEAN
  /\ IF initialized
     THEN /\ \E e \in Endpoints :
               config = [Defaults EXCEPT !.profile = "openai", !.override = e]
          /\ secrets = {<<"keyring", SlotOf(config)>>}
     ELSE /\ config = Defaults
          /\ secrets \in SUBSET {<<"environment", "openai">>}
  /\ doing = [p \in Processes |-> "not yet"]
  /\ context = [p \in Processes |-> Defaults]
  /\ policy = Defaults
  /\ serves = 0
  /\ passed = {} /\ sentTo = {}

(* LocalSettings.validate: a check belongs to a configured endpoint. *)
Valid(s) == s.check # NoCheck => s.override # Packaged

(* save_local_settings: the whole record, by an atomic rename. *)
Save(s) == Valid(s) /\ config' = s /\ initialized' = TRUE

(* load_local_settings, and the flag --offline on top of it. *)
Loaded(flag) == [config EXCEPT !.offline = @ \/ flag]
Opens(p, flag) ==
  /\ doing' = [doing EXCEPT ![p] = "open"]
  /\ context' = [context EXCEPT ![p] = Loaded(flag)]
Exits(p) ==
  /\ doing' = [doing EXCEPT ![p] = "closed"]
  /\ context' = [context EXCEPT ![p] = Defaults]

(* configured_credential_slots *)
ConfiguredSlots(s) == {"openai", SlotOf(s)}

(* get_configured_profile: an endpoint counts as verified when its check is *)
(* the fingerprint of just this override.                                   *)
Verified(s) == s.override = Packaged \/ s.check = Fingerprint(s.override)

(* CredentialResolver.resolve: the environment, the keyring, the file. *)
Resolves(slot) == \E store \in Stores \cup {"environment"} : <<store, slot>> \in secrets

-----------------------------------------------------------------------------
(* prepare_workspace writes the file, without the flag, where there is      *)
(* none; create_local_app publishes the context.                            *)
StartWeb(flag) ==
  /\ ~Open(Web) /\ serves < MaxServes
  /\ serves' = serves + 1
  /\ initialized' = TRUE
  /\ Opens(Web, flag)
  /\ policy' = Loaded(flag)
  /\ UNCHANGED <<config, secrets, passed, sentTo>>

StopWeb ==
  /\ Open(Web)
  /\ Exits(Web)
  /\ UNCHANGED <<config, initialized, policy, secrets, serves, passed, sentTo>>

(* PATCH /settings with the offline preference, or with some other field:   *)
(* the fields of the request over the context's; the file, the context and  *)
(* the policy become that.                                                  *)
UpdateSettings(asked) ==
  /\ Open(Web)
  /\ LET candidate == IF asked = "other field" THEN context[Web]
                      ELSE [context[Web] EXCEPT !.offline = (asked = "offline")]
     IN /\ Save(candidate)
        /\ context' = [context EXCEPT ![Web] = candidate]
        /\ policy' = candidate
  /\ UNCHANGED <<doing, secrets, serves, passed, sentTo>>

(* The stores' set and delete: the keyring's entry, or the secret file      *)
(* written anew and renamed.                                                *)
SetSecret(store, slot) == secrets' = secrets \cup {<<store, slot>>}
DeleteSecret(store, slot) == secrets' = secrets \ {<<store, slot>>}

(* _store_credential: only into the slot of a configured profile. *)
StoreCredential(p, store, slot) ==
  /\ slot \in ConfiguredSlots(context[p])
  /\ SetSecret(store, slot)

(* _activate_packaged_openai_profiles *)
Activated(s) == [s EXCEPT !.profile = "openai"]

(* PUT and POST /credentials: the key is stored; the first key of the       *)
(* packaged provider selects its profiles in the file and the context, and  *)
(* the policy stays as it was.                                              *)
ReplaceCredential(store, slot) ==
  /\ Open(Web)
  /\ StoreCredential(Web, store, slot)
  /\ IF slot = "openai" /\ context[Web].profile = "fake"
     THEN /\ Save(Activated(context[Web]))
          /\ context' = [context EXCEPT ![Web] = Activated(@)]
     ELSE UNCHANGED <<config, initialized, context>>
  /\ UNCHANGED <<doing, policy, serves, passed, sentTo>>

-----------------------------------------------------------------------------
(* A command of the command line reads the file; all but setup refuse a     *)
(* workspace without one.                                                   *)
BeginCommand(p, flag) ==
  /\ Starts(p) /\ initialized
  /\ Opens(p, flag)
  /\ UNCHANGED <<config, initialized, policy, secrets, serves, passed, sentTo>>

(* setup saves what it read, the flag included, before it asks anything. *)
BeginSetup(p, flag) ==
  /\ Starts(p)
  /\ Save(Loaded(flag))
  /\ Opens(p, flag)
  /\ UNCHANGED <<policy, secrets, serves, passed, sentTo>>

(* setup, told to configure the packaged provider: the key, then the        *)
(* profiles.                                                                *)
Setup(p, store) ==
  /\ Open(p)
  /\ StoreCredential(p, store, "openai")
  /\ Save(Activated(context[p]))
  /\ Exits(p)
  /\ UNCHANGED <<policy, serves, passed, sentTo>>

(* credentials set and credentials delete *)
SetCredential(p, store, slot) ==
  /\ Open(p)
  /\ StoreCredential(p, store, slot)
  /\ Exits(p)
  /\ UNCHANGED <<config, initialized, policy, serves, passed, sentTo>>

DeleteCredential(p, store, slot) ==
  /\ Open(p) /\ slot \in ConfiguredSlots(context[p])
  /\ DeleteSecret(store, slot)
  /\ Exits(p)
  /\ UNCHANGED <<config, initialized, policy, serves, passed, sentTo>>

(* The commands that change the settings save what they read with their     *)
(* change in it.                                                            *)
SaveAndExit(p, s) ==
  /\ Open(p) /\ Save(s) /\ Exits(p)
  /\ UNCHANGED <<policy, secrets, serves, passed, sentTo>>

(* profiles select *)
SelectProfile(p, id) == SaveAndExit(p, [context[p] EXCEPT !.profile = id])

(* profiles configure-endpoint: refused for the synthetic profile; the      *)
(* check of the endpoint before it goes.                                    *)
ConfigureEndpoint(p, e) ==
  /\ Open(p) /\ context[p].profile = "openai"
  /\ SaveAndExit(p, [context[p] EXCEPT !.override = e, !.check = NoCheck])

(* profiles clear-endpoint, of the profile that is selected *)
ClearEndpoint(p) ==
  /\ Open(p)
  /\ SaveAndExit(p, IF context[p].profile = "fake" THEN context[p]
                   ELSE [context[p] EXCEPT !.override = Packaged, !.check = NoCheck])

(* What a request needs before it leaves: the network and a credential. *)
MaySend(s, offline) == s.profile = "openai" /\ ~offline /\ Resolves(SlotOf(s))

(* The endpoint that the process read about answers its compatibility       *)
(* check.                                                                   *)
Answers(p) ==
  /\ Open(p) /\ MaySend(context[p], context[p].offline)
  /\ context[p].override # Packaged
  /\ passed' = passed \cup {context[p].override}
  /\ Exits(p)
  /\ UNCHANGED <<policy, secrets, serves, sentTo>>

\* Mutant: the check is recorded in the settings as they are by now.
CheckOfLatest(p) ==
  /\ Answers(p)
  /\ Save(IF config.override = Packaged THEN config
          ELSE [config EXCEPT !.check = Fingerprint(config.override)])

(* run_profile_compatibility_check: the fingerprint of what was called is   *)
(* saved with the rest of what was read before the call.                    *)
CheckProfile(p) ==
  /\ Answers(p)
  /\ Save([context[p] EXCEPT !.check = Fingerprint(context[p].override)])

(* A command that fails, or that only reads. *)
CommandEnds(p) ==
  /\ Open(p) /\ Exits(p)
  /\ UNCHANGED <<config, initialized, policy, secrets, serves, passed, sentTo>>

(* An answer, an index or a summary: the profile of the process's context   *)
(* or of the policy; the gateway refuses an endpoint that is not verified   *)
(* and asks the policy about the network.                                   *)
Dispatch(p) ==
  /\ Open(p)
  /\ \E s \in (IF p = Web THEN {context[p], policy} ELSE {context[p]}) :
       /\ MaySend(s, IF p = Web THEN policy.offline ELSE s.offline)
       /\ Verified(s)
       /\ sentTo' = sentTo \cup {s.override}
  /\ IF p = Web THEN UNCHANGED <<doing, context>> ELSE Exits(p)
  /\ UNCHANGED <<config, initialized, policy, secrets, serves, passed>>

Next_Settings ==
  \/ StopWeb
  \/ \E flag \in BOOLEAN : StartWeb(flag)
  \/ \E asked \in {"other field", "offline", "online"} : UpdateSettings(asked)
  \/ \E p \in Processes : Dispatch(p)
  \/ \E store \in Stores, slot \in Slots : ReplaceCredential(store, slot)
  \/ \E p \in Commands :
       \/ \E flag \in BOOLEAN : BeginCommand(p, flag) \/ BeginSetup(p, flag)
       \/ \E store \in Stores : Setup(p, store)
       \/ \E store \in Stores, slot \in Slots :
            SetCredential(p, store, slot) \/ DeleteCredential(p, store, slot)
       \/ \E id \in {"fake", "openai"} : SelectProfile(p, id)
       \/ \E e \in Endpoints : ConfigureEndpoint(p, e)
       \/ ClearEndpoint(p) \/ CheckProfile(p) \/ CommandEnds(p)

Spec_Settings == Init_Settings /\ [][Next_Settings]_settingsVars
-----------------------------------------------------------------------------
(* Questions and passages go to a custom endpoint only if that endpoint,    *)
(* with just these prices and this credential slot, has answered a          *)
(* compatibility check: a check that ends after another command replaced    *)
(* the endpoint vouches for none but the one it called                      *)
(* (profiles.py:166-190, validation.py:274-284, gateway.py:85-89).          *)
OnlyCheckedEndpoints == sentTo \subseteq passed \cup {Packaged}
=============================================================================
