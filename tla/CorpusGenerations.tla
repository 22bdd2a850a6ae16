-------------------------- MODULE CorpusGenerations --------------------------
(***************************************************************************)
(* The corpus database and its artifact files (app/corpus/service.py,      *)
(* resources.py, indexing.py, bundle.py): immutable source versions, the   *)
(* generations that select them, the pointer to the active one, vectors,   *)
(* and each source's model-use policy.                                     *)
(*                                                                         *)
(* Every change runs as a job of target "corpus:core".  This module takes  *)
(* from JobService that there is one such job at a time (`writer`);        *)
(* CorpusJobs checks when that holds.  A foreground mutation is one        *)
(* transaction and one step.  The operations with several transactions, or *)
(* with file writes before theirs, are several steps, and each can fail or *)
(* be interrupted between them.                                            *)
(*                                                                         *)
(* A version stands for all its chunks.  Dates are left out: `activations` *)
(* keeps the order of activated_at.                                        *)
(***************************************************************************)
EXTENDS Naturals, Sequences, FiniteSets

CONSTANTS
  CoreSources,  \* packaged sources a complete generation must have
  PackSources,  \* packaged sources that are optional
  UserSources,  \* resources the user uploads
  Versions,
  SourceOf,     \* [Versions -> Sources]
  ContentOf,    \* the bytes of a version's artifact: its content_hash
  MeaningOf,    \* what the parser makes of them: its semantic_hash
  UseOf,        \* the model-use setting in a user version's metadata
  NoVersion,
  Profiles, NoProfile,
  Bundles,      \* bundles exported elsewhere, of whatever generation
  MaxGens,      \* bound on the generations a behaviour creates
  MaxFailed     \* bound on the failed uploads that wait to be resumed

OfficialSources == CoreSources \cup PackSources
Sources == OfficialSources \cup UserSources
OfficialVersions == {v \in Versions : SourceOf[v] \in OfficialSources}
UserVersions == {v \in Versions : SourceOf[v] \in UserSources}

ASSUME SourcesAssumption ==
  /\ CoreSources \cap PackSources = {}
  /\ OfficialSources \cap UserSources = {}
  /\ IsFiniteSet(Versions)
  /\ SourceOf \in [Versions -> Sources]
  /\ UseOf \in [Versions -> BOOLEAN]
  /\ NoVersion \notin Versions
  /\ NoProfile \notin Profiles
  /\ MaxGens \in Nat /\ MaxFailed \in Nat

SearchReady ==
  {"text_ready", "partial_text_ready", "hybrid_ready", "hybrid_partial"}
Readiness == SearchReady \cup {"embedding_staging"}

ASSUME BundlesAssumption ==
  \A b \in Bundles : /\ b.sources \subseteq OfficialVersions
                     /\ \A v, w \in b.sources :
                          SourceOf[v] = SourceOf[w] => v = w
                     /\ b.ready \subseteq b.sources
                     /\ b.profile \in Profiles \cup {NoProfile}
                     /\ b.ready # {} => b.profile # NoProfile
                     /\ b.readiness \in Readiness

VARIABLES
  gens,         \* table corpus_generations, in order of creation
  active,       \* corpus_state.active_generation_id, 0 for null
  activations,  \* the generations that were ever active, by activated_at
  artifact,     \* artifact[v]: artifact_uri of a stored version, or NoFile
  files,        \* the artifact files on disk
  fts,          \* the versions whose chunks are in chunk_fts
  embedded,     \* table embeddings: <<version, profile>>
  policy,       \* source_modules.model_use_allowed
  writer,       \* the running job of target "corpus:core"
  failed,       \* uploads that failed and can be resumed
  revoked       \* history: sources the user turned off and not on again

generationVars == <<gens, active, activations>>
dbVars == <<generationVars, artifact, fts, embedded, policy>>
storeVars == <<dbVars, files, writer, failed, revoked>>

(***************************************************************************)
(* Reading the database.                                                   *)
(***************************************************************************)
NoFile == <<>>
OwnFile(v) == <<SourceOf[v], ContentOf[v]>>
BundleFile(v) == <<"bundle", ContentOf[v]>>

Stored == {v \in Versions : artifact[v] # NoFile}
SourcesIn(vs) == {SourceOf[v] : v \in vs}
Known(s) == s \in SourcesIn(Stored)

\* _active_versions_by_slug
ActiveSources == IF active = 0 THEN {} ELSE gens[active].sources
ActiveVersionsOf(s) == {v \in ActiveSources : SourceOf[v] = s}
ActiveProfile == IF active = 0 THEN NoProfile ELSE gens[active].profile
Without(ss) == {v \in ActiveSources : SourceOf[v] \notin ss}
With(vs) == Without(SourcesIn(vs)) \cup vs

MissingCore(vs) == CoreSources \ SourcesIn(vs)

\* Where in activations the generations are that rollback may return to.
Retained == {i \in DOMAIN activations :
               /\ activations[i] # active
               /\ gens[activations[i]].status = "retained"}

(***************************************************************************)
(* Publishing.  pol and emb are the policy and the vectors the transaction *)
(* sees, its own writes included.                                          *)
(***************************************************************************)
NewGeneration(vs, pol, emb) ==
  LET eligible == {v \in vs : pol[SourceOf[v]]}
      ready    == {v \in eligible : <<v, ActiveProfile>> \in emb}
      missing  == MissingCore(vs)
  IN [sources   |-> vs,
      status    |-> "staged",
      profile   |-> ActiveProfile,
      ready     |-> ready,
      partial   |-> missing # {},
      readiness |-> IF ready # {}
                      THEN IF ready = eligible THEN "hybrid_ready"
                                               ELSE "hybrid_partial"
                      ELSE IF missing # {} THEN "partial_text_ready"
                                           ELSE "text_ready",
      bundle    |-> {}]

\* activated_at of generation g is set to now: g goes to the end of s.
ActivatedLast(s, g) ==
  IF \E k \in DOMAIN s : s[k] = g
    THEN LET k == CHOOSE k \in DOMAIN s : s[k] = g
         IN [i \in DOMAIN s |-> IF i < k THEN s[i]
                               ELSE IF i < Len(s) THEN s[i + 1] ELSE g]
    ELSE Append(s, g)

\* _activate_in_transaction, on the generations gs the transaction has made.
ActivateIn(gs, g) ==
  /\ gens' = [i \in DOMAIN gs |->
       IF i = g THEN [gs[i] EXCEPT !.status = "active"]
       ELSE IF i = active THEN [gs[i] EXCEPT !.status = "retained"]
       ELSE gs[i]]
  /\ active' = g
  /\ activations' = ActivatedLast(activations, g)

\* _publish_generation and _build_fts
Publish(vs, pol, emb, allowPartial, activate) ==
  /\ allowPartial \/ MissingCore(vs) = {}
  /\ Len(gens) < MaxGens
  /\ fts' = fts \cup vs
  /\ LET gs == Append(gens, NewGeneration(vs, pol, emb))
     IN IF activate
          THEN ActivateIn(gs, Len(gs))
          ELSE gens' = gs /\ UNCHANGED <<active, activations>>

Free == [op |-> "none"]
Idle == writer = Free

(***************************************************************************)
(* Official sources: install_artifacts writes the files, commits, and      *)
(* removes the files the database does not refer to.                       *)
(***************************************************************************)
BeginInstall(vs, allowPartial, activate) ==
  /\ Idle
  /\ vs # {} /\ vs \subseteq OfficialVersions
  /\ Cardinality(SourcesIn(vs)) = Cardinality(vs)
  /\ files' = files \cup {OwnFile(v) : v \in vs}
  /\ writer' = [op |-> "install", step |-> "commit", versions |-> vs,
                allowPartial |-> allowPartial, activate |-> activate]
  /\ UNCHANGED <<dbVars, failed, revoked>>

\* _store_source: the version itself when it is stored, a stored one with
\* the same meaning, or else the version, stored now.
StoredAs(v) ==
  IF v \in Stored THEN {v}
  ELSE LET prior == {w \in Stored : /\ SourceOf[w] = SourceOf[v]
                                    /\ MeaningOf[w] = MeaningOf[v]}
       IN IF prior # {} THEN prior ELSE {v}

\* The artifact_uri of each version once the new ones of uris are stored.
NowStored(uris) ==
  [v \in Versions |->
     IF v \in DOMAIN uris \ Stored THEN uris[v] ELSE artifact[v]]

\* The transaction is over; the cleanup only needs the versions.
Cleaning == [writer EXCEPT !.step = "clean", !.allowPartial = FALSE,
                            !.activate = FALSE]

CommitInstall ==
  /\ writer.op = "install" /\ writer.step = "commit"
  /\ \E chosen \in [writer.versions -> Versions] :
       /\ \A v \in writer.versions : chosen[v] \in StoredAs(v)
       /\ LET picked == {chosen[v] : v \in writer.versions}
              allowed == [s \in Sources |->
                            s \in SourcesIn(writer.versions) \/ policy[s]]
          IN /\ artifact' = NowStored([v \in picked |-> OwnFile(v)])
             /\ policy' = allowed
             /\ IF active # 0 /\ With(picked) = ActiveSources
                  THEN UNCHANGED <<generationVars, fts>>
                  ELSE Publish(With(picked), allowed, embedded,
                               writer.allowPartial, writer.activate)
  /\ writer' = Cleaning
  /\ UNCHANGED <<files, embedded, failed, revoked>>

\* The transaction raises: a missing core source, a lock that stays busy.
FailInstall ==
  /\ writer.op = "install" /\ writer.step = "commit"
  /\ writer' = Cleaning
  /\ UNCHANGED <<dbVars, files, failed, revoked>>

\* Mutant: files are kept for the active generation only.
UnreferencedNow(fs) == {f \in fs : \A v \in ActiveSources : artifact[v] # f}

Unreferenced(fs) == {f \in fs : \A v \in Versions : artifact[v] # f}

CleanInstall ==
  /\ writer.op = "install" /\ writer.step = "clean"
  /\ files' = files \ Unreferenced({OwnFile(v) : v \in writer.versions})
  /\ writer' = Free
  /\ UNCHANGED <<dbVars, failed, revoked>>

(***************************************************************************)
(* Mutations of one transaction.                                           *)
(***************************************************************************)
Mutation == Idle /\ UNCHANGED <<files, writer, failed>>

\* Mutant: the readiness check is missing.
ActivateGenerationUnvalidated(g, allowPartial) ==
  /\ Mutation
  /\ gens[g].partial => allowPartial
  /\ ActivateIn(gens, g)
  /\ UNCHANGED <<artifact, fts, embedded, policy, revoked>>

ActivateGeneration(g, allowPartial) ==
  /\ Mutation
  /\ gens[g].readiness \in SearchReady
  /\ gens[g].partial => allowPartial
  /\ ActivateIn(gens, g)
  /\ UNCHANGED <<artifact, fts, embedded, policy, revoked>>

\* To the retained generation that was activated last.
Rollback ==
  /\ Mutation
  /\ \E i \in Retained : /\ \A k \in Retained : k <= i
                        /\ ActivateIn(gens, activations[i])
  /\ UNCHANGED <<artifact, fts, embedded, policy, revoked>>

RemoveSources(ss) ==
  /\ Mutation
  /\ ss \subseteq PackSources /\ ss \cap SourcesIn(ActiveSources) # {}
  /\ Publish(Without(ss), policy, embedded, TRUE, TRUE)
  /\ UNCHANGED <<artifact, embedded, policy, revoked>>

\* One stored version of each; which is the latest is not modelled.
RestoreSources(vs) ==
  /\ Mutation
  /\ vs # {} /\ vs \subseteq Stored /\ SourcesIn(vs) \subseteq PackSources
  /\ Cardinality(SourcesIn(vs)) = Cardinality(vs)
  /\ Publish(With(vs), policy, embedded, TRUE, TRUE)
  /\ UNCHANGED <<artifact, embedded, policy, revoked>>

RemoveResource(s) ==
  /\ Mutation
  /\ s \in UserSources /\ Known(s)
  /\ Publish(Without({s}), policy, embedded, TRUE, TRUE)
  /\ UNCHANGED <<artifact, embedded, policy, revoked>>

RestoreResource(v) ==
  /\ Mutation
  /\ v \in UserVersions \cap Stored
  /\ Publish(With({v}), policy, embedded, TRUE, TRUE)
  /\ UNCHANGED <<artifact, embedded, policy, revoked>>

SetModelUse(s, allowed) ==
  /\ Mutation
  /\ s \in UserSources /\ Known(s)
  /\ policy' = [policy EXCEPT ![s] = allowed]
  /\ revoked' = IF allowed THEN revoked \ {s} ELSE revoked \cup {s}
  /\ IF ActiveVersionsOf(s) # {}
       THEN Publish(ActiveSources, policy', embedded, TRUE, TRUE)
       ELSE UNCHANGED <<generationVars, fts>>
  /\ UNCHANGED <<artifact, embedded>>

(***************************************************************************)
(* User resources.  A request keeps what its form was filled in with: the  *)
(* model-use setting the page showed, unless the user chose one, and the   *)
(* version the user had opened.  An upload that failed can be resumed with *)
(* them later.                                                             *)
(***************************************************************************)
Expected(r) == r.base # NoVersion => r.base \in ActiveVersionsOf(r.source)

\* The versions request r may become: an edit keeps the active bytes, and
\* an upload of bytes another resource has is a duplicate.  A new resource
\* gets an id of its own.
VersionsFor(r) ==
  CASE r.kind = "add" ->
         {v \in {r.version} :
            /\ ~Known(SourceOf[v])
            /\ ~\E w \in UserVersions \cap Stored : ContentOf[w] = ContentOf[v]}
    [] r.kind = "replace" -> {v \in {r.version} : Expected(r)}
    [] r.kind = "edit" ->
         {v \in UserVersions :
            /\ SourceOf[v] = r.source /\ UseOf[v] = r.use /\ Expected(r)
            /\ \E w \in ActiveVersionsOf(r.source) :
                 ContentOf[w] = ContentOf[v]}

\* ResourceService.add, replace_file, edit_metadata up to _write_artifact.
BeginImport(r, v) ==
  /\ v \in VersionsFor(r)
  /\ files' = files \cup {OwnFile(v)}
  /\ writer' = [op |-> "import", step |-> "commit", request |-> r,
                version |-> v]
  /\ UNCHANGED dbVars

SubmitAdd(v) ==
  /\ Idle
  /\ v \in UserVersions /\ ~Known(SourceOf[v])
  /\ BeginImport([kind |-> "add", source |-> SourceOf[v], use |-> UseOf[v],
                  version |-> v, base |-> NoVersion], v)
  /\ UNCHANGED <<failed, revoked>>

Opened(s) == ActiveVersionsOf(s) \cup {NoVersion}

SubmitReplace(v, base) ==
  /\ Idle
  /\ v \in UserVersions /\ Known(SourceOf[v])
  /\ base \in Opened(SourceOf[v])
  /\ BeginImport([kind |-> "replace", source |-> SourceOf[v], use |-> UseOf[v],
                  version |-> v, base |-> base], v)
  /\ revoked' = IF UseOf[v] THEN revoked \ {SourceOf[v]} ELSE revoked
  /\ UNCHANGED failed

SubmitEdit(s, v) ==
  /\ Idle
  /\ s \in UserSources /\ Known(s)
  /\ BeginImport([kind |-> "edit", source |-> s, use |-> policy[s],
                  version |-> v, base |-> NoVersion], v)
  /\ UNCHANGED <<failed, revoked>>

\* An upload whose process died is paused and keeps the target.
Paused(r) == [op |-> "paused", request |-> r]

ResumeImport(r, v) ==
  /\ (Idle /\ r \in failed) \/ writer = Paused(r)
  /\ BeginImport(r, v)
  /\ failed' = failed \ {r}
  /\ UNCHANGED revoked

\* Cancelled, or refused for good when it was resumed.
DropFailed(r) ==
  /\ failed' = failed \ {r}
  /\ UNCHANGED <<dbVars, files, writer, revoked>>

\* The transaction of _install_version.
CommitImport ==
  /\ writer.op = "import" /\ writer.step = "commit"
  /\ LET v == writer.version
         r == writer.request
     IN /\ artifact' = NowStored([w \in {v} |-> OwnFile(w)])
        /\ policy' = [policy EXCEPT ![r.source] = r.use]
        /\ IF v \in ActiveSources
             THEN UNCHANGED <<generationVars, fts>>
             ELSE Publish(With({v}), policy', embedded, TRUE, TRUE)
  /\ writer' = Free
  /\ UNCHANGED <<files, embedded, failed, revoked>>

FailImport ==
  /\ writer.op = "import" /\ writer.step = "commit"
  /\ writer' = [writer EXCEPT !.step = "clean"]
  /\ UNCHANGED <<dbVars, files, failed, revoked>>

\* An edit is not retried, nor an upload that turned out to be invalid.
Retry(r) == IF r.kind = "edit" \/ Cardinality(failed) >= MaxFailed
              THEN {{}} ELSE {{}, {r}}

CleanImport ==
  /\ writer.op = "import" /\ writer.step = "clean"
  /\ files' = files \ Unreferenced({OwnFile(writer.version)})
  /\ \E again \in Retry(writer.request) : failed' = failed \cup again
  /\ writer' = Free
  /\ UNCHANGED <<dbVars, revoked>>

(***************************************************************************)
(* Indexing: stage a copy of the active generation, embed what it lacks    *)
(* batch by batch, activate the copy.                                      *)
(***************************************************************************)
StageIndex(p) ==
  /\ Idle
  /\ active # 0 /\ Len(gens) < MaxGens
  /\ LET eligible == {v \in ActiveSources : policy[SourceOf[v]]}
         ready == {v \in eligible : <<v, p>> \in embedded}
     IN /\ gens' = Append(gens,
             [gens[active] EXCEPT !.status = "staged", !.profile = p,
                !.ready = ready, !.readiness = "embedding_staging",
                !.bundle = {}])
        /\ writer' = [op |-> "index", step |-> "embed", gen |-> Len(gens) + 1,
                      missing |-> eligible \ ready, batch |-> {}]
  /\ fts' = fts \cup ActiveSources
  /\ UNCHANGED <<active, activations, artifact, embedded, policy, files,
                 failed, revoked>>

\* The batch goes to the provider; its vectors are stored one by one.
EmbedBatch(vs) ==
  /\ writer.op = "index" /\ writer.step = "embed"
  /\ vs # {} /\ vs \subseteq writer.missing
  /\ embedded' = embedded \cup (vs \X {gens[writer.gen].profile})
  /\ writer' = [writer EXCEPT !.step = "mark", !.batch = vs]
  /\ UNCHANGED <<generationVars, artifact, fts, policy, files, failed,
                 revoked>>

MarkBatch ==
  /\ writer.op = "index" /\ writer.step = "mark"
  /\ gens' = [gens EXCEPT ![writer.gen].ready = @ \cup writer.batch]
  /\ writer' = [writer EXCEPT !.step = "embed", !.batch = {},
                              !.missing = @ \ writer.batch]
  /\ UNCHANGED <<active, activations, artifact, fts, embedded, policy, files,
                 failed, revoked>>

FinishIndex ==
  /\ writer.op = "index" /\ writer.step = "embed" /\ writer.missing = {}
  /\ LET g == writer.gen
         eligible == {v \in gens[g].sources : policy[SourceOf[v]]}
     IN /\ eligible \subseteq gens[g].ready
        /\ ActivateIn([gens EXCEPT ![g].readiness =
                         IF eligible # {} THEN "hybrid_ready"
                         ELSE IF gens[g].partial THEN "partial_text_ready"
                         ELSE "text_ready"], g)
  /\ writer' = Free
  /\ UNCHANGED <<artifact, fts, embedded, policy, files, failed, revoked>>

(***************************************************************************)
(* Importing a bundle: files, then one transaction that inserts the        *)
(* bundle's generation and activates it, or a merge with the user's        *)
(* resources.                                                              *)
(***************************************************************************)
BeginBundle(b, allowPartial, activate) ==
  /\ Idle
  /\ MissingCore(b.sources) # {} => allowPartial
  /\ files' = files \cup {BundleFile(v) : v \in b.sources}
  /\ writer' = [op |-> "bundle", step |-> "commit", bundle |-> b,
                allowPartial |-> allowPartial, activate |-> activate]
  /\ UNCHANGED <<dbVars, failed, revoked>>

BundleGeneration(b) ==
  [sources   |-> b.sources,
   status    |-> "staged",
   profile   |-> b.profile,
   ready     |-> b.ready,
   partial   |-> MissingCore(b.sources) # {},
   readiness |-> b.readiness,
   bundle    |-> {b}]

\* Mutant: a bundle replaces the whole collection.
NoUserVersions == {}

\* _active_user_versions
ActiveUserVersions == {v \in ActiveSources : SourceOf[v] \in UserSources}

CommitBundle ==
  /\ writer.op = "bundle" /\ writer.step = "commit"
  /\ LET b     == writer.bundle
         mine  == ActiveUserVersions
         vs    == mine \cup b.sources
         gs    == Append(gens, BundleGeneration(b))
         emb   == embedded \cup (b.ready \X {b.profile})
     IN /\ \A i \in DOMAIN gens : gens[i].bundle # {b}
        /\ artifact' = NowStored([v \in b.sources |-> BundleFile(v)])
        /\ embedded' = emb
        /\ fts' = fts \cup b.sources
        /\ IF ~writer.activate
             THEN /\ Len(gs) <= MaxGens
                  /\ gens' = gs /\ UNCHANGED <<active, activations>>
           ELSE IF mine = {}
             THEN /\ Len(gs) <= MaxGens
                  /\ ActivateIn(gs, Len(gs))
           ELSE /\ Len(gs) < MaxGens
                /\ writer.allowPartial \/ MissingCore(vs) = {}
                /\ ActivateIn(Append(gs, NewGeneration(vs, policy, emb)),
                              Len(gs) + 1)
  /\ writer' = Free
  /\ UNCHANGED <<files, policy, failed, revoked>>

(***************************************************************************)
(* A failure or the death of the process at any other point of a long      *)
(* operation.  What is committed stays.  An upload is paused until it is   *)
(* resumed or cancelled; an install or an index run starts all over when   *)
(* it is resumed, which is a new operation here.                           *)
(***************************************************************************)
Interrupt ==
  /\ writer.op \notin {"none", "paused"}
  /\ writer' = IF writer.op = "import" /\ writer.request.kind # "edit"
                 THEN Paused(writer.request) ELSE Free
  /\ UNCHANGED <<dbVars, files, failed, revoked>>

CancelPaused ==
  /\ writer.op = "paused"
  /\ writer' = Free
  /\ UNCHANGED <<dbVars, files, failed, revoked>>

StoreInit ==
  /\ gens = <<>> /\ active = 0 /\ activations = <<>>
  /\ artifact = [v \in Versions |-> NoFile]
  /\ files = {} /\ fts = {} /\ embedded = {}
  /\ policy = [s \in Sources |-> s \in OfficialSources]
  /\ writer = Free
  /\ failed = {} /\ revoked = {}

\* The uploads that can be resumed.
Resumable == failed \cup (IF writer.op = "paused" THEN {writer.request} ELSE {})

ImportStep ==
  \/ \E v \in UserVersions :
       \/ SubmitAdd(v)
       \/ \E base \in Opened(SourceOf[v]) : SubmitReplace(v, base)
       \/ SubmitEdit(SourceOf[v], v)
       \/ \E r \in Resumable : ResumeImport(r, v)
  \/ \E r \in failed : DropFailed(r)
  \/ CommitImport \/ FailImport \/ CleanImport

InstallStep ==
  \/ \E vs \in SUBSET OfficialVersions, allowPartial, activate \in BOOLEAN :
       BeginInstall(vs, allowPartial, activate)
  \/ CommitInstall \/ FailInstall \/ CleanInstall

IndexStep ==
  \/ \E p \in Profiles : StageIndex(p)
  \/ \E vs \in SUBSET Versions : EmbedBatch(vs)
  \/ MarkBatch \/ FinishIndex

BundleStep ==
  \/ \E b \in Bundles, allowPartial, activate \in BOOLEAN :
       BeginBundle(b, allowPartial, activate)
  \/ CommitBundle

MutationStep ==
  \/ \E g \in DOMAIN gens, allowPartial \in BOOLEAN :
       ActivateGeneration(g, allowPartial)
  \/ Rollback
  \/ \E ss \in SUBSET PackSources : RemoveSources(ss)
  \/ \E vs \in SUBSET OfficialVersions : RestoreSources(vs)
  \/ \E s \in UserSources :
       RemoveResource(s) \/ \E allowed \in BOOLEAN : SetModelUse(s, allowed)
  \/ \E v \in UserVersions : RestoreResource(v)

StoreNext ==
  \/ ImportStep \/ InstallStep \/ IndexStep \/ BundleStep
  \/ MutationStep \/ Interrupt \/ CancelPaused

(***************************************************************************)
(* Properties.                                                             *)
(***************************************************************************)
\* CorpusService.verify_all_retained succeeds at every moment, also between
\* the steps of an operation and after one that was cut short: every version
\* of a generation that is or was active has its artifact file, one source
\* has one version, its text is indexed for search, and what is marked as
\* embedded has a vector of the generation's own profile.
VerifiesAtAllTimes ==
  \A i \in DOMAIN activations :
    LET g == gens[activations[i]]
    IN /\ \A v \in g.sources : artifact[v] # NoFile /\ artifact[v] \in files
       /\ \A v, w \in g.sources : SourceOf[v] = SourceOf[w] => v = w
       /\ g.sources \subseteq fts
       /\ g.ready \subseteq g.sources
       /\ \A v \in g.ready : <<v, g.profile>> \in embedded

\* rollback always goes to the generation that was active before the present
\* one, and only validated generations are ever activated: the copy an
\* unfinished index run leaves behind never is.  The one exception is the
\* generation of a bundle, whose readiness neither export nor import looks at
\* (bundle.py:60-75, 109-163): it is activated as it came.
MayBeActive(g) ==
  g.readiness \in SearchReady \/ \E b \in g.bundle : g.readiness = b.readiness

RollbackIsSafe ==
  /\ active = 0 <=> activations = <<>>
  /\ active # 0 =>
       /\ activations[Len(activations)] = active
       /\ Retained = 1 .. (Len(activations) - 1)
  /\ \A i \in DOMAIN activations : MayBeActive(gens[activations[i]])

\* Official installs and removals, bundle imports and index runs leave the
\* user's resources in the active generation as they are, also an index run
\* that activates a copy made long before: only an operation on a resource,
\* or an explicit return to an older generation, changes them.
UserPart(vs) == {v \in vs : SourceOf[v] \in UserSources}
ResourcesAreKept ==
  [][UserPart(ActiveSources') # UserPart(ActiveSources) =>
       \/ CommitImport
       \/ Rollback
       \/ \E g \in DOMAIN gens : ActivateGeneration(g, TRUE)
       \/ \E s \in UserSources : RemoveResource(s)
       \/ \E v \in UserVersions : RestoreResource(v)]_storeVars
=============================================================================
