------------------------------ MODULE StoreProofs ------------------------------
(***************************************************************************)
(* Proofs about CorpusGenerations and ConsentedAnswers, for every set of   *)
(* sources, versions, bundles and answers and every bound.                 *)
(*                                                                         *)
(* The properties speak of generations that are or were active, but any    *)
(* generation can be activated later: the invariant says of every one what *)
(* they say of those, and of the running operation what its next steps     *)
(* rely on.                                                                *)
(***************************************************************************)
EXTENDS ConsentedAnswers, FiniteSetTheorems, TLAPS

(***************************************************************************)
(* The inductive invariant.                                                *)
(***************************************************************************)
Generations ==
  [sources   : SUBSET Versions,
   status    : {"staged", "active", "retained"},
   profile   : Profiles \cup {NoProfile},
   ready     : SUBSET Versions,
   partial   : BOOLEAN,
   readiness : Readiness,
   bundle    : SUBSET Bundles]

Artifacts == {NoFile} \cup {OwnFile(v) : v \in Versions}
                      \cup {BundleFile(v) : v \in Versions}

Requests ==
  [kind    : {"add", "replace", "edit"},
   source  : UserSources,
   use     : BOOLEAN,
   version : Versions,
   base    : Versions \cup {NoVersion}]

Installs == [op : {"install"}, step : {"commit", "clean"},
             versions : SUBSET OfficialVersions,
             allowPartial : BOOLEAN, activate : BOOLEAN]
Imports == [op : {"import"}, step : {"commit", "clean"},
            request : Requests, version : UserVersions]
Pauses == [op : {"paused"}, request : Requests]
IndexRuns == [op : {"index"}, step : {"embed", "mark"}, gen : Nat,
              missing : SUBSET Versions, batch : SUBSET Versions]
BundleImports == [op : {"bundle"}, step : {"commit"}, bundle : Bundles,
                  allowPartial : BOOLEAN, activate : BOOLEAN]

Writers == {Free} \cup Installs \cup Imports \cup Pauses \cup IndexRuns
                  \cup BundleImports

StoreTypes ==
  /\ gens \in Seq(Generations)
  /\ active \in Nat
  /\ activations \in Seq(Nat)
  /\ artifact \in [Versions -> Artifacts]
  /\ policy \in [Sources -> BOOLEAN]
  /\ writer \in Writers
  /\ failed \subseteq Requests

OneVersionEach(vs) == \A v, w \in vs : SourceOf[v] = SourceOf[w] => v = w

\* A generation that may be activated: its text is stored and indexed, and
\* what it calls ready has a vector of its profile.
SoundGeneration(g, art, index, emb) ==
  /\ \A v \in g.sources : art[v] # NoFile
  /\ OneVersionEach(g.sources)
  /\ g.sources \subseteq index
  /\ g.ready \subseteq g.sources
  /\ \A v \in g.ready : <<v, g.profile>> \in emb

GenerationsAreSound ==
  \A i \in DOMAIN gens : SoundGeneration(gens[i], artifact, fts, embedded)

\* No file that the database refers to is ever missing.
StoredHasFile == \A v \in Versions : artifact[v] # NoFile => artifact[v] \in files

\* The activation history: no generation twice, the active one last, the
\* others retained, all validated or from a bundle.
SoundHistory(gs, act, s) ==
  /\ act = 0 <=> s = <<>>
  /\ act # 0 => s[Len(s)] = act
  /\ \A i \in DOMAIN s :
       /\ s[i] \in DOMAIN gs
       /\ MayBeActive(gs[s[i]])
       /\ i # Len(s) => gs[s[i]].status = "retained"
  /\ \A i, k \in DOMAIN s : s[i] = s[k] => i = k

HistoryIsSound == SoundHistory(gens, active, activations)

\* What the next steps of an operation rely on: the files it wrote are there
\* until it commits, and an index run works on a copy of what is active.
InstallSound ==
  writer.op = "install" =>
    /\ OneVersionEach(writer.versions)
    /\ writer.step = "commit" =>
         \A v \in writer.versions : OwnFile(v) \in files

ImportSound ==
  writer.op = "import" /\ writer.step = "commit" =>
    OwnFile(writer.version) \in files

BundleSound ==
  writer.op = "bundle" =>
    \A v \in writer.bundle.sources : BundleFile(v) \in files

IndexSound ==
  writer.op = "index" =>
    /\ writer.gen \in DOMAIN gens
    /\ \A i \in DOMAIN activations : activations[i] # writer.gen
    /\ active # 0 /\ gens[writer.gen].sources = ActiveSources
    /\ writer.missing \subseteq ActiveSources
    /\ writer.batch \subseteq writer.missing
    /\ writer.step = "mark" =>
         \A v \in writer.batch : <<v, gens[writer.gen].profile>> \in embedded

StoreInv ==
  /\ StoreTypes /\ GenerationsAreSound /\ StoredHasFile /\ HistoryIsSound
  /\ InstallSound /\ ImportSound /\ BundleSound /\ IndexSound

(***************************************************************************)
(* Lemmas about the operators.                                             *)
(***************************************************************************)
\* The guard of install_artifacts and of restore, one artifact per source,
\* is what its count says.
LEMMA CountedOnce ==
  ASSUME NEW vs \in SUBSET Versions,
         Cardinality(SourcesIn(vs)) = Cardinality(vs)
  PROVE  OneVersionEach(vs)
<1> DEFINE f == [v \in vs |-> SourceOf[v]]
<1>1. IsFiniteSet(vs)
  BY SourcesAssumption, FS_Subset
<1>2. f \in Surjection(vs, SourcesIn(vs))
  BY DEF Surjection, SourcesIn
<1>3. f \in Injection(vs, SourcesIn(vs))
  <2> HIDE DEF f
  <2> QED BY <1>1, <1>2, FS_SurjSameCardinalityImpliesInj
<1> QED BY <1>3 DEF Injection, IsInjective, OneVersionEach

\* Activating moves a generation to the end of the history and keeps the
\* order of the others.
LEMMA LastActivated ==
  ASSUME NEW s \in Seq(Nat), NEW g \in Nat,
         \A i, k \in DOMAIN s : s[i] = s[k] => i = k
  PROVE  LET t == ActivatedLast(s, g)
         IN /\ t \in Seq(Nat) /\ t # <<>>
            /\ t[Len(t)] = g
            /\ \A i \in DOMAIN t : i # Len(t) =>
                 t[i] # g /\ \E k \in DOMAIN s : t[i] = s[k]
            /\ \A i, k \in DOMAIN t : t[i] = t[k] => i = k
<1> DEFINE t == ActivatedLast(s, g)
<1>1. CASE \E k \in DOMAIN s : s[k] = g
  <2> DEFINE k == CHOOSE k \in DOMAIN s : s[k] = g
  <2>1. k \in DOMAIN s /\ s[k] = g
    BY <1>1
  <2>2. t = [i \in DOMAIN s |-> IF i < k THEN s[i]
                                ELSE IF i < Len(s) THEN s[i + 1] ELSE g]
    BY <1>1 DEF ActivatedLast
  <2> HIDE DEF t, k
  <2>3. DOMAIN s = 1 .. Len(s) /\ Len(s) \in Nat /\ k \in 1 .. Len(s)
    BY <2>1
  <2>4. \A i \in 1 .. Len(s) : t[i] \in Nat
    BY <2>2, <2>3
  <2>5. t \in Seq(Nat) /\ Len(t) = Len(s) /\ DOMAIN t = 1 .. Len(s)
    BY <2>2, <2>3, <2>4
  <2>6. t[Len(t)] = g
    BY <2>2, <2>3, <2>5, <2>1
  <2>7. \A i \in DOMAIN t : i # Len(t) =>
          t[i] # g /\ \E j \in DOMAIN s : t[i] = s[j]
    BY <2>1, <2>2, <2>3, <2>5
  <2>8. \A i, j \in DOMAIN t : t[i] = t[j] => i = j
    BY <2>1, <2>2, <2>3, <2>5, SMTT(40)
  <2> QED BY <2>5, <2>6, <2>7, <2>8, <2>3 DEF t
<1>2. CASE ~\E k \in DOMAIN s : s[k] = g
  BY <1>2 DEF ActivatedLast
<1> QED BY <1>1, <1>2

\* A transaction that adds to the generations and activates one of them keeps
\* the activation history sound.  gs differs from the present generations only
\* where nothing was ever active.
LEMMA ActivationKeepsHistory ==
  ASSUME HistoryIsSound, StoreTypes,
         NEW gs \in Seq(Generations),
         DOMAIN gens \subseteq DOMAIN gs,
         \A i \in DOMAIN activations : gs[activations[i]] = gens[activations[i]],
         NEW g \in DOMAIN gs, MayBeActive(gs[g]),
         ActivateIn(gs, g)
  PROVE  /\ HistoryIsSound'
         /\ gens' \in Seq(Generations)
         /\ active' = g /\ active' \in Nat
         /\ activations' \in Seq(Nat)
         /\ DOMAIN gens' = DOMAIN gs
         /\ \A i \in DOMAIN gs : /\ gens'[i].sources = gs[i].sources
                                 /\ gens'[i].ready = gs[i].ready
                                 /\ gens'[i].profile = gs[i].profile
<1>1. DOMAIN gs = 1 .. Len(gs) /\ Len(gs) \in Nat /\ g \in Nat
  OBVIOUS
<1>2. /\ gens' = [i \in DOMAIN gs |->
           IF i = g THEN [gs[i] EXCEPT !.status = "active"]
           ELSE IF i = active THEN [gs[i] EXCEPT !.status = "retained"]
           ELSE gs[i]]
      /\ active' = g
      /\ activations' = ActivatedLast(activations, g)
  BY DEF ActivateIn
<1>3. \A i \in DOMAIN gs :
        /\ gens'[i] \in Generations
        /\ gens'[i].sources = gs[i].sources
        /\ gens'[i].ready = gs[i].ready
        /\ gens'[i].profile = gs[i].profile
        /\ MayBeActive(gens'[i]) <=> MayBeActive(gs[i])
        /\ i # g /\ i = active => gens'[i].status = "retained"
        /\ i # g /\ i # active => gens'[i] = gs[i]
  <2> TAKE i \in DOMAIN gs
  <2>1. gs[i] \in Generations
    BY <1>1
  <2>2. gens'[i] = IF i = g THEN [gs[i] EXCEPT !.status = "active"]
                   ELSE IF i = active THEN [gs[i] EXCEPT !.status = "retained"]
                   ELSE gs[i]
    BY <1>2
  <2>3. gens'[i].readiness = gs[i].readiness /\ gens'[i].bundle = gs[i].bundle
    BY <2>1, <2>2 DEF Generations
  <2> QED BY <2>1, <2>2, <2>3 DEF Generations, MayBeActive
<1>4. gens' \in Seq(Generations) /\ DOMAIN gens' = DOMAIN gs
  BY <1>1, <1>2, <1>3
<1>5. activations \in Seq(Nat) /\ \A i, k \in DOMAIN activations :
        activations[i] = activations[k] => i = k
  BY DEF HistoryIsSound, SoundHistory, StoreTypes
<1>6. /\ activations' \in Seq(Nat) /\ activations' # <<>>
      /\ activations'[Len(activations')] = g
      /\ \A i \in DOMAIN activations' : i # Len(activations') =>
           /\ activations'[i] # g
           /\ \E k \in DOMAIN activations : activations'[i] = activations[k]
      /\ \A i, k \in DOMAIN activations' :
           activations'[i] = activations'[k] => i = k
  BY <1>1, <1>2, <1>5, LastActivated
<1>7. \A k \in DOMAIN activations :
        /\ activations[k] \in DOMAIN gs
        /\ MayBeActive(gs[activations[k]])
        /\ activations[k] # active => gs[activations[k]].status = "retained"
  BY DEF HistoryIsSound, SoundHistory
<1>8. \A i \in DOMAIN activations' :
        /\ activations'[i] \in DOMAIN gens'
        /\ MayBeActive(gens'[activations'[i]])
        /\ i # Len(activations') =>
             gens'[activations'[i]].status = "retained"
  <2>1. SUFFICES ASSUME NEW i \in DOMAIN activations'
        PROVE /\ activations'[i] \in DOMAIN gens'
              /\ MayBeActive(gens'[activations'[i]])
              /\ i # Len(activations') =>
                   gens'[activations'[i]].status = "retained"
    OBVIOUS
  <2>2. CASE i = Len(activations')
    BY <2>2, <1>3, <1>4, <1>6
  <2>3. CASE i # Len(activations')
    <3>1. PICK k \in DOMAIN activations : activations'[i] = activations[k]
      BY <2>3, <1>6
    <3>2. activations[k] # g
      BY <2>3, <1>6, <3>1
    <3> QED BY <2>3, <3>1, <3>2, <1>3, <1>4, <1>7
  <2> QED BY <2>2, <2>3
<1>9. active' # 0
  BY <1>1, <1>2
<1> QED BY <1>1, <1>2, <1>3, <1>4, <1>6, <1>8, <1>9
       DEF HistoryIsSound, SoundHistory

\* The active generation exists, and so do its versions.
LEMMA ActiveExists ==
  ASSUME StoreTypes, HistoryIsSound
  PROVE  /\ active # 0 => /\ active \in DOMAIN gens
                          /\ gens[active] \in Generations
                          /\ activations # <<>>
         /\ ActiveSources \in SUBSET Versions
         /\ ActiveProfile \in Profiles \cup {NoProfile}
<1>1. ASSUME active # 0
      PROVE  active \in DOMAIN gens /\ activations # <<>>
  <2>1. activations # <<>> /\ activations[Len(activations)] = active
    BY <1>1 DEF HistoryIsSound, SoundHistory
  <2>2. Len(activations) \in DOMAIN activations
    BY <2>1 DEF StoreTypes
  <2> QED BY <2>1, <2>2 DEF HistoryIsSound, SoundHistory
<1>2. active # 0 => gens[active] \in Generations
  BY <1>1 DEF StoreTypes
<1> QED BY <1>1, <1>2 DEF ActiveSources, ActiveProfile, Generations

\* What one more transaction leaves of a sound generation.
LEMMA SoundnessGrows ==
  ASSUME StoreTypes,
         NEW g \in Generations, SoundGeneration(g, artifact, fts, embedded),
         \A v \in Versions : artifact[v] # NoFile => artifact'[v] # NoFile,
         fts \subseteq fts', embedded \subseteq embedded'
  PROVE  SoundGeneration(g, artifact', fts', embedded')
BY DEF SoundGeneration, Generations

\* A generation made from stored and indexed versions is sound.
LEMMA NewIsSound ==
  ASSUME StoreTypes, HistoryIsSound,
         NEW vs \in SUBSET Versions, OneVersionEach(vs),
         NEW pol, NEW emb,
         \A v \in vs : artifact'[v] # NoFile,
         vs \subseteq fts', emb \subseteq embedded'
  PROVE  LET n == NewGeneration(vs, pol, emb)
         IN /\ n \in Generations
            /\ n.sources = vs
            /\ n.readiness \in SearchReady
            /\ SoundGeneration(n, artifact', fts', embedded')
<1> DEFINE n == NewGeneration(vs, pol, emb)
<1>1. ActiveProfile \in Profiles \cup {NoProfile}
  BY ActiveExists
<1>2. /\ n.sources = vs
      /\ n.profile = ActiveProfile
      /\ n.ready = {v \in {w \in vs : pol[SourceOf[w]]} :
                      <<v, ActiveProfile>> \in emb}
      /\ n.readiness \in SearchReady
  BY DEF NewGeneration, SearchReady
<1>3. n \in Generations
  BY <1>1 DEF NewGeneration, SearchReady, Generations, Readiness
<1>4. SoundGeneration(n, artifact', fts', embedded')
  <2> HIDE DEF n
  <2> QED BY <1>2 DEF SoundGeneration
<1> QED BY <1>2, <1>3, <1>4

\* Adding sound generations to the present ones, and activating one of them,
\* keeps everything the invariant says of generations.
LEMMA Activates ==
  ASSUME StoreTypes, HistoryIsSound,
         NEW gs \in Seq(Generations),
         DOMAIN gens \subseteq DOMAIN gs,
         \A i \in DOMAIN activations : gs[activations[i]] = gens[activations[i]],
         \A i \in DOMAIN gs :
           SoundGeneration(gs[i], artifact', fts', embedded'),
         NEW g \in DOMAIN gs, MayBeActive(gs[g]),
         ActivateIn(gs, g)
  PROVE  /\ HistoryIsSound' /\ GenerationsAreSound'
         /\ gens' \in Seq(Generations)
         /\ active' \in Nat /\ activations' \in Seq(Nat)
         /\ ActiveSources' = gs[g].sources
         /\ DOMAIN gens' = DOMAIN gs
         /\ \A i \in DOMAIN gs : gens'[i].sources = gs[i].sources
<1>1. /\ HistoryIsSound'
      /\ gens' \in Seq(Generations)
      /\ active' = g /\ active' \in Nat
      /\ activations' \in Seq(Nat)
      /\ DOMAIN gens' = DOMAIN gs
      /\ \A i \in DOMAIN gs : /\ gens'[i].sources = gs[i].sources
                              /\ gens'[i].ready = gs[i].ready
                              /\ gens'[i].profile = gs[i].profile
  BY ActivationKeepsHistory
<1>2. GenerationsAreSound'
  BY <1>1 DEF GenerationsAreSound, SoundGeneration
<1>3. active' # 0
  BY <1>1
<1> QED BY <1>1, <1>2, <1>3 DEF ActiveSources

\* One more generation behind the present ones.
LEMMA Appended ==
  ASSUME StoreTypes, GenerationsAreSound, HistoryIsSound,
         NEW n \in Generations,
         SoundGeneration(n, artifact', fts', embedded'),
         \A v \in Versions : artifact[v] # NoFile => artifact'[v] # NoFile,
         fts \subseteq fts', embedded \subseteq embedded'
  PROVE  LET gs == Append(gens, n)
         IN /\ gs \in Seq(Generations)
            /\ Len(gs) = Len(gens) + 1 /\ Len(gs) \in DOMAIN gs
            /\ gs[Len(gs)] = n
            /\ DOMAIN gens \subseteq DOMAIN gs
            /\ \A i \in DOMAIN gens : gs[i] = gens[i]
            /\ \A i \in DOMAIN activations :
                 gs[activations[i]] = gens[activations[i]]
            /\ \A i \in DOMAIN gs :
                 SoundGeneration(gs[i], artifact', fts', embedded')
<1> DEFINE gs == Append(gens, n)
<1>1. /\ gs \in Seq(Generations)
      /\ Len(gs) = Len(gens) + 1 /\ Len(gs) \in DOMAIN gs
      /\ gs[Len(gs)] = n
      /\ DOMAIN gens \subseteq DOMAIN gs
      /\ \A i \in DOMAIN gens : gs[i] = gens[i]
      /\ \A i \in DOMAIN gs : i \in DOMAIN gens \/ i = Len(gs)
  BY DEF StoreTypes
<1> HIDE DEF gs
<1>2. \A i \in DOMAIN gens : gens[i] \in Generations
  BY DEF StoreTypes
<1>3. \A i \in DOMAIN gens :
        SoundGeneration(gens[i], artifact', fts', embedded')
  BY <1>2, SoundnessGrows DEF GenerationsAreSound
<1>4. \A i \in DOMAIN activations : activations[i] \in DOMAIN gens
  BY DEF HistoryIsSound, SoundHistory
<1> QED BY <1>1, <1>3, <1>4 DEF gs

\* A history stays sound when generations are only added.
LEMMA HistoryGrows ==
  ASSUME HistoryIsSound, DOMAIN gens \subseteq DOMAIN gens',
         \A i \in DOMAIN activations :
           gens'[activations[i]] = gens[activations[i]],
         UNCHANGED <<active, activations>>
  PROVE  HistoryIsSound'
BY DEF HistoryIsSound, SoundHistory

\* _publish_generation keeps the generations and the history sound, and makes
\* exactly vs active when it activates.
LEMMA Publishes ==
  ASSUME StoreTypes, GenerationsAreSound, HistoryIsSound,
         NEW vs \in SUBSET Versions, OneVersionEach(vs),
         NEW pol, NEW allowPartial, NEW activate \in BOOLEAN,
         Publish(vs, pol, embedded, allowPartial, activate),
         \A v \in Versions : artifact[v] # NoFile => artifact'[v] # NoFile,
         \A v \in vs : artifact'[v] # NoFile,
         embedded' = embedded
  PROVE  /\ HistoryIsSound' /\ GenerationsAreSound'
         /\ gens' \in Seq(Generations)
         /\ active' \in Nat /\ activations' \in Seq(Nat)
         /\ ActiveSources' = IF activate THEN vs ELSE ActiveSources
         /\ DOMAIN gens \subseteq DOMAIN gens'
         /\ \A i \in DOMAIN gens : gens'[i].sources = gens[i].sources
<1> DEFINE n == NewGeneration(vs, pol, embedded)
           gs == Append(gens, n)
<1>1. fts' = fts \cup vs
  BY DEF Publish
<1>2. /\ n \in Generations /\ n.sources = vs /\ n.readiness \in SearchReady
      /\ SoundGeneration(n, artifact', fts', embedded')
  BY <1>1, NewIsSound
<1>3. IF activate THEN ActivateIn(gs, Len(gs))
                  ELSE gens' = gs /\ UNCHANGED <<active, activations>>
  BY DEF Publish
<1> HIDE DEF n
<1>4. /\ gs \in Seq(Generations)
      /\ Len(gs) = Len(gens) + 1 /\ Len(gs) \in DOMAIN gs
      /\ gs[Len(gs)] = n
      /\ DOMAIN gens \subseteq DOMAIN gs
      /\ \A i \in DOMAIN gens : gs[i] = gens[i]
      /\ \A i \in DOMAIN activations :
           gs[activations[i]] = gens[activations[i]]
      /\ \A i \in DOMAIN gs :
           SoundGeneration(gs[i], artifact', fts', embedded')
  BY <1>1, <1>2, Appended
<1> HIDE DEF gs
<1>5. CASE activate
  <2>1. ActivateIn(gs, Len(gs))
    BY <1>3, <1>5
  <2> QED BY <1>2, <1>4, <1>5, <2>1, Activates DEF MayBeActive
<1>6. CASE ~activate
  <2>1. gens' = gs /\ UNCHANGED <<active, activations>>
    BY <1>3, <1>6
  <2>2. HistoryIsSound'
    BY <1>4, <2>1, HistoryGrows
  <2>3. ActiveSources' = ActiveSources
    BY <1>4, <2>1, ActiveExists DEF ActiveSources
  <2>4. GenerationsAreSound'
    BY <1>4, <2>1 DEF GenerationsAreSound
  <2> QED BY <1>4, <1>6, <2>1, <2>2, <2>3, <2>4 DEF StoreTypes
<1> QED BY <1>5, <1>6

(***************************************************************************)
(* One step.  GenerationsStay is what readers rely on: a generation, once  *)
(* made, keeps its versions.                                               *)
(***************************************************************************)
GenerationsStay ==
  /\ DOMAIN gens \subseteq DOMAIN gens'
  /\ \A i \in DOMAIN gens : gens'[i].sources = gens[i].sources

\* The operation a record describes is the one its op names.
LEMMA WriterByOp ==
  ASSUME StoreTypes
  PROVE  /\ writer.op = "install" => writer \in Installs
         /\ writer.op = "import" => writer \in Imports
         /\ writer.op = "paused" => writer \in Pauses
         /\ writer.op = "index" => writer \in IndexRuns
         /\ writer.op = "bundle" => writer \in BundleImports
         /\ writer.op \in {"none", "install", "import", "paused", "index",
                           "bundle"}
BY DEF StoreTypes, Writers, Free, Installs, Imports, Pauses, IndexRuns,
       BundleImports

\* A step of an operation that touches no table.
LEMMA QuietStep ==
  ASSUME StoreInv, UNCHANGED dbVars, writer' \in Writers,
         failed' \subseteq Requests, StoredHasFile',
         InstallSound', ImportSound', BundleSound',
         writer'.op # "index"
  PROVE  /\ StoreInv' /\ GenerationsStay
         /\ ActiveSources' = ActiveSources
<1>1. UNCHANGED <<gens, active, activations, artifact, fts, embedded, policy>>
  BY DEF dbVars, generationVars
<1>2. StoreTypes'
  BY <1>1 DEF StoreInv, StoreTypes
<1>3. GenerationsAreSound'
  BY <1>1 DEF StoreInv, GenerationsAreSound
<1>4. HistoryIsSound'
  BY <1>1 DEF StoreInv, HistoryIsSound
<1>5. IndexSound'
  BY DEF IndexSound
<1> QED BY <1>1, <1>2, <1>3, <1>4, <1>5
       DEF StoreInv, GenerationsStay, ActiveSources

\* Before its commit an operation only writes files.
LEMMA BeginInstallQuiet ==
  ASSUME StoreInv, NEW vs \in SUBSET OfficialVersions,
         NEW allowPartial \in BOOLEAN, NEW activate \in BOOLEAN,
         BeginInstall(vs, allowPartial, activate)
  PROVE  StoreInv' /\ GenerationsStay /\ ActiveSources' = ActiveSources
<1> USE DEF BeginInstall
<1>1. OneVersionEach(vs)
  BY CountedOnce DEF OfficialVersions
<1>2. writer' = [op |-> "install", step |-> "commit", versions |-> vs,
                 allowPartial |-> allowPartial, activate |-> activate]
  OBVIOUS
<1>3. writer' \in Writers
  BY <1>2 DEF Writers, Installs
<1>4. UNCHANGED artifact
  BY DEF dbVars
<1>5. StoredHasFile'
  BY <1>4 DEF StoreInv, StoredHasFile
<1>6. InstallSound' /\ ImportSound' /\ BundleSound' /\ writer'.op # "index"
  BY <1>1, <1>2 DEF InstallSound, ImportSound, BundleSound, OwnFile
<1>7. failed' \subseteq Requests
  BY DEF StoreInv, StoreTypes
<1> QED BY <1>3, <1>5, <1>6, <1>7, QuietStep

\* The same of a bundle import.
LEMMA BeginBundleQuiet ==
  ASSUME StoreInv, NEW b \in Bundles,
         NEW allowPartial \in BOOLEAN, NEW activate \in BOOLEAN,
         BeginBundle(b, allowPartial, activate)
  PROVE  StoreInv' /\ GenerationsStay /\ ActiveSources' = ActiveSources
<1> USE DEF BeginBundle
<1>2. writer' = [op |-> "bundle", step |-> "commit", bundle |-> b,
                 allowPartial |-> allowPartial, activate |-> activate]
  OBVIOUS
<1>3. writer' \in Writers
  BY <1>2 DEF Writers, BundleImports
<1>4. UNCHANGED artifact
  BY DEF dbVars
<1>5. StoredHasFile'
  BY <1>4 DEF StoreInv, StoredHasFile
<1>6. InstallSound' /\ ImportSound' /\ BundleSound' /\ writer'.op # "index"
  BY <1>2 DEF InstallSound, ImportSound, BundleSound, BundleFile
<1>7. failed' \subseteq Requests
  BY DEF StoreInv, StoreTypes
<1> QED BY <1>3, <1>5, <1>6, <1>7, QuietStep

\* The same of an upload, an edit or a resumed upload.
LEMMA BeginImportQuiet ==
  ASSUME StoreInv, NEW r \in Requests, NEW v \in UserVersions,
         BeginImport(r, v), failed' \subseteq Requests
  PROVE  StoreInv' /\ GenerationsStay /\ ActiveSources' = ActiveSources
<1> USE DEF BeginImport
<1>2. writer' = [op |-> "import", step |-> "commit", request |-> r,
                 version |-> v]
  OBVIOUS
<1>3. writer' \in Writers
  BY <1>2 DEF Writers, Imports
<1>4. UNCHANGED artifact
  BY DEF dbVars
<1>5. StoredHasFile'
  BY <1>4 DEF StoreInv, StoredHasFile
<1>6. InstallSound' /\ ImportSound' /\ BundleSound' /\ writer'.op # "index"
  BY <1>2 DEF InstallSound, ImportSound, BundleSound, OwnFile
<1> QED BY <1>3, <1>5, <1>6, QuietStep

\* A clean-up removes only what no version refers to.
LEMMA CleanKeepsStored ==
  ASSUME StoreInv, NEW fs, files' = files \ Unreferenced(fs),
         UNCHANGED artifact
  PROVE  StoredHasFile'
BY DEF StoreInv, StoredHasFile, Unreferenced

\* A failed, cleaned up or cut short operation leaves the tables alone.
LEMMA StopsQuietly ==
  ASSUME StoreInv,
         \/ FailInstall \/ CleanInstall \/ FailImport \/ CleanImport
         \/ Interrupt \/ CancelPaused
         \/ \E r \in failed : DropFailed(r)
  PROVE  StoreInv' /\ GenerationsStay /\ ActiveSources' = ActiveSources
<1>0. StoreTypes /\ StoredHasFile /\ writer \in Writers /\ failed \subseteq Requests
  BY DEF StoreInv, StoreTypes
<1>1. CASE FailInstall
  <2>1. writer \in Installs /\ writer' = Cleaning
    BY <1>0, <1>1, WriterByOp DEF FailInstall
  <2>2. writer' \in Installs /\ writer'.step = "clean" /\ writer'.op = "install"
        /\ writer'.versions = writer.versions
    BY <2>1 DEF Installs, Cleaning
  <2>3. InstallSound'
    BY <1>1, <2>2 DEF InstallSound, StoreInv, FailInstall
  <2>4. StoredHasFile' /\ failed' \subseteq Requests
    BY <1>0, <1>1 DEF FailInstall, StoredHasFile, dbVars
  <2> QED BY <1>1, <2>2, <2>3, <2>4, QuietStep
         DEF FailInstall, ImportSound, BundleSound, Writers
<1>2. CASE CleanInstall
  <2>1. writer' = Free /\ UNCHANGED <<dbVars, failed>>
    BY <1>2 DEF CleanInstall
  <2>2. StoredHasFile'
    BY <1>2, CleanKeepsStored DEF CleanInstall, dbVars
  <2>3. writer' \in Writers /\ InstallSound' /\ ImportSound' /\ BundleSound'
        /\ writer'.op # "index"
    BY <2>1 DEF Writers, Free, InstallSound, ImportSound, BundleSound
  <2> QED BY <1>0, <2>1, <2>2, <2>3, QuietStep
<1>3. CASE FailImport
  <2>1. writer \in Imports /\ writer' = [writer EXCEPT !.step = "clean"]
    BY <1>0, <1>3, WriterByOp DEF FailImport
  <2>2. writer' \in Imports /\ writer'.step = "clean" /\ writer'.op = "import"
    BY <2>1 DEF Imports
  <2>3. ImportSound'
    BY <2>2 DEF ImportSound
  <2>4. StoredHasFile' /\ failed' \subseteq Requests
    BY <1>0, <1>3 DEF FailImport, StoredHasFile, dbVars
  <2> QED BY <1>3, <2>2, <2>3, <2>4, QuietStep
         DEF FailImport, InstallSound, BundleSound, Writers
<1>4. CASE CleanImport
  <2>1. writer' = Free /\ UNCHANGED dbVars
    BY <1>4 DEF CleanImport
  <2>2. StoredHasFile'
    BY <1>4, CleanKeepsStored DEF CleanImport, dbVars
  <2>3. writer' \in Writers /\ InstallSound' /\ ImportSound' /\ BundleSound'
        /\ writer'.op # "index"
    BY <2>1 DEF Writers, Free, InstallSound, ImportSound, BundleSound
  <2>4. writer.request \in Requests
    BY <1>0, <1>4, WriterByOp DEF CleanImport, Imports
  <2>5. failed' \subseteq Requests
    BY <1>0, <1>4, <2>4 DEF CleanImport, Retry
  <2> QED BY <2>1, <2>2, <2>3, <2>5, QuietStep
<1>5. CASE Interrupt
  <2>1. UNCHANGED <<dbVars, files, failed>>
    BY <1>5 DEF Interrupt
  <2>2. writer' = Free \/ writer' \in Pauses
    <3>1. CASE writer.op = "import"
      <4>1. writer.request \in Requests
        BY <1>0, <3>1, WriterByOp DEF Imports
      <4> QED BY <1>5, <4>1 DEF Interrupt, Paused, Pauses
    <3>2. CASE writer.op # "import"
      BY <1>5, <3>2 DEF Interrupt
    <3> QED BY <3>1, <3>2
  <2>3. StoredHasFile' /\ failed' \subseteq Requests
    BY <1>0, <2>1 DEF StoredHasFile, dbVars
  <2>4. writer' \in Writers /\ InstallSound' /\ ImportSound' /\ BundleSound'
        /\ writer'.op # "index"
    BY <2>2 DEF Writers, Free, Pauses, InstallSound, ImportSound, BundleSound
  <2> QED BY <2>1, <2>3, <2>4, QuietStep
<1>6. CASE CancelPaused
  <2>1. writer' = Free /\ UNCHANGED <<dbVars, files, failed>>
    BY <1>6 DEF CancelPaused
  <2>3. StoredHasFile' /\ failed' \subseteq Requests
    BY <1>0, <2>1 DEF StoredHasFile, dbVars
  <2>4. writer' \in Writers /\ InstallSound' /\ ImportSound' /\ BundleSound'
        /\ writer'.op # "index"
    BY <2>1 DEF Writers, Free, InstallSound, ImportSound, BundleSound
  <2> QED BY <2>1, <2>3, <2>4, QuietStep
<1>7. CASE \E r \in failed : DropFailed(r)
  <2>1. PICK r \in failed : DropFailed(r)
    BY <1>7
  <2>2. UNCHANGED dbVars /\ UNCHANGED <<files, writer>>
        /\ failed' \subseteq Requests
    BY <1>0, <2>1 DEF DropFailed
  <2>3. UNCHANGED <<gens, active, activations, artifact, fts, embedded, policy>>
    BY <2>2 DEF dbVars, generationVars
  <2>4. StoreTypes'
    BY <1>0, <2>2, <2>3 DEF StoreTypes
  <2>5. /\ GenerationsAreSound' /\ HistoryIsSound' /\ StoredHasFile'
        /\ InstallSound' /\ ImportSound' /\ BundleSound'
    BY <2>2, <2>3 DEF StoreInv, GenerationsAreSound, HistoryIsSound,
       StoredHasFile, InstallSound, ImportSound, BundleSound
  <2>6. IndexSound' /\ ActiveSources' = ActiveSources
    BY <2>2, <2>3 DEF StoreInv, IndexSound, ActiveSources
  <2> QED BY <2>3, <2>4, <2>5, <2>6 DEF StoreInv, GenerationsStay
<1> QED BY <1>1, <1>2, <1>3, <1>4, <1>5, <1>6, <1>7

\* Versions taken out of, or put into, the active ones keep one per source.
LEMMA Changed ==
  ASSUME StoreTypes, HistoryIsSound, GenerationsAreSound
  PROVE  /\ OneVersionEach(ActiveSources)
         /\ \A v \in ActiveSources : artifact[v] # NoFile
         /\ \A ss : /\ Without(ss) \in SUBSET Versions
                    /\ Without(ss) \subseteq ActiveSources
                    /\ OneVersionEach(Without(ss))
         /\ \A vs \in SUBSET Versions :
              /\ With(vs) \in SUBSET Versions
              /\ With(vs) \subseteq ActiveSources \cup vs
              /\ OneVersionEach(vs) => OneVersionEach(With(vs))
<1>1. ActiveSources \in SUBSET Versions
  BY ActiveExists
<1>2. /\ OneVersionEach(ActiveSources)
      /\ \A v \in ActiveSources : artifact[v] # NoFile
  BY ActiveExists DEF GenerationsAreSound, SoundGeneration, ActiveSources,
     OneVersionEach
<1> QED BY <1>1, <1>2 DEF Without, With, OneVersionEach, SourcesIn

\* What NowStored leaves of the artifact column.
LEMMA StoresMore ==
  ASSUME StoreTypes, NEW vs \in SUBSET Versions,
         NEW uri, DOMAIN uri = vs,
         \A v \in vs : uri[v] \in Artifacts /\ uri[v] # NoFile,
         artifact' = NowStored(uri)
  PROVE  /\ artifact' \in [Versions -> Artifacts]
         /\ \A v \in Versions : artifact[v] # NoFile => artifact'[v] = artifact[v]
         /\ \A v \in vs : artifact'[v] # NoFile
         /\ \A v \in Versions : artifact'[v] # NoFile =>
              artifact'[v] = artifact[v] \/ (v \in vs /\ artifact'[v] = uri[v])
BY DEF StoreTypes, NowStored, Stored

\* What a commit has to show: nothing more is known of the operation after it.
LEMMA CommitStep ==
  ASSUME StoreInv,
         gens' \in Seq(Generations), active' \in Nat, activations' \in Seq(Nat),
         artifact' \in [Versions -> Artifacts],
         policy' \in [Sources -> BOOLEAN],
         GenerationsAreSound', HistoryIsSound', StoredHasFile',
         writer' = Free, UNCHANGED failed
  PROVE  StoreInv'
<1>1. StoreTypes'
  BY DEF StoreInv, StoreTypes, Writers
<1>2. InstallSound' /\ ImportSound' /\ BundleSound' /\ IndexSound'
  BY DEF Free, InstallSound, ImportSound, BundleSound, IndexSound
<1> QED BY <1>1, <1>2 DEF StoreInv

\* Publishing changes of the packs and of the resources, in one transaction.
LEMMA MutationPublishes ==
  ASSUME StoreInv, Mutation, NEW vs \in SUBSET Versions, OneVersionEach(vs),
         \A v \in vs : artifact[v] # NoFile, NEW pol,
         Publish(vs, pol, embedded, TRUE, TRUE),
         UNCHANGED <<artifact, embedded>>, policy' \in [Sources -> BOOLEAN]
  PROVE  StoreInv' /\ GenerationsStay /\ ActiveSources' = vs
<1>1. StoreTypes /\ GenerationsAreSound /\ HistoryIsSound
  BY DEF StoreInv
<1>2. /\ HistoryIsSound' /\ GenerationsAreSound'
      /\ gens' \in Seq(Generations)
      /\ active' \in Nat /\ activations' \in Seq(Nat)
      /\ ActiveSources' = vs
      /\ DOMAIN gens \subseteq DOMAIN gens'
      /\ \A i \in DOMAIN gens : gens'[i].sources = gens[i].sources
  BY <1>1, Publishes
<1>3. StoredHasFile'
  BY DEF StoreInv, StoredHasFile, Mutation
<1>4. StoreInv'
  BY <1>2, <1>3, CommitStep DEF Mutation, Idle, StoreInv, StoreTypes
<1> QED BY <1>2, <1>4 DEF GenerationsStay

\* Activating a generation that is there: activate_generation and rollback.
LEMMA MutationActivates ==
  ASSUME StoreInv, Mutation, NEW g \in DOMAIN gens,
         MayBeActive(gens[g]), ActivateIn(gens, g),
         UNCHANGED <<artifact, fts, embedded, policy>>
  PROVE  StoreInv' /\ GenerationsStay
<1>1. StoreTypes /\ GenerationsAreSound /\ HistoryIsSound /\ gens \in Seq(Generations)
  BY DEF StoreInv, StoreTypes
<1>2. \A i \in DOMAIN gens : SoundGeneration(gens[i], artifact', fts', embedded')
  BY <1>1 DEF GenerationsAreSound
<1>3. /\ HistoryIsSound' /\ GenerationsAreSound'
      /\ gens' \in Seq(Generations)
      /\ active' \in Nat /\ activations' \in Seq(Nat)
      /\ DOMAIN gens' = DOMAIN gens
      /\ \A i \in DOMAIN gens : gens'[i].sources = gens[i].sources
  BY <1>1, <1>2, Activates
<1>4. StoredHasFile'
  BY DEF StoreInv, StoredHasFile, Mutation
<1>5. StoreInv'
  BY <1>3, <1>4, CommitStep DEF Mutation, Idle, StoreInv, StoreTypes
<1> QED BY <1>3, <1>5 DEF GenerationsStay

\* The present generation stays when nothing was published.
LEMMA NothingPublished ==
  ASSUME StoreInv, UNCHANGED <<generationVars, fts, embedded>>,
         \A v \in Versions : artifact[v] # NoFile => artifact'[v] # NoFile
  PROVE  /\ HistoryIsSound' /\ GenerationsAreSound'
         /\ gens' \in Seq(Generations)
         /\ active' \in Nat /\ activations' \in Seq(Nat)
         /\ GenerationsStay
         /\ ActiveSources' = ActiveSources
<1>1. UNCHANGED <<gens, active, activations>>
  BY DEF generationVars
<1>2. \A i \in DOMAIN gens : gens[i] \in Generations
  BY DEF StoreInv, StoreTypes
<1>3. GenerationsAreSound'
  BY <1>1, <1>2, SoundnessGrows DEF StoreInv, GenerationsAreSound
<1>4. HistoryIsSound'
  BY <1>1 DEF StoreInv, HistoryIsSound
<1> QED BY <1>1, <1>3, <1>4
       DEF StoreInv, StoreTypes, GenerationsStay, ActiveSources

\* The mutations of one transaction.
LEMMA MutationInv ==
  ASSUME StoreInv, MutationStep
  PROVE  StoreInv' /\ GenerationsStay
<1>0. /\ StoreTypes /\ GenerationsAreSound /\ HistoryIsSound
      /\ gens \in Seq(Generations) /\ policy \in [Sources -> BOOLEAN]
  BY DEF StoreInv, StoreTypes
<1>1. ASSUME NEW g \in DOMAIN gens, NEW allowPartial \in BOOLEAN,
             ActivateGeneration(g, allowPartial)
      PROVE  StoreInv' /\ GenerationsStay
  BY <1>1, MutationActivates DEF ActivateGeneration, MayBeActive
<1>2. CASE Rollback
  <2>1. PICK i \in Retained : ActivateIn(gens, activations[i])
    BY <1>2 DEF Rollback
  <2>2. i \in DOMAIN activations
    BY DEF Retained
  <2>3. activations[i] \in DOMAIN gens
        /\ MayBeActive(gens[activations[i]])
    BY <1>0, <2>2 DEF HistoryIsSound, SoundHistory
  <2> QED BY <1>2, <2>1, <2>3, MutationActivates DEF Rollback
<1>3. ASSUME NEW ss \in SUBSET PackSources, RemoveSources(ss)
      PROVE  StoreInv' /\ GenerationsStay
  <2>1. /\ Without(ss) \in SUBSET Versions /\ OneVersionEach(Without(ss))
        /\ \A v \in Without(ss) : artifact[v] # NoFile
    BY <1>0, Changed
  <2> QED BY <1>0, <1>3, <2>1, MutationPublishes DEF RemoveSources
<1>4. ASSUME NEW vs \in SUBSET OfficialVersions, RestoreSources(vs)
      PROVE  StoreInv' /\ GenerationsStay
  <2>1. vs \in SUBSET Versions /\ OneVersionEach(vs)
        /\ \A v \in vs : artifact[v] # NoFile
    BY <1>4, CountedOnce DEF RestoreSources, OfficialVersions, Stored
  <2>2. /\ With(vs) \in SUBSET Versions /\ OneVersionEach(With(vs))
        /\ \A v \in With(vs) : artifact[v] # NoFile
    BY <1>0, <2>1, Changed
  <2> QED BY <1>0, <1>4, <2>2, MutationPublishes DEF RestoreSources
<1>5. ASSUME NEW s \in UserSources, RemoveResource(s)
      PROVE  StoreInv' /\ GenerationsStay
  <2>1. /\ Without({s}) \in SUBSET Versions /\ OneVersionEach(Without({s}))
        /\ \A v \in Without({s}) : artifact[v] # NoFile
    BY <1>0, Changed
  <2> QED BY <1>0, <1>5, <2>1, MutationPublishes DEF RemoveResource
<1>6. ASSUME NEW s \in UserSources, NEW allowed \in BOOLEAN,
             SetModelUse(s, allowed)
      PROVE  StoreInv' /\ GenerationsStay
  <2>1. policy' \in [Sources -> BOOLEAN]
    BY <1>0, <1>6 DEF SetModelUse, Sources
  <2>2. CASE ActiveVersionsOf(s) # {}
    <3>1. /\ ActiveSources \in SUBSET Versions
          /\ OneVersionEach(ActiveSources)
          /\ \A v \in ActiveSources : artifact[v] # NoFile
      BY <1>0, ActiveExists, Changed
    <3>2. Mutation /\ Publish(ActiveSources, policy', embedded, TRUE, TRUE)
          /\ UNCHANGED <<artifact, embedded>>
      BY <1>6, <2>2 DEF SetModelUse
    <3> QED BY <2>1, <3>1, <3>2, MutationPublishes
  <2>3. CASE ActiveVersionsOf(s) = {}
    <3>1. UNCHANGED <<generationVars, fts, embedded>> /\ UNCHANGED artifact
      BY <1>6, <2>3 DEF SetModelUse
    <3>2. StoredHasFile' /\ artifact' \in [Versions -> Artifacts]
          /\ writer' = Free /\ UNCHANGED failed
      BY <1>0, <1>6, <3>1
         DEF StoreInv, StoreTypes, StoredHasFile, SetModelUse, Mutation, Idle
    <3> QED BY <2>1, <3>1, <3>2, NothingPublished, CommitStep
  <2> QED BY <2>2, <2>3
<1>7. ASSUME NEW v \in UserVersions, RestoreResource(v)
      PROVE  StoreInv' /\ GenerationsStay
  <2>1. {v} \in SUBSET Versions /\ OneVersionEach({v}) /\ artifact[v] # NoFile
    BY <1>7 DEF RestoreResource, UserVersions, Stored, OneVersionEach
  <2>2. /\ With({v}) \in SUBSET Versions /\ OneVersionEach(With({v}))
        /\ \A w \in With({v}) : artifact[w] # NoFile
    BY <1>0, <2>1, Changed
  <2> QED BY <1>0, <1>7, <2>2, MutationPublishes DEF RestoreResource
<1> QED BY <1>1, <1>2, <1>3, <1>4, <1>5, <1>6, <1>7 DEF MutationStep

\* A file name is never the null of the artifact column.
LEMMA FileNames ==
  \A v \in Versions : /\ OwnFile(v) \in Artifacts /\ OwnFile(v) # NoFile
                      /\ BundleFile(v) \in Artifacts /\ BundleFile(v) # NoFile
<1> TAKE v \in Versions
<1>1. OwnFile(v) # NoFile /\ BundleFile(v) # NoFile
  BY DEF OwnFile, BundleFile, NoFile
<1> QED BY <1>1 DEF Artifacts

\* The transaction of install_artifacts.
LEMMA CommitInstallInv ==
  ASSUME StoreInv, CommitInstall
  PROVE  StoreInv' /\ GenerationsStay
         /\ UserPart(ActiveSources') = UserPart(ActiveSources)
<1>0. /\ StoreTypes /\ GenerationsAreSound /\ HistoryIsSound
      /\ policy \in [Sources -> BOOLEAN] /\ InstallSound /\ StoredHasFile
  BY DEF StoreInv, StoreTypes
<1>1. /\ writer \in Installs /\ writer.step = "commit"
      /\ writer' = Cleaning
      /\ UNCHANGED <<files, embedded, failed>>
  BY <1>0, WriterByOp DEF CommitInstall
<1>2. PICK chosen \in [writer.versions -> Versions] :
        /\ \A v \in writer.versions : chosen[v] \in StoredAs(v)
        /\ LET picked == {chosen[v] : v \in writer.versions}
               allowed == [s \in Sources |->
                             s \in SourcesIn(writer.versions) \/ policy[s]]
           IN /\ artifact' = NowStored([v \in picked |-> OwnFile(v)])
              /\ policy' = allowed
              /\ IF active # 0 /\ With(picked) = ActiveSources
                   THEN UNCHANGED <<generationVars, fts>>
                   ELSE Publish(With(picked), allowed, embedded,
                                writer.allowPartial, writer.activate)
  BY DEF CommitInstall
<1> DEFINE picked == {chosen[v] : v \in writer.versions}
           allowed == [s \in Sources |->
                         s \in SourcesIn(writer.versions) \/ policy[s]]
           uri == [v \in picked |-> OwnFile(v)]
<1>3. /\ writer.versions \in SUBSET OfficialVersions
      /\ writer.activate \in BOOLEAN
      /\ OneVersionEach(writer.versions)
      /\ \A v \in writer.versions : OwnFile(v) \in files
  BY <1>0, <1>1 DEF InstallSound, Installs
<1>4. \A v \in writer.versions :
        /\ SourceOf[chosen[v]] = SourceOf[v]
        /\ artifact[chosen[v]] # NoFile \/ chosen[v] = v
  BY <1>2, <1>3 DEF StoredAs, Stored, OfficialVersions
<1>5. /\ picked \in SUBSET Versions /\ OneVersionEach(picked)
      /\ \A v \in picked : SourceOf[v] \in OfficialSources
      /\ \A v \in picked : artifact[v] # NoFile \/ v \in writer.versions
  BY <1>2, <1>3, <1>4 DEF OneVersionEach, OfficialVersions
<1>6. /\ artifact' = NowStored(uri) /\ policy' = allowed
      /\ IF active # 0 /\ With(picked) = ActiveSources
           THEN UNCHANGED <<generationVars, fts>>
           ELSE Publish(With(picked), allowed, embedded,
                        writer.allowPartial, writer.activate)
  BY <1>2
<1>7. /\ DOMAIN uri = picked
      /\ \A v \in picked : uri[v] = OwnFile(v)
      /\ allowed \in [Sources -> BOOLEAN]
  BY <1>0
<1> HIDE DEF picked, allowed, uri
<1>8. /\ artifact' \in [Versions -> Artifacts]
      /\ \A v \in Versions : artifact[v] # NoFile => artifact'[v] = artifact[v]
      /\ \A v \in picked : artifact'[v] # NoFile
      /\ \A v \in Versions : artifact'[v] # NoFile =>
           artifact'[v] = artifact[v] \/ (v \in picked /\ artifact'[v] = uri[v])
  <2>1. \A v \in picked : uri[v] \in Artifacts /\ uri[v] # NoFile
    BY <1>5, <1>7, FileNames
  <2> QED BY <1>0, <1>5, <1>6, <1>7, <2>1, StoresMore
<1>9. StoredHasFile'
  BY <1>0, <1>1, <1>3, <1>5, <1>7, <1>8 DEF StoredHasFile
<1>10. /\ With(picked) \in SUBSET Versions
       /\ OneVersionEach(With(picked))
       /\ \A v \in With(picked) : artifact'[v] # NoFile
  <2>1. /\ With(picked) \in SUBSET Versions
        /\ With(picked) \subseteq ActiveSources \cup picked
        /\ OneVersionEach(With(picked))
        /\ \A v \in ActiveSources : artifact[v] # NoFile
    BY <1>0, <1>5, Changed
  <2>2. ActiveSources \in SUBSET Versions
    BY <1>0, ActiveExists
  <2> QED BY <1>5, <1>8, <2>1, <2>2
<1>11. UserPart(With(picked)) = UserPart(ActiveSources)
  BY <1>5, SourcesAssumption DEF UserPart, With, Without, SourcesIn
<1>12. /\ HistoryIsSound' /\ GenerationsAreSound'
       /\ gens' \in Seq(Generations)
       /\ active' \in Nat /\ activations' \in Seq(Nat)
       /\ GenerationsStay
       /\ UserPart(ActiveSources') = UserPart(ActiveSources)
  <2>1. CASE active # 0 /\ With(picked) = ActiveSources
    <3>1. UNCHANGED <<generationVars, fts, embedded>>
      BY <1>1, <1>6, <2>1
    <3> QED BY <1>8, <3>1, NothingPublished
  <2>2. CASE ~(active # 0 /\ With(picked) = ActiveSources)
    <3>1. Publish(With(picked), allowed, embedded,
                  writer.allowPartial, writer.activate)
      BY <1>6, <2>2
    <3>2. /\ HistoryIsSound' /\ GenerationsAreSound'
          /\ gens' \in Seq(Generations)
          /\ active' \in Nat /\ activations' \in Seq(Nat)
          /\ ActiveSources' = IF writer.activate THEN With(picked)
                              ELSE ActiveSources
          /\ DOMAIN gens \subseteq DOMAIN gens'
          /\ \A i \in DOMAIN gens : gens'[i].sources = gens[i].sources
      BY <1>0, <1>1, <1>3, <1>8, <1>10, <3>1, Publishes
    <3> QED BY <1>11, <3>2 DEF GenerationsStay
  <2> QED BY <2>1, <2>2
<1>13. /\ writer' \in Installs /\ writer'.step = "clean"
       /\ writer'.op = "install" /\ writer'.versions = writer.versions
  BY <1>1 DEF Installs, Cleaning
<1>14. StoreTypes'
  BY <1>0, <1>1, <1>6, <1>7, <1>8, <1>12, <1>13 DEF StoreTypes, Writers
<1>15. InstallSound' /\ ImportSound' /\ BundleSound' /\ IndexSound'
  BY <1>3, <1>13 DEF InstallSound, ImportSound, BundleSound, IndexSound
<1> QED BY <1>9, <1>12, <1>14, <1>15 DEF StoreInv

\* The transaction of _install_version.
LEMMA CommitImportInv ==
  ASSUME StoreInv, CommitImport
  PROVE  StoreInv' /\ GenerationsStay
<1>0. /\ StoreTypes /\ GenerationsAreSound /\ HistoryIsSound
      /\ policy \in [Sources -> BOOLEAN] /\ ImportSound /\ StoredHasFile
  BY DEF StoreInv, StoreTypes
<1> DEFINE v == writer.version
           r == writer.request
           uri == [w \in {v} |-> OwnFile(w)]
<1>1. /\ writer \in Imports /\ OwnFile(v) \in files
      /\ writer' = Free
      /\ UNCHANGED <<files, embedded, failed>>
      /\ artifact' = NowStored(uri)
      /\ policy' = [policy EXCEPT ![r.source] = r.use]
      /\ IF v \in ActiveSources
           THEN UNCHANGED <<generationVars, fts>>
           ELSE Publish(With({v}), policy', embedded, TRUE, TRUE)
  BY <1>0, WriterByOp DEF CommitImport, ImportSound
<1>2. v \in Versions /\ r \in Requests
  BY <1>1 DEF Imports, UserVersions
<1>3. policy' \in [Sources -> BOOLEAN]
  BY <1>0, <1>1, <1>2 DEF Requests, Sources
<1>4. DOMAIN uri = {v} /\ uri[v] = OwnFile(v)
  OBVIOUS
<1> HIDE DEF v, r, uri
<1>5. /\ artifact' \in [Versions -> Artifacts]
      /\ \A w \in Versions : artifact[w] # NoFile => artifact'[w] = artifact[w]
      /\ \A w \in {v} : artifact'[w] # NoFile
      /\ \A w \in Versions : artifact'[w] # NoFile =>
           artifact'[w] = artifact[w] \/ (w \in {v} /\ artifact'[w] = uri[w])
  <2>1. {v} \in SUBSET Versions
        /\ \A w \in {v} : uri[w] \in Artifacts /\ uri[w] # NoFile
    BY <1>2, <1>4, FileNames
  <2> QED BY <1>0, <1>1, <1>4, <2>1, StoresMore
<1>6. StoredHasFile'
  BY <1>0, <1>1, <1>4, <1>5 DEF StoredHasFile
<1>7. /\ HistoryIsSound' /\ GenerationsAreSound'
      /\ gens' \in Seq(Generations)
      /\ active' \in Nat /\ activations' \in Seq(Nat)
      /\ GenerationsStay
  <2>1. CASE v \in ActiveSources
    <3>1. UNCHANGED <<generationVars, fts, embedded>>
      BY <1>1, <2>1
    <3> QED BY <1>5, <3>1, NothingPublished
  <2>2. CASE v \notin ActiveSources
    <3>1. Publish(With({v}), policy', embedded, TRUE, TRUE)
      BY <1>1, <2>2
    <3>2. {v} \in SUBSET Versions /\ OneVersionEach({v})
      BY <1>2 DEF OneVersionEach
    <3>3. /\ With({v}) \in SUBSET Versions
          /\ With({v}) \subseteq ActiveSources \cup {v}
          /\ OneVersionEach(With({v}))
          /\ \A w \in ActiveSources : artifact[w] # NoFile
          /\ ActiveSources \in SUBSET Versions
      BY <1>0, <3>2, Changed, ActiveExists
    <3>4. \A w \in With({v}) : artifact'[w] # NoFile
      BY <1>5, <3>3
    <3>5. /\ HistoryIsSound' /\ GenerationsAreSound'
          /\ gens' \in Seq(Generations)
          /\ active' \in Nat /\ activations' \in Seq(Nat)
          /\ DOMAIN gens \subseteq DOMAIN gens'
          /\ \A i \in DOMAIN gens : gens'[i].sources = gens[i].sources
      BY <1>0, <1>1, <1>5, <3>1, <3>3, <3>4, Publishes
    <3> QED BY <3>5 DEF GenerationsStay
  <2> QED BY <2>1, <2>2
<1> QED BY <1>1, <1>3, <1>5, <1>6, <1>7, CommitStep

\* The transaction of a bundle import.
LEMMA CommitBundleInv ==
  ASSUME StoreInv, CommitBundle
  PROVE  StoreInv' /\ GenerationsStay
         /\ UserPart(ActiveSources') = UserPart(ActiveSources)
<1>0. /\ StoreTypes /\ GenerationsAreSound /\ HistoryIsSound
      /\ policy \in [Sources -> BOOLEAN] /\ BundleSound /\ StoredHasFile
  BY DEF StoreInv, StoreTypes
<1> DEFINE b == writer.bundle
           mine == ActiveUserVersions
           vs == mine \cup b.sources
           n == BundleGeneration(b)
           gs == Append(gens, n)
           emb == embedded \cup (b.ready \X {b.profile})
           uri == [v \in b.sources |-> BundleFile(v)]
           merged == NewGeneration(vs, policy, emb)
           ms == Append(gs, merged)
<1>1. /\ writer \in BundleImports
      /\ writer' = Free
      /\ UNCHANGED <<files, policy, failed>>
      /\ artifact' = NowStored(uri)
      /\ embedded' = emb
      /\ fts' = fts \cup b.sources
      /\ IF ~writer.activate
           THEN gens' = gs /\ UNCHANGED <<active, activations>>
         ELSE IF mine = {} THEN ActivateIn(gs, Len(gs))
         ELSE ActivateIn(ms, Len(gs) + 1)
  BY <1>0, WriterByOp DEF CommitBundle
<1>2. /\ b \in Bundles /\ b.sources \subseteq OfficialVersions
      /\ b.sources \in SUBSET Versions
      /\ OneVersionEach(b.sources)
      /\ b.ready \subseteq b.sources
      /\ b.profile \in Profiles \cup {NoProfile}
      /\ b.readiness \in Readiness
      /\ \A v \in b.sources : BundleFile(v) \in files
  BY <1>0, <1>1, BundlesAssumption
     DEF BundleImports, BundleSound, OneVersionEach, OfficialVersions
<1>3. /\ n \in Generations
      /\ n.sources = b.sources /\ n.ready = b.ready /\ n.profile = b.profile
      /\ MayBeActive(n)
  BY <1>2 DEF BundleGeneration, Generations, MayBeActive
<1>4. /\ DOMAIN uri = b.sources
      /\ \A v \in b.sources : uri[v] = BundleFile(v)
  OBVIOUS
<1>5. /\ embedded \subseteq emb
      /\ \A v \in b.ready : <<v, b.profile>> \in emb
  OBVIOUS
<1> HIDE DEF b, n, uri, emb
<1>6. /\ artifact' \in [Versions -> Artifacts]
      /\ \A v \in Versions : artifact[v] # NoFile => artifact'[v] = artifact[v]
      /\ \A v \in b.sources : artifact'[v] # NoFile
      /\ \A v \in Versions : artifact'[v] # NoFile =>
           artifact'[v] = artifact[v]
           \/ (v \in b.sources /\ artifact'[v] = uri[v])
  <2>1. \A v \in b.sources : uri[v] \in Artifacts /\ uri[v] # NoFile
    BY <1>2, <1>4, FileNames
  <2> DEFINE bs == b.sources
  <2>2. /\ bs \in SUBSET Versions /\ DOMAIN uri = bs
        /\ \A v \in bs : uri[v] \in Artifacts /\ uri[v] # NoFile
        /\ artifact' = NowStored(uri)
    BY <1>1, <1>2, <1>4, <2>1
  <2> HIDE DEF bs
  <2>3. /\ artifact' \in [Versions -> Artifacts]
        /\ \A v \in Versions : artifact[v] # NoFile => artifact'[v] = artifact[v]
        /\ \A v \in bs : artifact'[v] # NoFile
        /\ \A v \in Versions : artifact'[v] # NoFile =>
             artifact'[v] = artifact[v] \/ (v \in bs /\ artifact'[v] = uri[v])
    BY <1>0, <2>2, StoresMore
  <2> QED BY <2>3 DEF bs
<1>7. StoredHasFile'
  BY <1>0, <1>1, <1>2, <1>4, <1>6 DEF StoredHasFile
<1>8. SoundGeneration(n, artifact', fts', embedded')
  BY <1>1, <1>2, <1>3, <1>5, <1>6 DEF SoundGeneration
<1>9. /\ gs \in Seq(Generations)
      /\ Len(gs) = Len(gens) + 1 /\ Len(gs) \in DOMAIN gs
      /\ gs[Len(gs)] = n
      /\ DOMAIN gens \subseteq DOMAIN gs
      /\ \A i \in DOMAIN gens : gs[i] = gens[i]
      /\ \A i \in DOMAIN activations :
           gs[activations[i]] = gens[activations[i]]
      /\ \A i \in DOMAIN gs :
           SoundGeneration(gs[i], artifact', fts', embedded')
  BY <1>0, <1>1, <1>3, <1>5, <1>6, <1>8, Appended
<1>10. ActiveSources \in SUBSET Versions /\ OneVersionEach(ActiveSources)
       /\ \A v \in ActiveSources : artifact[v] # NoFile
  BY <1>0, ActiveExists, Changed
<1>11. UserPart(b.sources) = {} /\ mine = UserPart(ActiveSources)
  BY <1>2, SourcesAssumption
     DEF UserPart, OfficialVersions, ActiveUserVersions
<1>12. /\ HistoryIsSound' /\ GenerationsAreSound'
       /\ gens' \in Seq(Generations)
       /\ active' \in Nat /\ activations' \in Seq(Nat)
       /\ GenerationsStay
       /\ UserPart(ActiveSources') = UserPart(ActiveSources)
  <2>1. CASE ~writer.activate
    <3>1. gens' = gs /\ UNCHANGED <<active, activations>>
      BY <1>1, <2>1
    <3> HIDE DEF gs
    <3>2. HistoryIsSound'
      BY <1>0, <1>9, <3>1, HistoryGrows
    <3>3. ActiveSources' = ActiveSources
      BY <1>0, <1>9, <3>1, ActiveExists DEF ActiveSources
    <3>4. GenerationsAreSound'
      BY <1>9, <3>1 DEF GenerationsAreSound
    <3> QED BY <1>0, <1>9, <3>1, <3>2, <3>3, <3>4
           DEF StoreTypes, GenerationsStay
  <2>2. CASE writer.activate /\ mine = {}
    <3>1. ActivateIn(gs, Len(gs))
      BY <1>1, <2>2
    <3> HIDE DEF gs
    <3>2. /\ HistoryIsSound' /\ GenerationsAreSound'
          /\ gens' \in Seq(Generations)
          /\ active' \in Nat /\ activations' \in Seq(Nat)
          /\ ActiveSources' = n.sources
          /\ DOMAIN gens' = DOMAIN gs
          /\ \A i \in DOMAIN gs : gens'[i].sources = gs[i].sources
      BY <1>0, <1>3, <1>9, <3>1, Activates
    <3> QED BY <1>3, <1>9, <1>11, <2>2, <3>2 DEF GenerationsStay
  <2>3. CASE writer.activate /\ mine # {}
    <3>1. ActivateIn(ms, Len(gs) + 1)
      BY <1>1, <2>3
    <3>2. vs \in SUBSET Versions /\ OneVersionEach(vs)
          /\ \A v \in vs : artifact'[v] # NoFile
      BY <1>2, <1>6, <1>10, SourcesAssumption
         DEF OneVersionEach, ActiveUserVersions, OfficialVersions
    <3>3. vs \subseteq fts'
      <4>1. ActiveSources \subseteq fts
        BY <1>0, ActiveExists
           DEF GenerationsAreSound, SoundGeneration, ActiveSources
      <4> QED BY <1>1, <4>1 DEF ActiveUserVersions
    <3>4. /\ merged \in Generations /\ merged.sources = vs
          /\ merged.readiness \in SearchReady
          /\ SoundGeneration(merged, artifact', fts', embedded')
      <4> HIDE DEF vs
      <4> QED BY <1>0, <1>1, <3>2, <3>3, NewIsSound
    <3> HIDE DEF gs, merged
    <3>5. /\ ms \in Seq(Generations)
          /\ Len(gs) + 1 \in DOMAIN ms
          /\ ms[Len(gs) + 1] = merged
          /\ DOMAIN gs \subseteq DOMAIN ms
          /\ \A i \in DOMAIN gs : ms[i] = gs[i]
          /\ \A i \in DOMAIN ms : i \in DOMAIN gs \/ i = Len(gs) + 1
      BY <1>9, <3>4
    <3> HIDE DEF ms
    <3>6. \A i \in DOMAIN ms :
            SoundGeneration(ms[i], artifact', fts', embedded')
      BY <1>9, <3>4, <3>5
    <3>7. \A i \in DOMAIN activations :
            ms[activations[i]] = gens[activations[i]]
      BY <1>0, <1>9, <3>5 DEF HistoryIsSound, SoundHistory
    <3>8. DOMAIN gens \subseteq DOMAIN ms
      BY <1>9, <3>5
    <3>9. /\ HistoryIsSound' /\ GenerationsAreSound'
          /\ gens' \in Seq(Generations)
          /\ active' \in Nat /\ activations' \in Seq(Nat)
          /\ ActiveSources' = merged.sources
          /\ DOMAIN gens' = DOMAIN ms
          /\ \A i \in DOMAIN ms : gens'[i].sources = ms[i].sources
      BY <1>0, <3>1, <3>4, <3>5, <3>6, <3>7, <3>8, Activates DEF MayBeActive
    <3>10. UserPart(vs) = mine
      BY <1>11 DEF UserPart
    <3> QED BY <1>9, <1>11, <3>4, <3>5, <3>8, <3>9, <3>10 DEF GenerationsStay
  <2> QED BY <1>1, <2>1, <2>2, <2>3
<1> QED BY <1>0, <1>1, <1>6, <1>7, <1>12, CommitStep

\* Replacing one member of a sequence.
LEMMA Replaced ==
  ASSUME NEW S, NEW s \in Seq(S), NEW i \in DOMAIN s, NEW x \in S
  PROVE  [s EXCEPT ![i] = x] \in Seq(S)
OBVIOUS

\* Staging an index run copies the active generation.
LEMMA StageIndexInv ==
  ASSUME StoreInv, NEW p \in Profiles, StageIndex(p)
  PROVE  StoreInv' /\ GenerationsStay /\ ActiveSources' = ActiveSources
<1>0. /\ StoreTypes /\ GenerationsAreSound /\ HistoryIsSound /\ StoredHasFile
      /\ active # 0
  BY DEF StoreInv, StageIndex
<1> DEFINE eligible == {v \in ActiveSources : policy[SourceOf[v]]}
           ready == {v \in eligible : <<v, p>> \in embedded}
           n == [gens[active] EXCEPT !.status = "staged", !.profile = p,
                   !.ready = ready, !.readiness = "embedding_staging",
                   !.bundle = {}]
           gs == Append(gens, n)
<1>1. /\ gens' = gs
      /\ writer' = [op |-> "index", step |-> "embed", gen |-> Len(gens) + 1,
                    missing |-> eligible \ ready, batch |-> {}]
      /\ fts' = fts \cup ActiveSources
      /\ UNCHANGED <<active, activations, artifact, embedded, policy, files,
                     failed>>
  BY DEF StageIndex
<1>2. /\ active \in DOMAIN gens /\ gens[active] \in Generations
      /\ ActiveSources \in SUBSET Versions
      /\ OneVersionEach(ActiveSources)
      /\ \A v \in ActiveSources : artifact[v] # NoFile
      /\ ActiveSources = gens[active].sources
  BY <1>0, ActiveExists, Changed DEF ActiveSources
<1>3. /\ eligible \ ready \in SUBSET ActiveSources
      /\ ready \subseteq ActiveSources
      /\ \A v \in ready : <<v, p>> \in embedded
  OBVIOUS
<1> HIDE DEF ready, eligible
<1>4. /\ n \in Generations /\ n.sources = ActiveSources /\ n.profile = p
      /\ n.ready = ready
  BY <1>2, <1>3 DEF Generations, Readiness
<1> HIDE DEF n
<1>5. SoundGeneration(n, artifact', fts', embedded')
  BY <1>1, <1>2, <1>3, <1>4 DEF SoundGeneration
<1>6. /\ gs \in Seq(Generations)
      /\ Len(gs) = Len(gens) + 1 /\ Len(gs) \in DOMAIN gs
      /\ gs[Len(gs)] = n
      /\ DOMAIN gens \subseteq DOMAIN gs
      /\ \A i \in DOMAIN gens : gs[i] = gens[i]
      /\ \A i \in DOMAIN activations :
           gs[activations[i]] = gens[activations[i]]
      /\ \A i \in DOMAIN gs :
           SoundGeneration(gs[i], artifact', fts', embedded')
  BY <1>0, <1>1, <1>4, <1>5, Appended
<1> HIDE DEF gs
<1>7. HistoryIsSound' /\ GenerationsAreSound' /\ StoredHasFile'
  BY <1>0, <1>1, <1>6, HistoryGrows DEF GenerationsAreSound, StoredHasFile
<1>8. Len(gens) + 1 \notin DOMAIN gens /\ Len(gens) + 1 \in Nat
  BY <1>0 DEF StoreTypes
<1>9. \A i \in DOMAIN activations : activations[i] # Len(gens) + 1
  BY <1>0, <1>8 DEF HistoryIsSound, SoundHistory
<1>10. ActiveSources' = ActiveSources
  BY <1>0, <1>1, <1>2, <1>6 DEF ActiveSources
<1>11. writer' \in IndexRuns
  BY <1>1, <1>2, <1>3, <1>8 DEF IndexRuns
<1>12. StoreTypes'
  BY <1>0, <1>1, <1>6, <1>11 DEF StoreTypes, Writers
<1>13. IndexSound'
  BY <1>0, <1>1, <1>3, <1>4, <1>6, <1>9, <1>10 DEF IndexSound
<1>14. InstallSound' /\ ImportSound' /\ BundleSound'
  BY <1>1 DEF InstallSound, ImportSound, BundleSound
<1> QED BY <1>1, <1>6, <1>7, <1>10, <1>12, <1>13, <1>14
       DEF StoreInv, GenerationsStay

\* Embedding a batch only adds vectors.
LEMMA EmbedBatchInv ==
  ASSUME StoreInv, NEW vs \in SUBSET Versions, EmbedBatch(vs)
  PROVE  StoreInv' /\ GenerationsStay /\ ActiveSources' = ActiveSources
<1>0. /\ StoreTypes /\ GenerationsAreSound /\ HistoryIsSound /\ StoredHasFile
      /\ IndexSound
  BY DEF StoreInv
<1>1. /\ writer \in IndexRuns
      /\ vs \subseteq writer.missing
      /\ embedded' = embedded \cup (vs \X {gens[writer.gen].profile})
      /\ writer' = [writer EXCEPT !.step = "mark", !.batch = vs]
      /\ UNCHANGED <<gens, active, activations, artifact, fts, policy, files,
                     failed>>
  BY <1>0, WriterByOp DEF EmbedBatch, generationVars
<1>2. /\ writer' \in IndexRuns /\ writer'.op = "index"
      /\ writer'.gen = writer.gen /\ writer'.missing = writer.missing
      /\ writer'.batch = vs
  BY <1>1 DEF IndexRuns
<1>3. StoreTypes'
  BY <1>0, <1>1, <1>2 DEF StoreTypes, Writers
<1>4. \A i \in DOMAIN gens : gens[i] \in Generations
  BY <1>0 DEF StoreTypes
<1>5. GenerationsAreSound'
  BY <1>0, <1>1, <1>4 DEF GenerationsAreSound, SoundGeneration
<1>6. HistoryIsSound' /\ StoredHasFile' /\ ActiveSources' = ActiveSources
  BY <1>0, <1>1 DEF HistoryIsSound, StoredHasFile, ActiveSources
<1>7. \A v \in vs : <<v, gens[writer.gen].profile>> \in embedded'
  BY <1>1
<1>8. IndexSound'
  BY <1>0, <1>1, <1>2, <1>6, <1>7 DEF IndexSound, IndexRuns
<1>9. InstallSound' /\ ImportSound' /\ BundleSound'
  BY <1>2 DEF InstallSound, ImportSound, BundleSound
<1> QED BY <1>1, <1>3, <1>5, <1>6, <1>8, <1>9 DEF StoreInv, GenerationsStay

\* Marking a batch adds to the copy what was embedded for it.
LEMMA MarkBatchInv ==
  ASSUME StoreInv, MarkBatch
  PROVE  StoreInv' /\ GenerationsStay /\ ActiveSources' = ActiveSources
<1>0. /\ StoreTypes /\ GenerationsAreSound /\ HistoryIsSound /\ StoredHasFile
      /\ IndexSound /\ gens \in Seq(Generations)
  BY DEF StoreInv, StoreTypes
<1> DEFINE g == writer.gen
<1>1. /\ writer \in IndexRuns /\ writer.step = "mark"
      /\ gens' = [gens EXCEPT ![g].ready = @ \cup writer.batch]
      /\ writer' = [writer EXCEPT !.step = "embed", !.batch = {},
                                  !.missing = @ \ writer.batch]
      /\ UNCHANGED <<active, activations, artifact, fts, embedded, policy,
                     files, failed>>
  BY <1>0, WriterByOp DEF MarkBatch
<1>2. /\ writer' \in IndexRuns /\ writer'.op = "index"
      /\ writer'.step = "embed" /\ writer'.gen = g /\ writer'.batch = {}
      /\ writer'.missing = writer.missing \ writer.batch
  BY <1>1 DEF IndexRuns
<1>3. /\ g \in DOMAIN gens
      /\ \A i \in DOMAIN activations : activations[i] # g
      /\ active # 0 /\ gens[g].sources = ActiveSources
      /\ writer.missing \subseteq ActiveSources
      /\ writer.batch \subseteq writer.missing
      /\ \A v \in writer.batch : <<v, gens[g].profile>> \in embedded
  BY <1>0, <1>1 DEF IndexSound, IndexRuns
<1>4. \A i \in DOMAIN gens : gens[i] \in Generations
  BY <1>0
<1>5. /\ gens'[g] = [gens[g] EXCEPT !.ready = @ \cup writer.batch]
      /\ \A i \in DOMAIN gens : i # g => gens'[i] = gens[i]
      /\ DOMAIN gens' = DOMAIN gens
  BY <1>1, <1>3
<1>6. /\ gens'[g] \in Generations
      /\ gens'[g].sources = gens[g].sources
      /\ gens'[g].profile = gens[g].profile
      /\ gens'[g].ready = gens[g].ready \cup writer.batch
  BY <1>3, <1>4, <1>5, <1>1 DEF Generations, IndexRuns
<1>7. gens' \in Seq(Generations)
  <2>1. gens' = [gens EXCEPT ![g] = gens'[g]]
    BY <1>1, <1>5
  <2> QED BY <1>0, <1>3, <1>6, <2>1, Replaced
<1> HIDE DEF g
<1>8. GenerationsAreSound'
  BY <1>0, <1>1, <1>3, <1>5, <1>6 DEF GenerationsAreSound, SoundGeneration
<1>9. HistoryIsSound'
  BY <1>0, <1>1, <1>3, <1>5, HistoryGrows DEF HistoryIsSound, SoundHistory
<1>10. ActiveSources' = ActiveSources /\ GenerationsStay
  BY <1>0, <1>1, <1>3, <1>5, <1>6, ActiveExists
     DEF ActiveSources, GenerationsStay
<1>11. StoredHasFile'
  BY <1>0, <1>1 DEF StoredHasFile
<1>12. StoreTypes'
  BY <1>0, <1>1, <1>2, <1>7 DEF StoreTypes, Writers
<1>13. IndexSound'
  BY <1>1, <1>2, <1>3, <1>5, <1>6, <1>10 DEF IndexSound
<1>14. InstallSound' /\ ImportSound' /\ BundleSound'
  BY <1>2 DEF InstallSound, ImportSound, BundleSound
<1> QED BY <1>8, <1>9, <1>10, <1>11, <1>12, <1>13, <1>14 DEF StoreInv

\* The end of an index run activates a copy of what is active now.
LEMMA FinishIndexInv ==
  ASSUME StoreInv, FinishIndex
  PROVE  StoreInv' /\ GenerationsStay /\ ActiveSources' = ActiveSources
<1>0. /\ StoreTypes /\ GenerationsAreSound /\ HistoryIsSound /\ StoredHasFile
      /\ IndexSound /\ gens \in Seq(Generations)
  BY DEF StoreInv, StoreTypes
<1> DEFINE g == writer.gen
           eligible == {v \in gens[g].sources : policy[SourceOf[v]]}
           verdict == IF eligible # {} THEN "hybrid_ready"
                      ELSE IF gens[g].partial THEN "partial_text_ready"
                      ELSE "text_ready"
           gs == [gens EXCEPT ![g].readiness = verdict]
<1>1. /\ writer \in IndexRuns /\ writer.op = "index"
      /\ ActivateIn(gs, g)
      /\ writer' = Free
      /\ UNCHANGED <<artifact, fts, embedded, policy, files, failed>>
  BY <1>0, WriterByOp DEF FinishIndex
<1>2. /\ g \in DOMAIN gens
      /\ \A i \in DOMAIN activations : activations[i] # g
      /\ gens[g].sources = ActiveSources
  BY <1>0, <1>1 DEF IndexSound
<1>3. verdict \in SearchReady
  BY DEF SearchReady
<1> HIDE DEF verdict, g
<1>4. /\ DOMAIN gs = DOMAIN gens
      /\ gs[g] = [gens[g] EXCEPT !.readiness = verdict]
      /\ \A i \in DOMAIN gens : i # g => gs[i] = gens[i]
  BY <1>0, <1>2
<1>5. \A i \in DOMAIN gens : gens[i] \in Generations
  BY <1>0
<1>6. /\ gs[g] \in Generations /\ gs[g].readiness \in SearchReady
      /\ gs[g].sources = gens[g].sources /\ gs[g].ready = gens[g].ready
      /\ gs[g].profile = gens[g].profile
  BY <1>2, <1>3, <1>4, <1>5 DEF Generations, Readiness
<1>7. gs \in Seq(Generations)
  <2>1. gs = [gens EXCEPT ![g] = gs[g]]
    BY <1>2, <1>4
  <2> HIDE DEF gs
  <2> QED BY <1>0, <1>2, <1>6, <2>1, Replaced
<1> HIDE DEF gs
<1>8. \A i \in DOMAIN gs : SoundGeneration(gs[i], artifact', fts', embedded')
  BY <1>0, <1>1, <1>4, <1>6 DEF GenerationsAreSound, SoundGeneration
<1>9. \A i \in DOMAIN activations :
        gs[activations[i]] = gens[activations[i]]
  BY <1>0, <1>2, <1>4 DEF HistoryIsSound, SoundHistory
<1>10. /\ HistoryIsSound' /\ GenerationsAreSound'
       /\ gens' \in Seq(Generations)
       /\ active' \in Nat /\ activations' \in Seq(Nat)
       /\ ActiveSources' = gs[g].sources
       /\ DOMAIN gens' = DOMAIN gs
       /\ \A i \in DOMAIN gs : gens'[i].sources = gs[i].sources
  BY <1>0, <1>1, <1>2, <1>4, <1>6, <1>7, <1>8, <1>9, Activates DEF MayBeActive
<1>11. StoredHasFile'
  BY <1>0, <1>1 DEF StoredHasFile
<1>12. GenerationsStay /\ ActiveSources' = ActiveSources
  BY <1>2, <1>4, <1>6, <1>10 DEF GenerationsStay
<1> QED BY <1>0, <1>1, <1>10, <1>11, <1>12, CommitStep DEF StoreTypes

\* The steps of uploads and edits.
LEMMA ImportInv ==
  ASSUME StoreInv, ImportStep
  PROVE  /\ StoreInv' /\ GenerationsStay
         /\ CommitImport \/ ActiveSources' = ActiveSources
<1>0. /\ failed \subseteq Requests /\ StoreTypes
      /\ policy \in [Sources -> BOOLEAN] /\ HistoryIsSound
  BY DEF StoreInv, StoreTypes
<1>1. ASSUME NEW v \in UserVersions,
             \/ SubmitAdd(v)
             \/ \E base \in Opened(SourceOf[v]) : SubmitReplace(v, base)
             \/ SubmitEdit(SourceOf[v], v)
             \/ \E r \in Resumable : ResumeImport(r, v)
      PROVE  StoreInv' /\ GenerationsStay /\ ActiveSources' = ActiveSources
  <2>0. v \in Versions /\ SourceOf[v] \in UserSources /\ UseOf[v] \in BOOLEAN
    BY SourcesAssumption DEF UserVersions
  <2>1. CASE SubmitAdd(v)
    <3> DEFINE r == [kind |-> "add", source |-> SourceOf[v], use |-> UseOf[v],
                     version |-> v, base |-> NoVersion]
    <3>1. r \in Requests
      BY <2>0 DEF Requests
    <3>2. BeginImport(r, v) /\ failed' \subseteq Requests
      BY <1>0, <2>1 DEF SubmitAdd
    <3> HIDE DEF r
    <3> QED BY <3>1, <3>2, BeginImportQuiet
  <2>2. ASSUME NEW base \in Opened(SourceOf[v]), SubmitReplace(v, base)
        PROVE  StoreInv' /\ GenerationsStay /\ ActiveSources' = ActiveSources
    <3> DEFINE r == [kind |-> "replace", source |-> SourceOf[v],
                     use |-> UseOf[v], version |-> v, base |-> base]
    <3>1. base \in Versions \cup {NoVersion}
      BY <1>0, ActiveExists DEF Opened, ActiveVersionsOf
    <3>2. r \in Requests
      BY <2>0, <3>1 DEF Requests
    <3>3. BeginImport(r, v) /\ failed' \subseteq Requests
      BY <1>0, <2>2 DEF SubmitReplace
    <3> HIDE DEF r
    <3> QED BY <3>2, <3>3, BeginImportQuiet
  <2>3. CASE SubmitEdit(SourceOf[v], v)
    <3> DEFINE r == [kind |-> "edit", source |-> SourceOf[v],
                     use |-> policy[SourceOf[v]], version |-> v,
                     base |-> NoVersion]
    <3>1. r \in Requests
      BY <1>0, <2>0 DEF Requests, Sources
    <3>2. BeginImport(r, v) /\ failed' \subseteq Requests
      BY <1>0, <2>3 DEF SubmitEdit
    <3> HIDE DEF r
    <3> QED BY <3>1, <3>2, BeginImportQuiet
  <2>4. ASSUME NEW r \in Resumable, ResumeImport(r, v)
        PROVE  StoreInv' /\ GenerationsStay /\ ActiveSources' = ActiveSources
    <3>1. r \in Requests
      <4>1. CASE writer.op = "paused"
        BY <1>0, <4>1, WriterByOp DEF Resumable, Pauses
      <4>2. CASE writer.op # "paused"
        BY <1>0, <4>2 DEF Resumable
      <4> QED BY <4>1, <4>2
    <3>2. BeginImport(r, v) /\ failed' \subseteq Requests
      BY <1>0, <2>4 DEF ResumeImport
    <3> QED BY <3>1, <3>2, BeginImportQuiet
  <2> QED BY <1>1, <2>1, <2>2, <2>3, <2>4
<1>2. CASE (\E r \in failed : DropFailed(r)) \/ FailImport \/ CleanImport
  BY <1>2, StopsQuietly
<1>3. CASE CommitImport
  BY <1>3, CommitImportInv
<1> QED BY <1>1, <1>2, <1>3 DEF ImportStep

\* Every step of the corpus keeps the invariant, and every generation its
\* versions.
LEMMA StoreStep ==
  ASSUME StoreInv, StoreNext
  PROVE  StoreInv' /\ GenerationsStay
<1>1. CASE ImportStep
  BY <1>1, ImportInv
<1>2. CASE InstallStep
  BY <1>2, BeginInstallQuiet, CommitInstallInv, StopsQuietly DEF InstallStep
<1>3. CASE IndexStep
  BY <1>3, StageIndexInv, EmbedBatchInv, MarkBatchInv, FinishIndexInv
     DEF IndexStep
<1>4. CASE BundleStep
  BY <1>4, BeginBundleQuiet, CommitBundleInv DEF BundleStep
<1>5. CASE MutationStep
  BY <1>5, MutationInv
<1>6. CASE Interrupt \/ CancelPaused
  BY <1>6, StopsQuietly
<1> QED BY <1>1, <1>2, <1>3, <1>4, <1>5, <1>6 DEF StoreNext

\* An empty corpus.
LEMMA StoreStarts ==
  ASSUME StoreInit
  PROVE  StoreInv
<1> USE DEF StoreInit
<1>1. StoreTypes
  BY DEF StoreTypes, Writers, Artifacts
<1>2. GenerationsAreSound /\ HistoryIsSound /\ StoredHasFile
  BY DEF GenerationsAreSound, HistoryIsSound, SoundHistory, StoredHasFile
<1>3. InstallSound /\ ImportSound /\ BundleSound /\ IndexSound
  BY DEF InstallSound, ImportSound, BundleSound, IndexSound, Free
<1> QED BY <1>1, <1>2, <1>3 DEF StoreInv

\* What the invariant says of the generations that are or were active.
LEMMA StoreMeans == StoreInv => VerifiesAtAllTimes /\ RollbackIsSafe
<1> SUFFICES ASSUME StoreInv PROVE VerifiesAtAllTimes /\ RollbackIsSafe
  OBVIOUS
<1>0. /\ GenerationsAreSound /\ HistoryIsSound /\ StoredHasFile
      /\ gens \in Seq(Generations) /\ activations \in Seq(Nat)
  BY DEF StoreInv, StoreTypes
<1>1. VerifiesAtAllTimes
  <2> SUFFICES ASSUME NEW i \in DOMAIN activations
               PROVE  LET g == gens[activations[i]]
                      IN /\ \A v \in g.sources : /\ artifact[v] # NoFile
                                                 /\ artifact[v] \in files
                         /\ \A v, w \in g.sources :
                              SourceOf[v] = SourceOf[w] => v = w
                         /\ g.sources \subseteq fts
                         /\ g.ready \subseteq g.sources
                         /\ \A v \in g.ready : <<v, g.profile>> \in embedded
    BY DEF VerifiesAtAllTimes
  <2>1. activations[i] \in DOMAIN gens
    BY <1>0 DEF HistoryIsSound, SoundHistory
  <2> DEFINE g == gens[activations[i]]
  <2>2. SoundGeneration(g, artifact, fts, embedded) /\ g \in Generations
    BY <1>0, <2>1 DEF GenerationsAreSound
  <2> HIDE DEF g
  <2>3. \A v \in g.sources : artifact[v] # NoFile /\ artifact[v] \in files
    BY <1>0, <2>2 DEF SoundGeneration, StoredHasFile, Generations
  <2> QED BY <2>2, <2>3 DEF SoundGeneration, OneVersionEach, g
<1>2. RollbackIsSafe
  <2>1. active # 0 => /\ activations[Len(activations)] = active
                      /\ activations # <<>>
    BY <1>0 DEF HistoryIsSound, SoundHistory
  <2>2. ASSUME active # 0
        PROVE  Retained = 1 .. (Len(activations) - 1)
    <3>1. Len(activations) \in DOMAIN activations
          /\ DOMAIN activations = 1 .. Len(activations)
      BY <1>0, <2>1, <2>2
    <3>2. \A i \in DOMAIN activations :
            /\ i # Len(activations) =>
                 gens[activations[i]].status = "retained"
            /\ activations[i] = active => i = Len(activations)
      BY <1>0, <2>1, <2>2, <3>1 DEF HistoryIsSound, SoundHistory
    <3> QED BY <2>1, <2>2, <3>1, <3>2 DEF Retained
  <2> QED BY <1>0, <2>1, <2>2 DEF RollbackIsSafe, HistoryIsSound, SoundHistory
<1> QED BY <1>1, <1>2

\* A step of an answer leaves the corpus alone.
LEMMA AnswerStepsRead ==
  ASSUME NEW a \in Answers,
         \/ BeginAnswer(a) \/ Recheck(a) \/ Dispatch(a) \/ EndAnswer(a)
         \/ \E v \in Versions : Retrieve(a, v)
  PROVE  UNCHANGED storeVars
BY DEF BeginAnswer, Recheck, Dispatch, EndAnswer, Retrieve

\* The variables of the store, one by one.
LEMMA StoreUnchanged ==
  ASSUME UNCHANGED storeVars
  PROVE  UNCHANGED <<gens, active, activations, artifact, files, fts, embedded,
                     policy, writer, failed, revoked>>
BY DEF storeVars, dbVars, generationVars

\* Nothing happens to the store while it stands still.
LEMMA StoreStutters ==
  ASSUME StoreInv, UNCHANGED storeVars
  PROVE  StoreInv' /\ GenerationsStay
<1>1. UNCHANGED <<gens, active, activations, artifact, files, fts, embedded,
                  policy, writer, failed>>
  BY StoreUnchanged
<1>2. StoreTypes' /\ GenerationsAreSound' /\ HistoryIsSound' /\ StoredHasFile'
  BY <1>1 DEF StoreInv, StoreTypes, GenerationsAreSound, HistoryIsSound,
     StoredHasFile
<1>3. InstallSound' /\ ImportSound' /\ BundleSound' /\ IndexSound'
  BY <1>1 DEF StoreInv, InstallSound, ImportSound, BundleSound, IndexSound,
     ActiveSources
<1> QED BY <1>1, <1>2, <1>3 DEF StoreInv, GenerationsStay

\* At every moment, between any two steps of any operation and wherever one
\* was cut short, the corpus satisfies the inductive invariant.
THEOREM StoreInvariance == AnswerSpec => []StoreInv
<1>1. AnswerInit => StoreInv
  BY StoreStarts DEF AnswerInit
<1>2. StoreInv /\ [AnswerNext]_answerVars => StoreInv'
  <2> SUFFICES ASSUME StoreInv, [AnswerNext]_answerVars PROVE StoreInv'
    OBVIOUS
  <2>1. CASE CorpusStep
    BY <2>1, StoreStep DEF CorpusStep
  <2>2. CASE UNCHANGED storeVars
    BY <2>2, StoreStutters
  <2> QED BY <2>1, <2>2, AnswerStepsRead DEF AnswerNext, answerVars
<1> QED BY <1>1, <1>2, PTL DEF AnswerSpec

\* verify_all_retained succeeds at every moment: every version of a generation
\* that is or was active has its file, its text in the index and the vectors
\* its generation claims.
THEOREM RetainedVerifies == AnswerSpec => []VerifiesAtAllTimes
BY StoreInvariance, StoreMeans, PTL

\* rollback returns to the generation that was active before, whatever was
\* installed, staged, activated and rolled back until now.  Only validated
\* generations are ever active, and those of bundles, which are activated with
\* the readiness they came with (bundle.py:60-75, 109-163).
THEOREM RollbackReturns == AnswerSpec => []RollbackIsSafe
BY StoreInvariance, StoreMeans, PTL

(***************************************************************************)
(* Who may change the user's resources.                                    *)
(***************************************************************************)
\* The mutations that are not about resources keep them.
LEMMA MutationKeeps ==
  ASSUME StoreInv, MutationStep
  PROVE  \/ UserPart(ActiveSources') = UserPart(ActiveSources)
         \/ Rollback
         \/ \E g \in DOMAIN gens : ActivateGeneration(g, TRUE)
         \/ \E s \in UserSources : RemoveResource(s)
         \/ \E v \in UserVersions : RestoreResource(v)
<1>0. /\ StoreTypes /\ GenerationsAreSound /\ HistoryIsSound
      /\ policy \in [Sources -> BOOLEAN]
      /\ ActiveSources \in SUBSET Versions
  BY ActiveExists DEF StoreInv, StoreTypes
<1>1. ASSUME NEW g \in DOMAIN gens, NEW allowPartial \in BOOLEAN,
             ActivateGeneration(g, allowPartial)
      PROVE  ActivateGeneration(g, TRUE)
  BY <1>1 DEF ActivateGeneration
<1>2. ASSUME NEW ss \in SUBSET PackSources, RemoveSources(ss)
      PROVE  UserPart(ActiveSources') = UserPart(ActiveSources)
  <2>1. /\ Without(ss) \in SUBSET Versions /\ OneVersionEach(Without(ss))
        /\ \A v \in Without(ss) : artifact[v] # NoFile
    BY <1>0, Changed
  <2>2. ActiveSources' = Without(ss)
    BY <1>0, <1>2, <2>1, MutationPublishes DEF RemoveSources
  <2>3. ss \cap UserSources = {}
    BY SourcesAssumption DEF OfficialSources
  <2> QED BY <2>2, <2>3 DEF UserPart, Without
<1>3. ASSUME NEW vs \in SUBSET OfficialVersions, RestoreSources(vs)
      PROVE  UserPart(ActiveSources') = UserPart(ActiveSources)
  <2>1. vs \in SUBSET Versions /\ OneVersionEach(vs)
        /\ \A v \in vs : artifact[v] # NoFile
    BY <1>3, CountedOnce DEF RestoreSources, OfficialVersions, Stored
  <2>2. /\ With(vs) \in SUBSET Versions /\ OneVersionEach(With(vs))
        /\ \A v \in With(vs) : artifact[v] # NoFile
    BY <1>0, <2>1, Changed
  <2>3. ActiveSources' = With(vs)
    BY <1>0, <1>3, <2>2, MutationPublishes DEF RestoreSources
  <2>4. \A v \in vs : SourceOf[v] \notin UserSources
    BY SourcesAssumption DEF OfficialVersions
  <2> QED BY <2>3, <2>4 DEF UserPart, With, Without, SourcesIn
<1>4. ASSUME NEW s \in UserSources, NEW allowed \in BOOLEAN,
             SetModelUse(s, allowed)
      PROVE  ActiveSources' = ActiveSources
  <2>1. policy' \in [Sources -> BOOLEAN]
    BY <1>0, <1>4 DEF SetModelUse, Sources
  <2>2. CASE ActiveVersionsOf(s) # {}
    <3>1. /\ OneVersionEach(ActiveSources)
          /\ \A v \in ActiveSources : artifact[v] # NoFile
      BY <1>0, Changed
    <3>2. Mutation /\ Publish(ActiveSources, policy', embedded, TRUE, TRUE)
          /\ UNCHANGED <<artifact, embedded>>
      BY <1>4, <2>2 DEF SetModelUse
    <3> QED BY <1>0, <2>1, <3>1, <3>2, MutationPublishes
  <2>3. CASE ActiveVersionsOf(s) = {}
    BY <1>4, <2>3, NothingPublished DEF SetModelUse
  <2> QED BY <2>2, <2>3
<1> QED BY <1>1, <1>2, <1>3, <1>4 DEF MutationStep

\* Official installs and removals, bundle imports and index runs leave the
\* user's resources in the active generation as they are; only an operation on
\* a resource, a rollback or an explicit activation changes them.
THEOREM ResourcesKept == AnswerSpec => ResourcesAreKept
<1> DEFINE Kept ==
      UserPart(ActiveSources') # UserPart(ActiveSources) =>
        \/ CommitImport
        \/ Rollback
        \/ \E g \in DOMAIN gens : ActivateGeneration(g, TRUE)
        \/ \E s \in UserSources : RemoveResource(s)
        \/ \E v \in UserVersions : RestoreResource(v)
<1>1. StoreInv /\ [AnswerNext]_answerVars => [Kept]_storeVars
  <2> SUFFICES ASSUME StoreInv, [AnswerNext]_answerVars PROVE [Kept]_storeVars
    OBVIOUS
  <2>1. CASE CorpusStep
    <3>0. StoreNext
      BY <2>1 DEF CorpusStep
    <3>1. CASE ImportStep
      BY <3>1, ImportInv
    <3>2. CASE InstallStep
      BY <3>2, BeginInstallQuiet, CommitInstallInv, StopsQuietly
         DEF InstallStep
    <3>3. CASE IndexStep
      BY <3>3, StageIndexInv, EmbedBatchInv, MarkBatchInv, FinishIndexInv
         DEF IndexStep
    <3>4. CASE BundleStep
      BY <3>4, BeginBundleQuiet, CommitBundleInv DEF BundleStep
    <3>5. CASE MutationStep
      BY <3>5, MutationKeeps
    <3>6. CASE Interrupt \/ CancelPaused
      BY <3>6, StopsQuietly
    <3> QED BY <3>0, <3>1, <3>2, <3>3, <3>4, <3>5, <3>6 DEF StoreNext
  <2>2. CASE UNCHANGED storeVars
    BY <2>2
  <2> QED BY <2>1, <2>2, AnswerStepsRead DEF AnswerNext, answerVars
<1>2. ResourcesAreKept <=> [][Kept]_storeVars
  BY DEF ResourcesAreKept
<1> QED BY <1>1, <1>2, StoreInvariance, PTL DEF AnswerSpec

(***************************************************************************)
(* Answers beside the writers.                                             *)
(***************************************************************************)
AnswerRecords ==
  [at : {"idle", "retrieving", "checked", "sent"}, gen : Nat,
   evidence : SUBSET Versions, late : SUBSET Sources]
AnswerTypes == answer \in [Answers -> AnswerRecords]

\* An answer works on a generation that exists, for which what it found stays
\* a part of it.
AnswersHaveGeneration ==
  \A a \in Answers : answer[a].at # "idle" => answer[a].gen \in DOMAIN gens

\* What an index run still has to send is permitted.
IndexHasConsent ==
  writer.op = "index" => \A v \in writer.missing : policy[SourceOf[v]]

\* What an answer is about to send was permitted at the last check.
AnswerHasConsent ==
  \A a \in Answers : answer[a].at = "checked" =>
    \A v \in answer[a].evidence :
      policy[SourceOf[v]] \/ SourceOf[v] \in answer[a].late

AnswerInv ==
  /\ AnswerTypes /\ AnswersHaveGeneration /\ OneGeneration
  /\ IndexHasConsent /\ AnswerHasConsent

\* The policy cannot change under an index run, whose target no other
\* operation can have.
LEMMA IndexKeepsConsent ==
  ASSUME StoreInv, IndexHasConsent, StoreNext
  PROVE  IndexHasConsent'
<1>0. StoreTypes
  BY DEF StoreInv
<1>1. CASE ImportStep
  <2>1. ASSUME NEW r, NEW v, BeginImport(r, v) PROVE IndexHasConsent'
    BY <2>1 DEF BeginImport, IndexHasConsent
  <2>2. ASSUME NEW r \in failed, DropFailed(r) PROVE IndexHasConsent'
    BY <2>2 DEF DropFailed, IndexHasConsent, dbVars
  <2>3. CASE CommitImport \/ CleanImport
    <3>1. writer' = Free
      BY <2>3 DEF CommitImport, CleanImport
    <3> QED BY <3>1 DEF IndexHasConsent, Free
  <2>4. CASE FailImport
    <3>1. writer \in Imports /\ writer' = [writer EXCEPT !.step = "clean"]
      BY <1>0, <2>4, WriterByOp DEF FailImport
    <3>2. writer'.op = "import"
      BY <3>1 DEF Imports
    <3> QED BY <3>2 DEF IndexHasConsent
  <2> QED BY <1>1, <2>1, <2>2, <2>3, <2>4
         DEF ImportStep, SubmitAdd, SubmitReplace, SubmitEdit, ResumeImport
<1>2. CASE InstallStep
  <2>1. ASSUME NEW vs, NEW allowPartial, NEW activate,
               BeginInstall(vs, allowPartial, activate)
        PROVE  IndexHasConsent'
    BY <2>1 DEF BeginInstall, IndexHasConsent
  <2>2. CASE CleanInstall
    BY <2>2 DEF CleanInstall, IndexHasConsent, Free
  <2>3. CASE CommitInstall \/ FailInstall
    <3>1. writer \in Installs /\ writer' = Cleaning
      BY <1>0, <2>3, WriterByOp DEF CommitInstall, FailInstall
    <3>2. writer'.op = "install"
      BY <3>1 DEF Installs, Cleaning
    <3> QED BY <3>2 DEF IndexHasConsent
  <2> QED BY <1>2, <2>1, <2>2, <2>3 DEF InstallStep
<1>3. CASE IndexStep
  <2>1. ASSUME NEW p \in Profiles, StageIndex(p) PROVE IndexHasConsent'
    <3> DEFINE eligible == {v \in ActiveSources : policy[SourceOf[v]]}
               ready == {v \in eligible : <<v, p>> \in embedded}
    <3>1. writer'.missing = eligible \ ready /\ policy' = policy
      BY <2>1 DEF StageIndex
    <3>2. \A v \in eligible \ ready : policy[SourceOf[v]]
      OBVIOUS
    <3> QED BY <3>1, <3>2 DEF IndexHasConsent
  <2>2. ASSUME NEW vs \in SUBSET Versions, EmbedBatch(vs)
        PROVE  IndexHasConsent'
    <3>1. /\ writer \in IndexRuns /\ writer.op = "index"
          /\ writer' = [writer EXCEPT !.step = "mark", !.batch = vs]
      BY <1>0, <2>2, WriterByOp DEF EmbedBatch
    <3>2. writer'.missing = writer.missing
      BY <3>1 DEF IndexRuns
    <3> QED BY <2>2, <3>1, <3>2 DEF EmbedBatch, IndexHasConsent
  <2>3. CASE MarkBatch
    <3>1. /\ writer \in IndexRuns /\ writer.op = "index"
          /\ writer' = [writer EXCEPT !.step = "embed", !.batch = {},
                                      !.missing = @ \ writer.batch]
      BY <1>0, <2>3, WriterByOp DEF MarkBatch
    <3>2. writer'.missing \subseteq writer.missing
      BY <3>1 DEF IndexRuns
    <3> QED BY <2>3, <3>1, <3>2 DEF MarkBatch, IndexHasConsent
  <2>4. CASE FinishIndex
    BY <2>4 DEF FinishIndex, IndexHasConsent, Free
  <2> QED BY <1>3, <2>1, <2>2, <2>3, <2>4 DEF IndexStep
<1>4. CASE BundleStep
  BY <1>4 DEF BundleStep, BeginBundle, CommitBundle, IndexHasConsent, Free
<1>5. CASE MutationStep
  <2>1. writer' = Free
    BY <1>5 DEF MutationStep, Mutation, Idle, ActivateGeneration, Rollback,
       RemoveSources, RestoreSources, RemoveResource, SetModelUse,
       RestoreResource
  <2> QED BY <2>1 DEF IndexHasConsent, Free
<1>6. CASE Interrupt \/ CancelPaused
  BY <1>6 DEF Interrupt, CancelPaused, Paused, IndexHasConsent, Free
<1> QED BY <1>1, <1>2, <1>3, <1>4, <1>5, <1>6 DEF StoreNext

\* A step of the corpus under an answer.
LEMMA CorpusKeepsAnswers ==
  ASSUME StoreInv, AnswerInv, CorpusStep
  PROVE  AnswerInv'
<1>0. /\ GenerationsStay /\ StoreTypes' /\ policy \in [Sources -> BOOLEAN]
      /\ StoreNext
  BY StoreStep DEF CorpusStep, StoreInv, StoreTypes
<1>1. answer' = [a \in Answers |->
        IF answer[a].at = "checked"
          THEN [answer[a] EXCEPT !.late =
                  @ \cup {s \in Sources : policy[s] /\ ~policy'[s]}]
          ELSE answer[a]]
  BY DEF CorpusStep
<1>2. \A a \in Answers :
        /\ answer'[a] \in AnswerRecords
        /\ answer'[a].at = answer[a].at
        /\ answer'[a].gen = answer[a].gen
        /\ answer'[a].evidence = answer[a].evidence
        /\ answer[a].at = "checked" =>
             answer'[a].late = answer[a].late
                       \cup {s \in Sources : policy[s] /\ ~policy'[s]}
  <2> TAKE a \in Answers
  <2>1. answer[a] \in AnswerRecords
    BY DEF AnswerInv, AnswerTypes
  <2> QED BY <1>1, <2>1 DEF AnswerRecords
<1>3. AnswerTypes'
  BY <1>1, <1>2 DEF AnswerTypes
<1>4. AnswersHaveGeneration' /\ OneGeneration'
  BY <1>0, <1>2
     DEF AnswerInv, AnswersHaveGeneration, OneGeneration, GenerationsStay
<1>5. AnswerHasConsent'
  <2> SUFFICES ASSUME NEW a \in Answers, answer'[a].at = "checked",
                      NEW v \in answer'[a].evidence
               PROVE  policy'[SourceOf[v]] \/ SourceOf[v] \in answer'[a].late
    BY DEF AnswerHasConsent
  <2>1. v \in Versions /\ SourceOf[v] \in Sources
    BY <1>2, SourcesAssumption DEF AnswerRecords
  <2>2. policy[SourceOf[v]] \/ SourceOf[v] \in answer[a].late
    BY <1>2 DEF AnswerInv, AnswerHasConsent
  <2> QED BY <1>2, <2>1, <2>2
<1>6. IndexHasConsent'
  BY <1>0, IndexKeepsConsent DEF AnswerInv
<1> QED BY <1>3, <1>4, <1>5, <1>6 DEF AnswerInv

\* One answer moves on and the corpus stands still.
LEMMA AnswerMoves ==
  ASSUME AnswerInv, NEW a \in Answers, NEW x \in AnswerRecords,
         answer' = [answer EXCEPT ![a] = x],
         UNCHANGED <<gens, policy, writer>>,
         x.at # "idle" => /\ x.gen \in DOMAIN gens
                          /\ x.evidence \subseteq gens[x.gen].sources,
         x.at = "checked" => \A v \in x.evidence : policy[SourceOf[v]]
  PROVE  AnswerInv'
<1>1. answer \in [Answers -> AnswerRecords]
  BY DEF AnswerInv, AnswerTypes
<1>2. answer'[a] = x /\ \A c \in Answers : c # a => answer'[c] = answer[c]
  BY <1>1
<1>3. AnswerTypes'
  BY <1>1 DEF AnswerTypes
<1>4. AnswersHaveGeneration' /\ OneGeneration'
  BY <1>2 DEF AnswerInv, AnswersHaveGeneration, OneGeneration
<1>5. AnswerHasConsent' /\ IndexHasConsent'
  BY <1>2 DEF AnswerInv, AnswerHasConsent, IndexHasConsent
<1> QED BY <1>3, <1>4, <1>5 DEF AnswerInv

\* The steps of an answer itself.
LEMMA AnswerStepInv ==
  ASSUME StoreInv, AnswerInv, NEW a \in Answers,
         \/ BeginAnswer(a) \/ Recheck(a) \/ Dispatch(a) \/ EndAnswer(a)
         \/ \E v \in Versions : Retrieve(a, v)
  PROVE  AnswerInv'
<1>0. /\ UNCHANGED <<gens, active, policy, writer>>
      /\ answer \in [Answers -> AnswerRecords] /\ answer[a] \in AnswerRecords
      /\ NoAnswer \in AnswerRecords /\ NoAnswer.at = "idle"
  BY AnswerStepsRead, StoreUnchanged
     DEF AnswerInv, AnswerTypes, NoAnswer, AnswerRecords
<1>1. answer[a].at # "idle" =>
        /\ answer[a].gen \in DOMAIN gens
        /\ answer[a].evidence \subseteq gens[answer[a].gen].sources
  BY DEF AnswerInv, AnswersHaveGeneration, OneGeneration
<1>2. CASE BeginAnswer(a)
  <2> DEFINE x == [NoAnswer EXCEPT !.at = "retrieving", !.gen = active]
  <2>1. active \in DOMAIN gens /\ active \in Nat
    BY <1>2, ActiveExists DEF BeginAnswer, StoreInv, StoreTypes
  <2>2. /\ x \in AnswerRecords /\ x.at = "retrieving" /\ x.gen = active
        /\ x.evidence = {}
    BY <2>1 DEF NoAnswer, AnswerRecords
  <2>3. answer' = [answer EXCEPT ![a] = x]
    BY <1>2 DEF BeginAnswer
  <2> HIDE DEF x
  <2> QED BY <1>0, <2>1, <2>2, <2>3, AnswerMoves
<1>3. CASE Recheck(a)
  <2> DEFINE e == Permitted(answer[a].evidence)
             y == [answer[a] EXCEPT !.at = "checked", !.evidence = e]
             x == IF e = {} THEN NoAnswer ELSE y
  <2>1. answer' = [answer EXCEPT ![a] = x] /\ answer[a].at # "idle"
    BY <1>0, <1>3 DEF Recheck
  <2>2. /\ e \subseteq answer[a].evidence
        /\ \A v \in e : policy[SourceOf[v]]
    BY DEF Permitted
  <2> HIDE DEF e
  <2>3. /\ y \in AnswerRecords /\ y.at = "checked" /\ y.evidence = e
        /\ y.gen = answer[a].gen
    BY <1>0, <2>2 DEF AnswerRecords
  <2> HIDE DEF y
  <2>4. /\ x \in AnswerRecords
        /\ x.at # "idle" => x = y
    BY <1>0, <2>3
  <2>5. /\ x.at # "idle" => /\ x.gen \in DOMAIN gens
                            /\ x.evidence \subseteq gens[x.gen].sources
        /\ x.at = "checked" => \A v \in x.evidence : policy[SourceOf[v]]
    BY <1>0, <1>1, <2>1, <2>2, <2>3, <2>4
  <2> HIDE DEF x
  <2> QED BY <1>0, <2>1, <2>4, <2>5, AnswerMoves
<1>4. CASE Dispatch(a)
  <2> DEFINE x == [answer[a] EXCEPT !.at = "sent"]
  <2>1. answer' = [answer EXCEPT ![a] = x] /\ answer[a].at = "checked"
    BY <1>0, <1>4 DEF Dispatch
  <2>2. /\ x \in AnswerRecords /\ x.at = "sent" /\ x.gen = answer[a].gen
        /\ x.evidence = answer[a].evidence
    BY <1>0 DEF AnswerRecords
  <2> HIDE DEF x
  <2> QED BY <1>0, <1>1, <2>1, <2>2, AnswerMoves
<1>5. CASE EndAnswer(a)
  BY <1>0, <1>5, AnswerMoves DEF EndAnswer
<1>6. ASSUME NEW v \in Versions, Retrieve(a, v)
      PROVE  AnswerInv'
  <2> DEFINE x == [answer[a] EXCEPT !.evidence = @ \cup {v}]
  <2>1. /\ answer' = [answer EXCEPT ![a] = x] /\ answer[a].at = "retrieving"
        /\ v \in gens[answer[a].gen].sources
    BY <1>0, <1>6 DEF Retrieve, Found
  <2>2. /\ x \in AnswerRecords /\ x.at = "retrieving"
        /\ x.gen = answer[a].gen
        /\ x.evidence = answer[a].evidence \cup {v}
    BY <1>0, <2>1 DEF AnswerRecords
  <2> HIDE DEF x
  <2> QED BY <1>0, <1>1, <2>1, <2>2, AnswerMoves
<1> QED BY <1>2, <1>3, <1>4, <1>5, <1>6

\* Whatever the corpus does beside it, an answer keeps to its generation and
\* to the policy of its last check.
THEOREM AnswerInvariance == AnswerSpec => []AnswerInv
<1>1. AnswerInit => AnswerInv
  BY DEF AnswerInit, StoreInit, AnswerInv, AnswerTypes, AnswerRecords,
     NoAnswer, Free, AnswersHaveGeneration, OneGeneration, IndexHasConsent,
     AnswerHasConsent
<1>2. StoreInv /\ AnswerInv /\ [AnswerNext]_answerVars => AnswerInv'
  <2> SUFFICES ASSUME StoreInv, AnswerInv, [AnswerNext]_answerVars
               PROVE  AnswerInv'
    OBVIOUS
  <2>1. CASE CorpusStep
    BY <2>1, CorpusKeepsAnswers
  <2>2. CASE UNCHANGED answerVars
    <3>1. UNCHANGED <<gens, policy, writer, answer>>
      BY <2>2, StoreUnchanged DEF answerVars
    <3> QED BY <3>1 DEF AnswerInv, AnswerTypes, AnswersHaveGeneration,
           OneGeneration, IndexHasConsent, AnswerHasConsent
  <2> QED BY <2>1, <2>2, AnswerStepInv DEF AnswerNext
<1> QED BY <1>1, <1>2, StoreInvariance, PTL DEF AnswerSpec

\* The evidence of an answer comes from the one generation it began with.
THEOREM AnswersKeepGeneration == AnswerSpec => []OneGeneration
<1>1. AnswerInv => OneGeneration
  BY DEF AnswerInv
<1> QED BY <1>1, AnswerInvariance, PTL

\* No text goes to a provider against the policy as it was last checked, and
\* nothing an index run still has to send is turned off.
THEOREM ConsentHolds == AnswerSpec => []TextLeavesWithConsent
<1>1. AnswerInv => TextLeavesWithConsent
  BY DEF AnswerInv, TextLeavesWithConsent, AnswerHasConsent, IndexHasConsent
<1> QED BY <1>1, AnswerInvariance, PTL
=============================================================================
