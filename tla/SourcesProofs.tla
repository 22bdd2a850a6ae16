---------------------------- MODULE SourcesProofs ----------------------------
(***************************************************************************)
(* Proofs about how sources come in: the versions of a hosted source, the  *)
(* loads of the HPD violations, and the downloads of official sources.     *)
(* The parts share no variable, so every theorem is of one part's own      *)
(* specification.                                                          *)
(***************************************************************************)
EXTENDS HostedSources, HpdLoading, SourceDownloads, SumLemmas

(***************************************************************************)
(* HostedSources.                                                          *)
(***************************************************************************)
VersionRecords ==
  [text : SourceTexts, current : BOOLEAN, age : {"new", "kept", "expired"},
   purged : BOOLEAN]
CommandRecords ==
  [at : {"idle", "downloaded", "writing", "written", "parse"},
   text : SourceTexts \cup {"none"}, then : {"end", "parse", "parse this"}]

SourceTypes ==
  /\ website \in SourceTexts
  /\ versions \in Seq(VersionRecords)
  /\ command \in CommandRecords
  /\ command.at \in {"downloaded", "writing", "written"} => command.text \in SourceTexts

\* The version retrieved last is the current one, and no two have one text.
LastIsCurrent ==
  /\ \A i \in 1..Len(versions) : versions[i].current <=> i = Len(versions)
  /\ \A i, j \in 1..Len(versions) : versions[i].text = versions[j].text => i = j

\* An artifact whose version is yet to be committed has none.
WrittenIsNew ==
  command.at \in {"writing", "written"} =>
    /\ command.text \in artifactFiles
    /\ \A i \in 1..Len(versions) : versions[i].text # command.text

\* A part of a text is still being written, or its download was killed.
TornIsCut ==
  \A text \in torn : text \in cut \/ (command.at = "writing" /\ command.text = text)

\* What a purge has chosen stays superseded.
DueIsSuperseded == \A i \in sweep.due : i \in 1..Len(versions) /\ i # Len(versions)

CurrentHasArtifact ==
  \A i \in 1..Len(versions) : i = Len(versions) => versions[i].text \in artifactFiles

VersionsInv == /\ SourceTypes /\ LastIsCurrent /\ WrittenIsNew /\ TornIsCut
               /\ DueIsSuperseded /\ CurrentHasArtifact

\* The steps that change no version's text or rank.
LEMMA VersionsStay ==
  ASSUME VersionsInv, website' \in SourceTexts,
         versions' \in Seq(VersionRecords), Len(versions') = Len(versions),
         \A i \in 1..Len(versions) : /\ versions'[i].text = versions[i].text
                                     /\ versions'[i].current = versions[i].current,
         command' \in CommandRecords,
         command'.at \in {"downloaded", "writing", "written"} => command'.text \in SourceTexts,
         command'.at \notin {"writing", "written"} \/ UNCHANGED command,
         command.at # "writing" \/ UNCHANGED command \/ command.text \in cut',
         UNCHANGED <<artifactFiles, torn>>, cut \subseteq cut',
         \A i \in sweep'.due : i \in 1..Len(versions) /\ i # Len(versions)
  PROVE  VersionsInv'
BY DEF VersionsInv, SourceTypes, LastIsCurrent, WrittenIsNew, TornIsCut, DueIsSuperseded,
   CurrentHasArtifact

\* The one current version is the one that parsing takes, and its artifact is
\* kept, and whole unless a download was killed while it wrote it, for any
\* texts, republications and purges.
THEOREM CurrentIsTraceable == Spec_Sources => []CurrentTextIsTraceable
<1>0. /\ NoCommand \in CommandRecords /\ NoCommand.at = "idle"
      /\ NoSweep.due = {}
  BY DEF NoCommand, NoSweep, CommandRecords
<1>1. Init_Sources => VersionsInv
  BY <1>0 DEF Init_Sources, VersionsInv, SourceTypes, LastIsCurrent, WrittenIsNew,
     TornIsCut, DueIsSuperseded, CurrentHasArtifact
<1>2. VersionsInv /\ [Next_Sources]_sourceVars => VersionsInv'
  <2> SUFFICES ASSUME VersionsInv, [Next_Sources]_sourceVars
               PROVE  VersionsInv'
    OBVIOUS
  <2>0. /\ versions \in Seq(VersionRecords) /\ command \in CommandRecords
        /\ DOMAIN versions = 1..Len(versions) /\ Len(versions) \in Nat
        /\ \A i \in 1..Len(versions) : versions[i] \in VersionRecords
        /\ website \in SourceTexts
        /\ command.at \in {"downloaded", "writing", "written"} => command.text \in SourceTexts
        /\ \A i \in sweep.due : i \in 1..Len(versions) /\ i # Len(versions)
    BY DEF VersionsInv, SourceTypes, DueIsSuperseded
  <2>1. ASSUME website' \in SourceTexts, command' \in CommandRecords,
               command'.at \in {"downloaded", "writing", "written"}
                 => command'.text \in SourceTexts,
               command'.at \notin {"writing", "written"} \/ UNCHANGED command,
               command.at # "writing" \/ UNCHANGED command \/ command.text \in cut',
               UNCHANGED <<versions, artifactFiles, torn, sweep>>, cut \subseteq cut'
        PROVE  VersionsInv'
    BY <2>0, <2>1, VersionsStay
  <2>2. ASSUME NEW text \in SourceTexts, Republish(text) \/ ReadSavedFile(text)
        PROVE  VersionsInv'
    <3>1. CASE Republish(text)
      BY <2>0, <2>1, <3>1 DEF Republish, artifactVars
    <3>2. CASE ReadSavedFile(text)
      <4>1. command' = [at |-> "downloaded", text |-> text, then |-> "parse this"]
            /\ UNCHANGED <<website, versions, artifactFiles, torn, cut, sweep>>
            /\ command.at = "idle"
        BY <1>0, <3>2 DEF ReadSavedFile, artifactVars
      <4>2. command' \in CommandRecords
        BY <4>1 DEF CommandRecords
      <4> QED BY <2>0, <2>1, <4>1, <4>2
    <3> QED BY <2>2, <3>1, <3>2
  <2>3. ASSUME NEW then \in {"end", "parse"}, Download(then)
        PROVE  VersionsInv'
    <3>1. command' \in CommandRecords
      BY <2>0, <2>3 DEF Download, CommandRecords
    <3> QED BY <1>0, <2>0, <2>1, <2>3, <3>1 DEF Download, artifactVars
  <2>4. CASE Reparse \/ CommandDies \/ ParseSource \/ GetVersion
    <3>1. /\ command' \in CommandRecords /\ command'.at \in {"idle", "parse"}
      BY <1>0, <2>0, <2>4 DEF Reparse, CommandDies, ParseSource, GetVersion,
         AfterVersion, NoCommand, CommandRecords
    <3>2. /\ UNCHANGED <<website, versions, artifactFiles, torn, sweep>>
          /\ cut \subseteq cut' /\ (command.at # "writing" \/ command.text \in cut')
      BY <1>0, <2>4 DEF Reparse, CommandDies, ParseSource, GetVersion, artifactVars
    <3> QED BY <2>0, <2>1, <3>1, <3>2
  <2>5. CASE WriteArtifact \/ FinishArtifact
    <3>1. CASE WriteArtifact
      <4>1. /\ command.at = "downloaded" /\ VersionsOf(command.text) = {}
            /\ artifactFiles' = artifactFiles \cup {command.text}
            /\ UNCHANGED <<website, versions, cut, sweep>>
            /\ \/ command' = [command EXCEPT !.at = "written"] /\ UNCHANGED torn
               \/ /\ command' = [command EXCEPT !.at = "writing"]
                  /\ torn' = torn \cup {command.text}
        BY <3>1 DEF WriteArtifact
      <4>2. /\ command' \in CommandRecords /\ command'.text = command.text
            /\ command'.at \in {"writing", "written"}
            /\ command'.at = "writing" \/ UNCHANGED torn
        BY <2>0, <4>1 DEF CommandRecords
      <4>3. \A i \in 1..Len(versions) : versions[i].text # command.text
        BY <2>0, <4>1 DEF VersionsOf
      <4>4. TornIsCut'
        BY <4>1, <4>2 DEF VersionsInv, TornIsCut
      <4> QED BY <2>0, <4>1, <4>2, <4>3, <4>4 DEF VersionsInv, SourceTypes, LastIsCurrent,
              WrittenIsNew, DueIsSuperseded, CurrentHasArtifact
    <3>2. CASE FinishArtifact
      <4>1. /\ command.at = "writing" /\ torn' = torn \ {command.text}
            /\ command' = [command EXCEPT !.at = "written"]
            /\ UNCHANGED <<website, versions, artifactFiles, cut, sweep>>
        BY <3>2 DEF FinishArtifact
      <4>2. /\ command' \in CommandRecords /\ command'.text = command.text
            /\ command'.at = "written"
        BY <2>0, <4>1 DEF CommandRecords
      <4> QED BY <2>0, <4>1, <4>2 DEF VersionsInv, SourceTypes, LastIsCurrent,
              WrittenIsNew, TornIsCut, DueIsSuperseded, CurrentHasArtifact
    <3> QED BY <2>5, <3>1, <3>2
  <2>6. CASE CreateVersion
    <3> DEFINE n == Len(versions)
               old == [i \in DOMAIN versions |-> Superseded(versions[i])]
               new == [text |-> command.text, current |-> TRUE, age |-> "new",
                       purged |-> FALSE]
    <3>1. /\ command.at = "written" /\ versions' = Append(old, new)
          /\ command' = AfterVersion(command)
          /\ UNCHANGED <<website, artifactFiles, torn, cut, sweep>>
      BY <2>6 DEF CreateVersion, artifactVars
    <3>2. new \in VersionRecords /\ new.text = command.text /\ new.current
      BY <2>0, <3>1 DEF VersionRecords
    <3>3. \A i \in 1..n : /\ Superseded(versions[i]) \in VersionRecords
                          /\ Superseded(versions[i]).text = versions[i].text
                          /\ ~Superseded(versions[i]).current
      BY <2>0 DEF Superseded, VersionRecords
    <3>4. /\ old \in Seq(VersionRecords) /\ Len(old) = n
          /\ \A i \in 1..n : old[i] = Superseded(versions[i])
      BY <2>0, <3>3
    <3> HIDE DEF old, new
    <3>5. /\ versions' \in Seq(VersionRecords) /\ Len(versions') = n + 1
          /\ \A i \in 1..n : versions'[i] = old[i]
          /\ versions'[n + 1] = new
      BY <3>1, <3>2, <3>4
    <3>6. /\ command' \in CommandRecords /\ command'.at \in {"idle", "parse"}
      BY <1>0, <2>0, <3>1 DEF AfterVersion, CommandRecords
    <3>7. \A i \in 1..n : /\ versions'[i].text = versions[i].text
                          /\ ~versions'[i].current
                          /\ versions[i].text # command.text
      BY <3>1, <3>3, <3>4, <3>5 DEF VersionsInv, WrittenIsNew
    <3>8. \A i \in 1..(n + 1) : i \in 1..n \/ i = n + 1
      BY <2>0
    <3>9. LastIsCurrent'
      <4>1. \A i \in 1..(n + 1) : versions'[i].current <=> i = n + 1
        BY <2>0, <3>2, <3>5, <3>7, <3>8
      <4>2. \A i, j \in 1..(n + 1) : versions'[i].text = versions'[j].text => i = j
        BY <3>2, <3>5, <3>7, <3>8 DEF VersionsInv, LastIsCurrent
      <4> QED BY <3>5, <4>1, <4>2 DEF LastIsCurrent
    <3>10. CurrentHasArtifact'
      BY <3>1, <3>2, <3>5 DEF VersionsInv, WrittenIsNew, CurrentHasArtifact
    <3>11. SourceTypes' /\ WrittenIsNew' /\ TornIsCut' /\ DueIsSuperseded'
      BY <2>0, <3>1, <3>5, <3>6 DEF VersionsInv, SourceTypes, WrittenIsNew, TornIsCut,
         DueIsSuperseded
    <3> QED BY <3>9, <3>10, <3>11 DEF VersionsInv
  <2>7. ASSUME NEW i \in DOMAIN versions, ArtifactAges(i)
        PROVE  VersionsInv'
    <3> DEFINE r == [versions[i] EXCEPT !.age = "expired"]
    <3>1. r \in VersionRecords /\ r.text = versions[i].text
          /\ r.current = versions[i].current
      BY <2>0 DEF VersionRecords
    <3>2. versions' = [versions EXCEPT ![i] = r]
          /\ UNCHANGED <<website, artifactFiles, torn, cut, command, sweep>>
      BY <2>0, <2>7 DEF ArtifactAges, artifactVars
    <3> HIDE DEF r
    <3>3. /\ versions' \in Seq(VersionRecords) /\ Len(versions') = Len(versions)
          /\ \A j \in 1..Len(versions) : /\ versions'[j].text = versions[j].text
                                         /\ versions'[j].current = versions[j].current
      BY <2>0, <3>1, <3>2
    <3> QED BY <2>0, <3>2, <3>3, VersionsStay
  <2>8. CASE PurgeBegins \/ PurgeDies
    <3>1. UNCHANGED <<website, versions, artifactFiles, torn, cut, command>>
      BY <2>8 DEF PurgeBegins, PurgeDies, artifactVars
    <3>2. sweep'.due = {} \/ sweep'.due = Purgeable
      BY <1>0, <2>8 DEF PurgeBegins, PurgeDies
    <3>3. \A i \in sweep'.due : i \in 1..Len(versions) /\ i # Len(versions)
      BY <2>0, <3>2 DEF Purgeable, VersionsInv, LastIsCurrent
    <3> QED BY <2>0, <3>1, <3>3, VersionsStay
  <2>9. ASSUME NEW i \in DOMAIN versions, PurgeFile(i)
        PROVE  VersionsInv'
    <3>1. /\ i \in sweep.due /\ artifactFiles' = artifactFiles \ {versions[i].text}
          /\ torn' = torn \ {versions[i].text}
          /\ UNCHANGED <<website, versions, cut, command, sweep>>
      BY <2>9 DEF PurgeFile
    <3>2. i \in 1..Len(versions) /\ i # Len(versions)
      BY <2>0, <3>1
    <3>3. CurrentHasArtifact'
      BY <3>1, <3>2 DEF VersionsInv, CurrentHasArtifact, LastIsCurrent
    <3>4. WrittenIsNew'
      BY <3>1, <3>2 DEF VersionsInv, WrittenIsNew
    <3> QED BY <3>1, <3>3, <3>4 DEF VersionsInv, SourceTypes, LastIsCurrent,
            TornIsCut, DueIsSuperseded
  <2>10. CASE PurgeCommits
    <3>1. /\ versions' = [i \in DOMAIN versions |->
               IF i \in sweep.due THEN [versions[i] EXCEPT !.purged = TRUE]
               ELSE versions[i]]
          /\ sweep' = NoSweep /\ UNCHANGED <<website, artifactFiles, torn, cut, command>>
      BY <2>10 DEF PurgeCommits, artifactVars
    <3>2. \A i \in 1..Len(versions) :
            /\ [versions[i] EXCEPT !.purged = TRUE] \in VersionRecords
            /\ [versions[i] EXCEPT !.purged = TRUE].text = versions[i].text
            /\ [versions[i] EXCEPT !.purged = TRUE].current = versions[i].current
      BY <2>0 DEF VersionRecords
    <3>3. /\ Len(versions') = Len(versions) /\ versions' \in Seq(VersionRecords)
      BY <2>0, <3>1, <3>2
    <3>4. \A i \in 1..Len(versions) : /\ versions'[i].text = versions[i].text
                                      /\ versions'[i].current = versions[i].current
      BY <2>0, <3>1, <3>2
    <3> QED BY <1>0, <2>0, <3>1, <3>3, <3>4, VersionsStay
  <2>11. CASE UNCHANGED sourceVars
    BY <2>0, <2>1, <2>11 DEF sourceVars, artifactVars
  <2> QED BY <2>2, <2>3, <2>4, <2>5, <2>6, <2>7, <2>8, <2>9, <2>10, <2>11
          DEF Next_Sources, IngestMissing
<1>3. VersionsInv => CurrentTextIsTraceable
  <2> SUFFICES ASSUME VersionsInv PROVE CurrentTextIsTraceable
    OBVIOUS
  <2>1. DOMAIN versions = 1..Len(versions)
    BY DEF VersionsInv, SourceTypes
  <2> QED BY <2>1 DEF VersionsInv, LastIsCurrent, WrittenIsNew, TornIsCut,
          CurrentHasArtifact, CurrentTextIsTraceable
<1> QED BY <1>1, <1>2, <1>3, PTL DEF Spec_Sources

(***************************************************************************)
(* SourceDownloads.                                                        *)
(***************************************************************************)
Tags == Editions \cup {NoTag}
TransferRecords ==
  [at : {"idle", "request", "stream", "done"}, for : {"check", "install"},
   prior : FetchedTexts \cup {NoText}, tag : Tags, attempt : Nat,
   from : Editions \cup {"none"}, body : Seq(Editions), pages : Seq(Editions),
   text : FetchedTexts \cup {NoText}, textTag : Tags, seen : SUBSET Editions]

\* What a validator says of a text, until an answer without one has kept an
\* older one: it is a file's, and names an edition of the same meaning.
TagFits(tag, t) ==
  tag = NoTag \/ fellBack \/ (sourceKind = "file" /\ tag \in Editions
                  /\ t \in FetchedTexts /\ Alike(t, <<tag, tag>>))

DownloadTypes ==
  /\ issued \in Editions
  /\ sourceKind \in {"file", "bundle"}
  /\ validates \in BOOLEAN /\ fellBack \in BOOLEAN
  /\ fellBack => sourceKind = "file"
  /\ validatorOf \in [FetchedTexts -> Tags \cup {NotStored}]
  /\ activeText = NoText \/ activeText \in Held
  /\ transfer \in TransferRecords

TagsAreTrue == \A t \in Held : TagFits(validatorOf[t], t)

\* A download knows the edition that is served, and the validator it sends.
TransferKnows ==
  transfer.at # "idle" => issued \in transfer.seen /\ TagFits(transfer.tag, transfer.prior)

\* The pages so far were each served while the download ran.
PagesAreServed ==
  transfer.at \in {"request", "stream"} =>
    /\ Len(transfer.pages) <= 1
    /\ \A i \in 1..Len(transfer.pages) : transfer.pages[i] \in transfer.seen

\* What has arrived of an answer is of one edition, the one its header names.
BodyIsServed ==
  transfer.at = "stream" =>
    /\ transfer.from \in transfer.seen
    /\ Len(transfer.body) <= 2
    /\ \A i \in 1..Len(transfer.body) : transfer.body[i] = transfer.from
    /\ transfer.textTag = NoTag \/ fellBack
         \/ (sourceKind = "file" /\ transfer.textTag = transfer.from)

TextIsServed ==
  transfer.at = "done" =>
    /\ transfer.text \in FetchedTexts
    /\ TagFits(transfer.textTag, transfer.text)

DownloadInv == /\ DownloadTypes /\ TagsAreTrue /\ TransferKnows /\ PagesAreServed
               /\ BodyIsServed /\ TextIsServed /\ FetchedAsPublished

\* The elements of a sequence.
LEMMA ElementsOf ==
  ASSUME NEW S, NEW s \in Seq(S)
  PROVE  \A i \in 1..Len(s) : s[i] \in S
OBVIOUS

\* A sequence of two is a pair.
LEMMA PairOfTwo ==
  ASSUME NEW S, NEW s \in Seq(S), Len(s) = 2
  PROVE  s \in S \X S
<1>1. DOMAIN s = 1..2
  OBVIOUS
<1>2. s[1] \in S /\ s[2] \in S
  BY ElementsOf
<1>3. s = <<s[1], s[2]>>
  <2>1. s = [i \in 1..2 |-> s[i]]
    OBVIOUS
  <2> QED BY <2>1
<1> QED BY <1>2, <1>3

\* Another piece of the same edition.
LEMMA AppendSame ==
  ASSUME NEW S, NEW s \in Seq(S), NEW e \in S, \A i \in 1..Len(s) : s[i] = e
  PROVE  /\ Append(s, e) \in Seq(S) /\ Len(Append(s, e)) = Len(s) + 1
         /\ \A i \in 1..Len(Append(s, e)) : Append(s, e)[i] = e
OBVIOUS

\* Pages served then, and one more.
LEMMA ConcatServed ==
  ASSUME NEW S, NEW P, NEW s \in Seq(S), NEW r \in Seq(S),
         \A i \in 1..Len(s) : s[i] \in P, \A i \in 1..Len(r) : r[i] \in P
  PROVE  /\ s \o r \in Seq(S) /\ Len(s \o r) = Len(s) + Len(r)
         /\ \A i \in 1..Len(s \o r) : (s \o r)[i] \in P
OBVIOUS

\* The version that takes a text's validator has the text's meaning.
LEMMA VersionIsAlike ==
  ASSUME NEW t \in FetchedTexts
  PROVE  VersionFor(t) \in FetchedTexts /\ Alike(VersionFor(t), t)
<1>1. CASE t \in Held \/ ~\E s \in Held : Alike(s, t)
  BY <1>1 DEF VersionFor, Alike
<1>2. CASE t \notin Held /\ \E s \in Held : Alike(s, t)
  <2>1. VersionFor(t) = CHOOSE s \in Held : Alike(s, t)
    BY <1>2 DEF VersionFor
  <2>2. VersionFor(t) \in Held /\ Alike(VersionFor(t), t)
    BY <1>2, <2>1
  <2> QED BY <2>2 DEF Held
<1> QED BY <1>1, <1>2

\* The steps of a download keep what is stored.
LEMMA StoredStays ==
  ASSUME DownloadInv, UNCHANGED <<sourceKind, issued, validates, validatorOf, activeText>>,
         fellBack' \in BOOLEAN, fellBack => fellBack', fellBack' => sourceKind = "file",
         transfer' \in TransferRecords, TransferKnows', PagesAreServed', BodyIsServed',
         TextIsServed', FetchedAsPublished'
  PROVE  DownloadInv'
BY DEF DownloadInv, DownloadTypes, TagsAreTrue, Held, TagFits

\* The same, where the fallback is not taken.
LEMMA StoredAsBefore ==
  ASSUME DownloadInv,
         UNCHANGED <<sourceKind, issued, validates, fellBack, validatorOf, activeText>>,
         transfer' \in TransferRecords, TransferKnows', PagesAreServed', BodyIsServed',
         TextIsServed', FetchedAsPublished'
  PROVE  DownloadInv'
BY StoredStays DEF DownloadInv, DownloadTypes

\* What a download hands on means what the publisher served while it ran, for
\* every set of editions and whatever was retried, issued meanwhile, rolled
\* back or stored under another edition's bytes (download.py:68-107, 191-237).
THEOREM DownloadsAreAsPublished == Spec_Downloads => []FetchedAsPublished
<1>1. Init_Downloads => DownloadInv
  <2> SUFFICES ASSUME Init_Downloads PROVE DownloadInv
    OBVIOUS
  <2>1. NoTransfer \in TransferRecords /\ NoTransfer.at = "idle"
    BY DEF NoTransfer, TransferRecords, Tags
  <2>2. Held = {}
    BY DEF Init_Downloads, Held
  <2>3. DownloadTypes
    BY <2>1 DEF Init_Downloads, DownloadTypes, Tags
  <2> QED BY <2>1, <2>2, <2>3 DEF Init_Downloads, DownloadInv, TagsAreTrue, TransferKnows,
          PagesAreServed, BodyIsServed, TextIsServed, FetchedAsPublished
<1>2. DownloadInv /\ [Next_Downloads]_downloadVars => DownloadInv'
  <2> SUFFICES ASSUME DownloadInv, [Next_Downloads]_downloadVars PROVE DownloadInv'
    OBVIOUS
  <2>0. /\ DownloadTypes /\ transfer \in TransferRecords /\ TagsAreTrue /\ TransferKnows
        /\ PagesAreServed /\ BodyIsServed /\ TextIsServed /\ FetchedAsPublished
    BY DEF DownloadInv, DownloadTypes
  <2>n. NoTransfer \in TransferRecords /\ NoTransfer.at = "idle"
    BY DEF NoTransfer, TransferRecords, Tags
  <2>i. ASSUME transfer' = NoTransfer,
               UNCHANGED <<sourceKind, issued, validates, fellBack, validatorOf, activeText>>
        PROVE  DownloadInv'
    <3>1. /\ TransferKnows' /\ PagesAreServed' /\ BodyIsServed' /\ TextIsServed'
          /\ FetchedAsPublished'
      BY <2>n, <2>i DEF TransferKnows, PagesAreServed, BodyIsServed, TextIsServed,
         FetchedAsPublished
    <3> QED BY <2>n, <2>i, <3>1, StoredAsBefore
  <2>1. ASSUME NEW e \in Editions, Issue(e) PROVE DownloadInv'
    <3>1. /\ issued' = e
          /\ UNCHANGED <<sourceKind, validates, fellBack, validatorOf, activeText>>
      BY <2>1 DEF Issue
    <3>2. CASE transfer = NoTransfer
      <4>1. transfer' = NoTransfer
        BY <2>1, <3>2 DEF Issue
      <4> QED BY <2>0, <2>n, <3>1, <4>1 DEF DownloadInv, DownloadTypes, TagsAreTrue, Held,
              TagFits, TransferKnows, PagesAreServed, BodyIsServed, TextIsServed,
              FetchedAsPublished
    <3>3. CASE transfer # NoTransfer
      <4>1. transfer' = [transfer EXCEPT !.seen = @ \cup {e}]
        BY <2>1, <3>3 DEF Issue
      <4>2. /\ transfer' \in TransferRecords /\ transfer'.at = transfer.at
            /\ transfer'.prior = transfer.prior /\ transfer'.tag = transfer.tag
            /\ transfer'.from = transfer.from /\ transfer'.body = transfer.body
            /\ transfer'.pages = transfer.pages /\ transfer'.text = transfer.text
            /\ transfer'.textTag = transfer.textTag
            /\ transfer'.seen = transfer.seen \cup {e}
        BY <2>0, <4>1 DEF TransferRecords
      <4>3. DownloadTypes' /\ TagsAreTrue'
        BY <2>0, <3>1, <4>2 DEF DownloadTypes, TagsAreTrue, Held, TagFits
      <4>4. TransferKnows' /\ TextIsServed'
        BY <2>0, <3>1, <4>2 DEF TransferKnows, TextIsServed, TagFits
      <4>5. PagesAreServed' /\ BodyIsServed'
        BY <2>0, <3>1, <4>2 DEF PagesAreServed, BodyIsServed
      <4>6. FetchedAsPublished'
        BY <2>0, <3>1, <4>2 DEF FetchedAsPublished
      <4> QED BY <4>3, <4>4, <4>5, <4>6 DEF DownloadInv
    <3> QED BY <3>2, <3>3
  <2>2. CASE ChangesHeaders
    <3>1. /\ validates' = ~validates
          /\ UNCHANGED <<sourceKind, issued, fellBack, validatorOf, activeText, transfer>>
      BY <2>2 DEF ChangesHeaders
    <3> QED BY <2>0, <3>1 DEF DownloadInv, DownloadTypes, TagsAreTrue, Held, TagFits,
            TransferKnows, PagesAreServed, BodyIsServed, TextIsServed, FetchedAsPublished
  <2>3. ASSUME NEW for \in {"check", "install"}, BeginDownload(for) PROVE DownloadInv'
    <3> DEFINE tag == IF activeText = NoText THEN NoTag ELSE validatorOf[activeText]
    <3>1. /\ transfer' = [NoTransfer EXCEPT !.at = "request", !.for = for,
                            !.prior = activeText, !.seen = {issued}, !.tag = tag]
          /\ UNCHANGED <<sourceKind, issued, validates, fellBack, validatorOf, activeText>>
      BY <2>3 DEF BeginDownload
    <3>2. tag \in Tags /\ TagFits(tag, activeText) /\ activeText \in FetchedTexts \cup {NoText}
      BY <2>0 DEF DownloadTypes, TagsAreTrue, Held, TagFits, Tags
    <3> HIDE DEF tag
    <3>3. /\ transfer' \in TransferRecords /\ transfer'.at = "request"
          /\ transfer'.prior = activeText /\ transfer'.tag = tag
          /\ transfer'.seen = {issued} /\ transfer'.pages = <<>>
      <4>1. transfer' = [at |-> "request", for |-> for, prior |-> activeText, tag |-> tag,
               attempt |-> 1, from |-> "none", body |-> <<>>, pages |-> <<>>,
               text |-> NoText, textTag |-> NoTag, seen |-> {issued}]
        BY <3>1 DEF NoTransfer
      <4>2. /\ <<>> \in Seq(Editions) /\ {issued} \in SUBSET Editions /\ NoTag \in Tags
            /\ for \in {"check", "install"}
        BY <2>0 DEF DownloadTypes, Tags
      <4>3. transfer' \in TransferRecords
        BY <3>2, <4>1, <4>2 DEF TransferRecords
      <4> QED BY <4>1, <4>3
    <3>4. /\ TransferKnows' /\ PagesAreServed' /\ BodyIsServed' /\ TextIsServed'
          /\ FetchedAsPublished'
      BY <3>1, <3>2, <3>3 DEF TransferKnows, PagesAreServed, BodyIsServed, TextIsServed,
         FetchedAsPublished, TagFits
    <3> QED BY <3>1, <3>3, <3>4, StoredAsBefore
  <2>4. CASE NotModified
    <3>1. /\ transfer' = [transfer EXCEPT !.at = "done", !.text = transfer.prior,
                                          !.textTag = transfer.tag, !.from = "none"]
          /\ transfer.at = "request"
          /\ sourceKind = "file" /\ transfer.prior # NoText /\ transfer.tag = issued
          /\ UNCHANGED <<sourceKind, issued, validates, fellBack, validatorOf, activeText>>
      BY <2>4 DEF NotModified, Unmodified
    <3>2. /\ transfer.tag # NoTag /\ issued \in transfer.seen
          /\ transfer.prior \in FetchedTexts
          /\ ~fellBack => Alike(transfer.prior, <<issued, issued>>)
          /\ TagFits(transfer.tag, transfer.prior)
      BY <2>0, <3>1, DownloadAssumption DEF DownloadTypes, TransferRecords, TransferKnows,
         TagFits
    <3>3. /\ transfer' \in TransferRecords /\ transfer'.at = "done"
          /\ transfer'.text = transfer.prior /\ transfer'.textTag = transfer.tag
          /\ transfer'.from = "none"
          /\ transfer'.prior = transfer.prior /\ transfer'.tag = transfer.tag
          /\ transfer'.seen = transfer.seen
      BY <2>0, <3>1, <3>2 DEF TransferRecords
    <3>4. FetchedAsPublished'
      <4>1. SUFFICES ASSUME ~fellBack'
                     PROVE  FetchedAsPublished'
        BY <3>3 DEF FetchedAsPublished
      <4>2. ~fellBack
        BY <3>1, <4>1
      <4>3. Alike(transfer.prior, <<issued, issued>>) /\ issued \in transfer.seen
        BY <3>2, <4>2
      <4> QED BY <3>1, <3>3, <4>3 DEF FetchedAsPublished, Alike
    <3>5. TransferKnows' /\ PagesAreServed' /\ BodyIsServed' /\ TextIsServed'
      <4>1. TagFits(transfer.tag, transfer.prior)'
        BY <3>1, <3>2, <3>3 DEF TagFits
      <4>2. PagesAreServed' /\ BodyIsServed'
        BY <3>3 DEF PagesAreServed, BodyIsServed
      <4> QED BY <3>1, <3>2, <3>3, <4>1, <4>2 DEF TransferKnows, TextIsServed
    <3> QED BY <3>1, <3>3, <3>4, <3>5, StoredAsBefore
  <2>5. CASE Responds
    <3> DEFINE tag == IF sourceKind = "bundle" THEN NoTag
                      ELSE Validator(IF validates THEN issued ELSE NoTag, transfer.tag)
    <3>1. /\ transfer' = [transfer EXCEPT !.at = "stream", !.from = issued, !.body = <<>>,
                                          !.textTag = tag]
          /\ transfer.at = "request"
          /\ fellBack' = (fellBack \/ (sourceKind = "file" /\ ~validates
                                       /\ transfer.tag # NoTag))
          /\ UNCHANGED <<sourceKind, issued, validates, validatorOf, activeText>>
      BY <2>5 DEF Responds
    <3>f. /\ fellBack' \in BOOLEAN /\ (fellBack => fellBack')
          /\ fellBack' => sourceKind = "file"
      BY <2>0, <3>1 DEF DownloadTypes
    <3>2. /\ tag \in Tags
          /\ tag = NoTag \/ fellBack' \/ (sourceKind = "file" /\ tag = issued)
      BY <2>0, <3>1, DownloadAssumption DEF DownloadTypes, TransferRecords, Validator, Tags
    <3> HIDE DEF tag
    <3>3. /\ transfer' \in TransferRecords /\ transfer'.at = "stream"
          /\ transfer'.from = issued /\ transfer'.body = <<>> /\ transfer'.textTag = tag
          /\ transfer'.prior = transfer.prior /\ transfer'.tag = transfer.tag
          /\ transfer'.pages = transfer.pages /\ transfer'.seen = transfer.seen
      <4>1. <<>> \in Seq(Editions) /\ issued \in Editions
        BY <2>0 DEF DownloadTypes
      <4> DEFINE none == <<>>
      <4>2. transfer' = [transfer EXCEPT !.at = "stream", !.from = issued, !.body = none,
                                         !.textTag = tag] /\ none \in Seq(Editions)
        BY <3>1, <4>1
      <4> HIDE DEF none
      <4>3. /\ transfer' \in TransferRecords /\ transfer'.at = "stream"
            /\ transfer'.from = issued /\ transfer'.body = none /\ transfer'.textTag = tag
        BY <2>0, <3>2, <4>1, <4>2 DEF TransferRecords
      <4>4. /\ transfer'.prior = transfer.prior /\ transfer'.tag = transfer.tag
            /\ transfer'.pages = transfer.pages /\ transfer'.seen = transfer.seen
        BY <2>0, <4>2 DEF TransferRecords
      <4> QED BY <4>3, <4>4 DEF none
    <3>4. TransferKnows' /\ PagesAreServed' /\ TextIsServed' /\ FetchedAsPublished'
      BY <2>0, <3>1, <3>3, <3>f DEF TransferKnows, PagesAreServed, TextIsServed, TagFits,
         FetchedAsPublished
    <3>5. BodyIsServed'
      BY <2>0, <3>1, <3>2, <3>3 DEF BodyIsServed, TransferKnows
    <3> QED BY <3>1, <3>3, <3>4, <3>5, <3>f, StoredStays
  <2>6. CASE PieceArrives
    <3>1. /\ transfer' = [transfer EXCEPT !.body = Append(@, transfer.from)]
          /\ transfer.at = "stream" /\ Len(transfer.body) < 2
          /\ UNCHANGED <<sourceKind, issued, validates, fellBack, validatorOf, activeText>>
      BY <2>0, <2>6 DEF PieceArrives, DownloadTypes, TransferRecords
    <3> DEFINE body == Append(transfer.body, transfer.from)
    <3>2. /\ transfer.from \in Editions /\ transfer.body \in Seq(Editions)
          /\ transfer.from \in transfer.seen
          /\ \A i \in 1..Len(transfer.body) : transfer.body[i] = transfer.from
      BY <2>0, <3>1 DEF TransferRecords, BodyIsServed
    <3>3. /\ body \in Seq(Editions) /\ Len(body) = Len(transfer.body) + 1
          /\ \A i \in 1..Len(body) : body[i] = transfer.from
      BY <3>2, AppendSame
    <3>4. transfer' = [transfer EXCEPT !.body = body] /\ Len(body) <= 2
      BY <3>1, <3>2, <3>3
    <3> HIDE DEF body
    <3>5. /\ transfer' \in TransferRecords /\ transfer'.at = "stream"
          /\ transfer'.from = transfer.from /\ transfer'.body = body
          /\ transfer'.textTag = transfer.textTag
          /\ transfer'.prior = transfer.prior /\ transfer'.tag = transfer.tag
          /\ transfer'.pages = transfer.pages /\ transfer'.seen = transfer.seen
      BY <2>0, <3>1, <3>3, <3>4 DEF TransferRecords
    <3>6. TransferKnows' /\ PagesAreServed' /\ TextIsServed' /\ FetchedAsPublished'
      BY <2>0, <3>1, <3>5 DEF TransferKnows, PagesAreServed, TextIsServed, TagFits,
         FetchedAsPublished
    <3>7. BodyIsServed'
      BY <2>0, <3>1, <3>2, <3>3, <3>4, <3>5 DEF BodyIsServed
    <3> QED BY <3>1, <3>5, <3>6, <3>7, StoredAsBefore
  <2>7. CASE TryAgain
    <3> DEFINE next == transfer.attempt + 1
    <3>0. next \in Nat
      BY <2>0 DEF TransferRecords
    <3>1. /\ transfer' = [transfer EXCEPT !.at = "request", !.attempt = next]
          /\ transfer.at \in {"request", "stream"}
          /\ UNCHANGED <<sourceKind, issued, validates, fellBack, validatorOf, activeText>>
      BY <2>7 DEF TryAgain
    <3> HIDE DEF next
    <3>2. /\ transfer' \in TransferRecords /\ transfer'.at = "request"
          /\ transfer'.prior = transfer.prior /\ transfer'.tag = transfer.tag
          /\ transfer'.pages = transfer.pages /\ transfer'.seen = transfer.seen
      BY <2>0, <3>0, <3>1 DEF TransferRecords
    <3>3. /\ TransferKnows' /\ PagesAreServed' /\ BodyIsServed' /\ TextIsServed'
          /\ FetchedAsPublished'
      BY <2>0, <3>1, <3>2 DEF TransferKnows, PagesAreServed, BodyIsServed, TextIsServed,
         TagFits, FetchedAsPublished
    <3> QED BY <3>1, <3>2, <3>3, StoredAsBefore
  <2>8. CASE FileArrived
    <3>1. /\ transfer' = [transfer EXCEPT !.at = "done", !.text = transfer.body]
          /\ transfer.at = "stream" /\ Len(transfer.body) = 2
          /\ UNCHANGED <<sourceKind, issued, validates, fellBack, validatorOf, activeText>>
      BY <2>8 DEF FileArrived
    <3>2. /\ transfer.body \in FetchedTexts /\ transfer.from \in transfer.seen
          /\ transfer.from \in Editions
          /\ transfer.body[1] = transfer.from /\ transfer.body[2] = transfer.from
      <4>1. transfer.body \in Seq(Editions) /\ transfer.seen \subseteq Editions
        BY <2>0 DEF TransferRecords
      <4>2. /\ transfer.from \in transfer.seen
            /\ \A i \in 1..2 : transfer.body[i] = transfer.from
        BY <2>0, <3>1 DEF BodyIsServed
      <4>3. transfer.body \in FetchedTexts
        BY <3>1, <4>1, PairOfTwo DEF FetchedTexts
      <4> QED BY <4>1, <4>2, <4>3
    <3>3. /\ transfer' \in TransferRecords /\ transfer'.at = "done"
          /\ transfer'.text = transfer.body /\ transfer'.textTag = transfer.textTag
          /\ transfer'.prior = transfer.prior /\ transfer'.tag = transfer.tag
          /\ transfer'.seen = transfer.seen
      BY <2>0, <3>1, <3>2 DEF TransferRecords
    <3>4. Alike(transfer.body, <<transfer.from, transfer.from>>)
      BY <3>2 DEF Alike
    <3>5. FetchedAsPublished'
      BY <3>2, <3>3, <3>4 DEF FetchedAsPublished, Alike
    <3>6. TagFits(transfer.textTag, transfer.body)
      BY <2>0, <3>1, <3>2, <3>4 DEF BodyIsServed, TagFits
    <3>7. TransferKnows' /\ PagesAreServed' /\ BodyIsServed' /\ TextIsServed'
      BY <2>0, <3>1, <3>2, <3>3, <3>6 DEF TransferKnows, PagesAreServed, BodyIsServed,
         TextIsServed, TagFits
    <3> QED BY <3>1, <3>3, <3>5, <3>7, StoredAsBefore
  <2>9. CASE PageArrived
    <3> DEFINE pages == transfer.pages \o transfer.body
    <3>1. /\ sourceKind = "bundle" /\ transfer.at = "stream" /\ Len(transfer.body) = 1
          /\ transfer' = IF Len(pages) < 2
                         THEN [transfer EXCEPT !.at = "request", !.attempt = 1, !.pages = pages]
                         ELSE [transfer EXCEPT !.at = "done", !.pages = pages, !.text = pages]
          /\ UNCHANGED <<sourceKind, issued, validates, fellBack, validatorOf, activeText>>
      BY <2>9 DEF PageArrived
    <3>2. /\ pages \in Seq(Editions) /\ Len(pages) <= 2
          /\ \A i \in 1..Len(pages) : pages[i] \in transfer.seen
      <4>1. /\ transfer.body \in Seq(Editions) /\ transfer.pages \in Seq(Editions)
            /\ transfer.seen \subseteq Editions
        BY <2>0 DEF TransferRecords
      <4>2. /\ \A i \in 1..Len(transfer.body) : transfer.body[i] \in transfer.seen
            /\ \A i \in 1..Len(transfer.pages) : transfer.pages[i] \in transfer.seen
            /\ Len(transfer.pages) <= 1
        BY <2>0, <3>1 DEF BodyIsServed, PagesAreServed
      <4>3. /\ pages \in Seq(Editions)
            /\ Len(pages) = Len(transfer.pages) + Len(transfer.body)
            /\ \A i \in 1..Len(pages) : pages[i] \in transfer.seen
        <5> DEFINE s == transfer.pages
                   r == transfer.body
                   P == transfer.seen
        <5>1. /\ s \in Seq(Editions) /\ r \in Seq(Editions)
              /\ \A i \in 1..Len(s) : s[i] \in P
              /\ \A i \in 1..Len(r) : r[i] \in P
              /\ pages = s \o r
          BY <4>1, <4>2
        <5> HIDE DEF s, r, P, pages
        <5>2. /\ s \o r \in Seq(Editions) /\ Len(s \o r) = Len(s) + Len(r)
              /\ \A i \in 1..Len(s \o r) : (s \o r)[i] \in P
          BY <5>1, ConcatServed
        <5> QED BY <5>1, <5>2 DEF s, r, P
      <4> HIDE DEF pages
      <4>4. Len(transfer.pages) \in Nat
        BY <4>1
      <4> QED BY <3>1, <4>2, <4>3, <4>4
    <3> HIDE DEF pages
    <3>3. transfer.textTag = NoTag
      BY <2>0, <3>1 DEF BodyIsServed, DownloadTypes
    <3>l. Len(pages) \in Nat /\ Len(pages) <= 2
      <4>1. pages \in Seq(Editions) /\ Len(pages) <= 2
        BY <3>2
      <4> QED BY <4>1
    <3>4. CASE Len(pages) < 2
      <4>1. transfer' = [transfer EXCEPT !.at = "request", !.attempt = 1, !.pages = pages]
        BY <3>1, <3>4
      <4>2. /\ transfer' \in TransferRecords /\ transfer'.at = "request"
            /\ transfer'.prior = transfer.prior /\ transfer'.tag = transfer.tag
            /\ transfer'.pages = pages /\ transfer'.seen = transfer.seen
        BY <2>0, <3>2, <4>1 DEF TransferRecords
      <4>3. /\ TransferKnows' /\ PagesAreServed' /\ BodyIsServed' /\ TextIsServed'
            /\ FetchedAsPublished'
        BY <2>0, <3>1, <3>2, <3>l, <3>4, <4>2 DEF TransferKnows, PagesAreServed, BodyIsServed,
           TextIsServed, TagFits, FetchedAsPublished
      <4> QED BY <3>1, <4>2, <4>3, StoredAsBefore
    <3>5. CASE Len(pages) = 2
      <4>1. transfer' = [transfer EXCEPT !.at = "done", !.pages = pages, !.text = pages]
        BY <3>1, <3>5
      <4>2. /\ pages \in FetchedTexts /\ \A i \in 1..2 : pages[i] \in transfer.seen
        BY <3>2, <3>5, PairOfTwo DEF FetchedTexts
      <4>3. /\ transfer' \in TransferRecords /\ transfer'.at = "done"
            /\ transfer'.text = pages /\ transfer'.textTag = transfer.textTag
            /\ transfer'.prior = transfer.prior /\ transfer'.tag = transfer.tag
            /\ transfer'.seen = transfer.seen
        BY <2>0, <3>2, <4>1, <4>2 DEF TransferRecords
      <4>4. FetchedAsPublished'
        BY <3>1, <4>2, <4>3 DEF FetchedAsPublished
      <4>5. TransferKnows' /\ PagesAreServed' /\ BodyIsServed' /\ TextIsServed'
        BY <2>0, <3>1, <3>3, <4>2, <4>3 DEF TransferKnows, PagesAreServed, BodyIsServed,
           TextIsServed, TagFits
      <4> QED BY <3>1, <4>3, <4>4, <4>5, StoredAsBefore
    <3>6. Len(pages) < 2 \/ Len(pages) = 2
      <4> DEFINE n == Len(pages)
      <4>1. n \in Nat /\ n <= 2
        BY <3>l
      <4> HIDE DEF n
      <4>2. n < 2 \/ n = 2
        BY <4>1
      <4> QED BY <4>2 DEF n
    <3> QED BY <3>4, <3>5, <3>6
  <2>10. CASE GiveUp
    <3>1. /\ transfer' = NoTransfer
          /\ UNCHANGED <<sourceKind, issued, validates, fellBack, validatorOf, activeText>>
      BY <2>10 DEF GiveUp
    <3> QED BY <2>i, <3>1
  <2>11. CASE CheckSource
    <3>1. /\ transfer' = NoTransfer
          /\ UNCHANGED <<sourceKind, issued, validates, fellBack, validatorOf, activeText>>
      BY <2>11 DEF CheckSource
    <3> QED BY <2>i, <3>1
  <2>12. CASE InstallSource
    <3> DEFINE t == VersionFor(transfer.text)
    <3>1. /\ validatorOf' = [validatorOf EXCEPT ![t] = transfer.textTag]
          /\ activeText' = t /\ transfer' = NoTransfer /\ transfer.at = "done"
          /\ UNCHANGED <<sourceKind, issued, validates, fellBack>>
      BY <2>12 DEF InstallSource
    <3>2. /\ transfer.text \in FetchedTexts /\ TagFits(transfer.textTag, transfer.text)
          /\ transfer.textTag \in Tags /\ transfer.textTag # NotStored
      BY <2>0, <3>1, DownloadAssumption DEF TextIsServed, TransferRecords, Tags, NoTag, NotStored
    <3>3. t \in FetchedTexts /\ Alike(t, transfer.text)
      BY <3>2, VersionIsAlike
    <3> HIDE DEF t
    <3>4. TagFits(transfer.textTag, t)
      BY <3>2, <3>3 DEF TagFits, Alike
    <3>5. /\ validatorOf' \in [FetchedTexts -> Tags \cup {NotStored}]
          /\ validatorOf'[t] = transfer.textTag
          /\ \A s \in FetchedTexts : s # t => validatorOf'[s] = validatorOf[s]
      BY <2>0, <3>1, <3>2, <3>3 DEF DownloadTypes
    <3>6. Held' = Held \cup {t}
      BY <3>2, <3>3, <3>5 DEF Held
    <3>7. DownloadTypes'
      BY <2>0, <2>n, <3>1, <3>5, <3>6 DEF DownloadTypes
    <3>8. TagsAreTrue'
      <4> SUFFICES ASSUME NEW s \in Held' PROVE TagFits(validatorOf[s], s)'
        BY DEF TagsAreTrue
      <4>1. s \in FetchedTexts
        BY DEF Held
      <4>2. CASE s = t
        BY <3>1, <3>4, <3>5, <4>2 DEF TagFits
      <4>3. CASE s # t
        <5>1. s \in Held /\ validatorOf'[s] = validatorOf[s]
          BY <3>5, <3>6, <4>1, <4>3
        <5> QED BY <2>0, <3>1, <5>1 DEF TagsAreTrue, TagFits
      <4> QED BY <4>2, <4>3
    <3>9. /\ TransferKnows' /\ PagesAreServed' /\ BodyIsServed' /\ TextIsServed'
          /\ FetchedAsPublished'
      BY <2>n, <3>1 DEF TransferKnows, PagesAreServed, BodyIsServed, TextIsServed,
         FetchedAsPublished
    <3> QED BY <3>7, <3>8, <3>9 DEF DownloadInv
  <2>13. ASSUME NEW t \in FetchedTexts, ReturnTo(t) PROVE DownloadInv'
    <3>1. /\ t \in Held /\ activeText' = t
          /\ UNCHANGED <<sourceKind, issued, validates, fellBack, validatorOf, transfer>>
      BY <2>13 DEF ReturnTo
    <3> QED BY <2>0, <3>1 DEF DownloadInv, DownloadTypes, TagsAreTrue, Held, TagFits,
            TransferKnows, PagesAreServed, BodyIsServed, TextIsServed, FetchedAsPublished
  <2>14. CASE UNCHANGED downloadVars
    BY <2>0, <2>14 DEF downloadVars, DownloadInv, DownloadTypes, TagsAreTrue, Held, TagFits,
       TransferKnows, PagesAreServed, BodyIsServed, TextIsServed, FetchedAsPublished
  <2> QED BY <2>1, <2>2, <2>3, <2>4, <2>5, <2>6, <2>7, <2>8, <2>9, <2>10, <2>11, <2>12,
          <2>13, <2>14 DEF Next_Downloads
<1>3. DownloadInv => FetchedAsPublished
  BY DEF DownloadInv
<1> QED BY <1>1, <1>2, <1>3, PTL DEF Spec_Downloads

(***************************************************************************)
(* HpdLoading.                                                             *)
(***************************************************************************)
RowRecords == [date : Nat, rev : Nat]
KeyRecords == [date : Nat, id : Nat]
CheckpointRecords == [mode : {"none", "full", "delta"}, key : KeyRecords, watermark : Nat,
                      complete : BOOLEAN]
LoadRecords == [at : {"idle", "fetching", "fetched", "upserted"},
                mode : {"none", "full", "delta"}, from : Nat, row : Nat, read : RowRecords]

LoadingTypes ==
  /\ today \in Nat /\ changes \in Nat /\ since \in Nat /\ slow \in BOOLEAN
  /\ dataset \in [HpdRows -> RowRecords] /\ table \in [HpdRows -> RowRecords]
  /\ checkpoint \in CheckpointRecords
  /\ load \in LoadRecords

\* Nothing is dated after today, and a row that was never published is stored
\* as such.
DatesArePast ==
  /\ today > 0 /\ since <= today /\ checkpoint.watermark <= today
  /\ \A v \in HpdRows : /\ dataset[v].date <= today /\ table[v].date <= today
                        /\ dataset[v].date = 0 => dataset[v] = Unpublished
                        /\ dataset[v].date = 0 => table[v] = Unpublished

\* A running load works on the checkpoint it began with; the row it carries is
\* the published one, or that one changed since the load began.
LoadFollowsCheckpoint ==
  /\ load.at # "idle" => /\ checkpoint.complete = FALSE /\ load.mode = checkpoint.mode
                         /\ load.mode \in {"full", "delta"}
                         /\ load.from = Earlier(checkpoint.watermark)
  /\ load.at \in {"fetched", "upserted"} =>
       /\ load.row \in HpdRows /\ dataset[load.row].date # 0 /\ load.read.date <= today
       /\ load.read = dataset[load.row]
            \/ (dataset[load.row].date >= since
                /\ dataset[load.row].date >= checkpoint.watermark)
  /\ load.at = "upserted" => table[load.row] = load.read

\* Stored as published, or changed since the load under way was begun.
Fresh(v) == table[v] = dataset[v] \/ dataset[v].date >= since

\* Not after a key, in the order of the mode.
UpTo(v, mode, date, id) ==
  IF mode = "full" THEN v <= id
  ELSE dataset[v].date < date \/ (dataset[v].date = date /\ v <= id)

\* What the next delta would not ask for is stored, whether or not a load is
\* under way.
OldIsStored ==
  ~slow => \A v \in HpdRows :
             dataset[v].date < Earlier(checkpoint.watermark) => table[v] = dataset[v]

\* What an unfinished load has passed is fresh: up to its committed key, and
\* before the row that it carries.
PassedIsFresh ==
  ~slow =>
    /\ checkpoint.complete = FALSE
       /\ (checkpoint.mode = "full" \/ (checkpoint.mode = "delta" /\ checkpoint.key # NoKey)) =>
         \A v \in HpdRows : UpTo(v, checkpoint.mode, checkpoint.key.date, checkpoint.key.id)
                              => Fresh(v)
    /\ load.at \in {"fetched", "upserted"} =>
         \A v \in HpdRows : v # load.row /\ UpTo(v, load.mode, load.read.date, load.row)
                              => Fresh(v)

LoadingInv == /\ LoadingTypes /\ DatesArePast /\ LoadFollowsCheckpoint /\ OldIsStored
              /\ PassedIsFresh

\* The maximum of a bounded set of naturals is its greatest element.
LEMMA GreatestNatural ==
  ASSUME NEW T, NEW bound \in Nat, T # {}, \A x \in T : x \in Nat /\ x <= bound
  PROVE  Max(T) \in T /\ \A y \in T : y <= Max(T)
<1> DEFINE D == {bound - x : x \in T}
<1>1. D \subseteq Nat /\ D # {}
  OBVIOUS
<1>2. \E d \in D : \A e \in D : d <= e
  <2> HIDE DEF D
  <2> QED BY <1>1, LeastNatural
<1>3. PICK m \in T : \A y \in T : bound - m <= bound - y
  BY <1>2
<1>4. \A y \in T : m >= y
  BY <1>3
<1>5. Max(T) \in T /\ \A y \in T : Max(T) >= y
  BY <1>4 DEF Max
<1> QED BY <1>5

\* A delta starts no later than the watermark.
LEMMA EarlierIsNoLater ==
  ASSUME NEW date \in Nat
  PROVE  Earlier(date) \in Nat /\ Earlier(date) <= date
         /\ \A n \in Nat : date - n <= OverlapDays => Earlier(date) <= n
BY LoadingAssumption DEF Earlier

\* The steps that store nothing and move no key: a row may change, with today's
\* date, and time may pass.
LEMMA LoadingStays ==
  ASSUME LoadingInv, LoadingTypes', DatesArePast', LoadFollowsCheckpoint',
         UNCHANGED <<table, checkpoint, since, slow>>,
         \A v \in HpdRows : dataset'[v] = dataset[v]
           \/ (dataset'[v].date >= since /\ dataset'[v].date >= checkpoint.watermark),
         load'.at \in {"fetched", "upserted"} => UNCHANGED load
  PROVE  LoadingInv'
<1>0. /\ LoadingTypes /\ OldIsStored /\ PassedIsFresh
      /\ checkpoint.watermark \in Nat
  BY DEF LoadingInv, LoadingTypes, CheckpointRecords
<1>1. OldIsStored'
  <2> SUFFICES ASSUME ~slow, NEW v \in HpdRows,
                      dataset'[v].date < Earlier(checkpoint.watermark)
               PROVE  table[v] = dataset'[v]
    BY DEF OldIsStored, Earlier
  <2>1. /\ dataset'[v].date \in Nat /\ Earlier(checkpoint.watermark) \in Nat
        /\ Earlier(checkpoint.watermark) <= checkpoint.watermark
    BY <1>0, EarlierIsNoLater DEF LoadingTypes, RowRecords
  <2>2. dataset'[v] = dataset[v]
    BY <1>0, <2>1
  <2> QED BY <1>0, <2>2 DEF OldIsStored
<1>2. PassedIsFresh'
  <2> SUFFICES ASSUME ~slow PROVE PassedIsFresh'
    BY DEF PassedIsFresh
  <2>1. ASSUME checkpoint.complete = FALSE,
               checkpoint.mode = "full" \/ (checkpoint.mode = "delta" /\ checkpoint.key # NoKey),
               NEW v \in HpdRows,
               UpTo(v, checkpoint.mode, checkpoint.key.date, checkpoint.key.id)'
        PROVE  Fresh(v)'
    <3>1. UpTo(v, checkpoint.mode, checkpoint.key.date, checkpoint.key.id) => Fresh(v)
      BY <1>0, <2>1 DEF PassedIsFresh
    <3> QED BY <2>1, <3>1 DEF UpTo, Fresh
  <2>2. ASSUME load'.at \in {"fetched", "upserted"}, NEW v \in HpdRows, v # load'.row,
               UpTo(v, load.mode, load.read.date, load.row)'
        PROVE  Fresh(v)'
    <3>1. UNCHANGED load
      BY <2>2
    <3>2. UpTo(v, load.mode, load.read.date, load.row) => Fresh(v)
      BY <1>0, <2>2, <3>1 DEF PassedIsFresh
    <3> QED BY <2>2, <3>1, <3>2 DEF UpTo, Fresh
  <2> QED BY <2>1, <2>2 DEF PassedIsFresh
<1> QED BY <1>1, <1>2 DEF LoadingInv

\* After a complete load the next delta misses nothing, for every set of rows and
\* every overlap, whatever was published, interrupted, resumed or repeated in the
\* other mode, while no load takes longer than the overlap
\* (hpd_violations.py:300-428).
THEOREM DeltasMissNothing == Spec_Loading => []NextDeltaMissesNothing
<1>1. Init_Loading => LoadingInv
  <2> SUFFICES ASSUME Init_Loading PROVE LoadingInv
    OBVIOUS
  <2>1. /\ today = 1 /\ changes = 0 /\ since = 0 /\ slow = FALSE
        /\ checkpoint = NoCheckpoint /\ load = NotLoading
        /\ table = [v \in HpdRows |-> Unpublished]
        /\ dataset \in [HpdRows -> {Unpublished, [date |-> 1, rev |-> 0]}]
    BY DEF Init_Loading
  <2>2. /\ Unpublished \in RowRecords /\ Unpublished.date = 0 /\ NoKey \in KeyRecords
        /\ [date |-> 1, rev |-> 0] \in RowRecords
    BY DEF Unpublished, RowRecords, NoKey, KeyRecords
  <2>3. /\ checkpoint \in CheckpointRecords /\ checkpoint.mode = "none"
        /\ checkpoint.watermark = 0
        /\ load \in LoadRecords /\ load.at = "idle"
    BY <2>1, <2>2 DEF NoCheckpoint, CheckpointRecords, NotLoading, LoadRecords
  <2>4. /\ dataset \in [HpdRows -> RowRecords] /\ table \in [HpdRows -> RowRecords]
        /\ \A v \in HpdRows : /\ table[v] = Unpublished
                              /\ dataset[v] = Unpublished \/ dataset[v].date = 1
    BY <2>1, <2>2
  <2>5. LoadingTypes
    BY <2>1, <2>3, <2>4 DEF LoadingTypes
  <2>6. DatesArePast
    BY <2>1, <2>2, <2>3, <2>4 DEF DatesArePast
  <2>7. OldIsStored
    BY <2>3, <2>5, EarlierIsNoLater DEF OldIsStored, LoadingTypes, RowRecords
  <2> QED BY <2>3, <2>5, <2>6, <2>7 DEF LoadingInv, LoadFollowsCheckpoint, PassedIsFresh
<1>2. LoadingInv /\ [Next_Loading]_loadingVars => LoadingInv'
  <2> SUFFICES ASSUME LoadingInv, [Next_Loading]_loadingVars PROVE LoadingInv'
    OBVIOUS
  <2>0. /\ LoadingTypes /\ DatesArePast /\ LoadFollowsCheckpoint /\ OldIsStored
        /\ PassedIsFresh
    BY DEF LoadingInv
  <2>t. /\ today \in Nat /\ changes \in Nat /\ since \in Nat /\ slow \in BOOLEAN
        /\ dataset \in [HpdRows -> RowRecords] /\ table \in [HpdRows -> RowRecords]
        /\ checkpoint \in CheckpointRecords /\ load \in LoadRecords
        /\ checkpoint.watermark \in Nat /\ checkpoint.key \in KeyRecords
        /\ checkpoint.key.date \in Nat /\ checkpoint.key.id \in Nat
        /\ Earlier(checkpoint.watermark) \in Nat
        /\ Earlier(checkpoint.watermark) <= checkpoint.watermark
    BY <2>0, EarlierIsNoLater DEF LoadingTypes, CheckpointRecords, KeyRecords
  <2>d. \A v \in HpdRows : /\ v \in Nat /\ v > 0
                           /\ dataset[v] \in RowRecords /\ dataset[v].date \in Nat
                           /\ table[v] \in RowRecords /\ table[v].date \in Nat
    BY <2>t, LoadingAssumption DEF RowRecords
  <2>n. NotLoading \in LoadRecords /\ NotLoading.at = "idle"
    BY DEF NotLoading, LoadRecords, RowRecords, Unpublished
  <2>1. ASSUME NEW v \in HpdRows, PublishChange(v) PROVE LoadingInv'
    <3> DEFINE new == [date |-> today, rev |-> changes + 1]
    <3>1. /\ dataset' = [dataset EXCEPT ![v] = new] /\ changes' = changes + 1
          /\ UNCHANGED <<today, table, checkpoint, load, since, slow>>
      BY <2>1 DEF PublishChange
    <3>2. new \in RowRecords /\ new.date = today
      BY <2>t DEF RowRecords
    <3> HIDE DEF new
    <3>3. /\ dataset' \in [HpdRows -> RowRecords] /\ dataset'[v] = new
          /\ \A w \in HpdRows : w # v => dataset'[w] = dataset[w]
      BY <2>t, <3>1, <3>2
    <3>4. LoadingTypes'
      BY <2>t, <3>1, <3>3 DEF LoadingTypes
    <3>5. DatesArePast'
      BY <2>0, <2>t, <3>1, <3>2, <3>3 DEF DatesArePast
    <3>6. LoadFollowsCheckpoint'
      BY <2>0, <2>t, <3>1, <3>2, <3>3 DEF LoadFollowsCheckpoint, DatesArePast, Earlier
    <3>7. \A w \in HpdRows : dataset'[w] = dataset[w]
           \/ (dataset'[w].date >= since /\ dataset'[w].date >= checkpoint.watermark)
      BY <2>0, <2>t, <3>2, <3>3 DEF DatesArePast
    <3> QED BY <3>1, <3>4, <3>5, <3>6, <3>7, LoadingStays
  <2>2. CASE NextDay
    <3>1. today' = today + 1 /\ UNCHANGED <<dataset, changes, table, checkpoint, load, since, slow>>
      BY <2>2 DEF NextDay
    <3>2. LoadingTypes'
      BY <2>t, <3>1 DEF LoadingTypes
    <3>3. DatesArePast'
      BY <2>0, <2>t, <2>d, <3>1 DEF DatesArePast
    <3>4. LoadFollowsCheckpoint'
      <4>1. load.read.date \in Nat
        BY <2>t DEF LoadRecords, RowRecords
      <4> QED BY <2>0, <2>t, <3>1, <4>1 DEF LoadFollowsCheckpoint, Earlier
    <3> QED BY <3>1, <3>2, <3>3, <3>4, LoadingStays
  <2>3. ASSUME NEW requested \in {"auto", "full", "delta"}, BeginLoad(requested)
        PROVE  LoadingInv'
    <3> DEFINE mode == RunMode(requested)
               from == Earlier(checkpoint.watermark)
    <3>1. /\ checkpoint' = StartingPoint(mode)
          /\ load' = [NotLoading EXCEPT !.at = "fetching", !.mode = mode, !.from = from]
          /\ since' = IF Resuming(mode) THEN since ELSE today
          /\ UNCHANGED <<today, dataset, changes, table, slow>>
      BY <2>3 DEF BeginLoad
    <3>2. mode \in {"full", "delta"} /\ from \in Nat
      BY <2>t DEF RunMode
    <3> HIDE DEF mode, from
    <3>3. load' \in LoadRecords /\ load'.at = "fetching" /\ load'.mode = mode /\ load'.from = from
      BY <2>n, <3>1, <3>2 DEF LoadRecords, NotLoading
    <3>4. CASE Resuming(mode)
      <4>1. UNCHANGED <<checkpoint, since>> /\ checkpoint.complete = FALSE
            /\ checkpoint.mode = mode
        BY <2>t, <3>1, <3>4 DEF StartingPoint, Resuming, CheckpointRecords
      <4>2. LoadingTypes' /\ DatesArePast'
        BY <2>0, <2>t, <3>1, <3>3, <4>1 DEF LoadingTypes, DatesArePast
      <4>3. LoadFollowsCheckpoint'
        BY <3>2, <3>3, <4>1 DEF LoadFollowsCheckpoint, Earlier, from
      <4> QED BY <3>1, <3>3, <4>1, <4>2, <4>3, LoadingStays
    <3>5. CASE ~Resuming(mode)
      <4>1. /\ checkpoint' = [checkpoint EXCEPT !.mode = mode, !.key = NoKey,
                                                !.complete = FALSE]
            /\ since' = today
        BY <3>1, <3>5 DEF StartingPoint
      <4>2. /\ checkpoint' \in CheckpointRecords /\ checkpoint'.mode = mode
            /\ checkpoint'.key = NoKey /\ checkpoint'.complete = FALSE
            /\ checkpoint'.watermark = checkpoint.watermark
            /\ NoKey.id = 0
        BY <2>t, <3>2, <4>1 DEF CheckpointRecords, KeyRecords, NoKey
      <4>3. LoadingTypes' /\ DatesArePast'
        BY <2>0, <2>t, <3>1, <3>3, <4>1, <4>2 DEF LoadingTypes, DatesArePast
      <4>4. LoadFollowsCheckpoint'
        BY <3>2, <3>3, <4>2 DEF LoadFollowsCheckpoint, Earlier, from
      <4>5. OldIsStored'
        BY <2>0, <3>1, <4>2 DEF OldIsStored, Earlier
      <4>6. PassedIsFresh'
        BY <2>d, <3>1, <3>2, <3>3, <4>2 DEF PassedIsFresh, UpTo
      <4> QED BY <4>3, <4>4, <4>5, <4>6 DEF LoadingInv
    <3> QED BY <3>4, <3>5
  <2>4. CASE FetchPage
    <3>1. PICK v \in Asked : /\ \A w \in Asked : OrderedBefore(v, w)
                             /\ load' = [load EXCEPT !.at = "fetched", !.row = v,
                                                     !.read = dataset[v]]
      BY <2>4 DEF FetchPage
    <3>2. load.at = "fetching" /\ UNCHANGED <<today, dataset, changes, table, checkpoint, since, slow>>
      BY <2>4 DEF FetchPage
    <3>3. v \in HpdRows /\ dataset[v] # Unpublished
      BY <3>1 DEF Asked
    <3>4. dataset[v].date # 0 /\ dataset[v].date <= today
      BY <2>0, <3>3 DEF DatesArePast
    <3>5. /\ load' \in LoadRecords /\ load'.at = "fetched" /\ load'.row = v
          /\ load'.read = dataset[v] /\ load'.mode = load.mode /\ load'.from = load.from
      BY <2>t, <2>d, <3>1, <3>3 DEF LoadRecords
    <3>6. LoadingTypes' /\ DatesArePast'
      BY <2>0, <2>t, <3>2, <3>5 DEF LoadingTypes, DatesArePast
    <3>7. LoadFollowsCheckpoint'
      BY <2>0, <3>2, <3>3, <3>4, <3>5 DEF LoadFollowsCheckpoint, Earlier
    <3>8. OldIsStored'
      BY <2>0, <3>2 DEF OldIsStored, Earlier
    <3>9. ASSUME ~slow, NEW w \in HpdRows, w # v, UpTo(w, load.mode, dataset[v].date, v)
          PROVE  Fresh(w)
      <4>1. /\ checkpoint.complete = FALSE /\ load.mode = checkpoint.mode
            /\ load.mode \in {"full", "delta"} /\ load.from = Earlier(checkpoint.watermark)
        BY <2>0, <3>2 DEF LoadFollowsCheckpoint
      <4>2. w \in Nat /\ v \in Nat /\ dataset[w].date \in Nat /\ dataset[v].date \in Nat
        BY <2>d, <3>3
      <4>3. CASE w \in Asked
        <5>1. OrderedBefore(v, w)
          BY <3>1, <4>3
        <5> QED BY <3>9, <4>1, <4>2, <5>1 DEF OrderedBefore, UpTo
      <4>4. CASE dataset[w] = Unpublished
        <5>1. dataset[w].date = 0
          BY <4>4 DEF Unpublished
        <5> QED BY <2>0, <4>4, <5>1 DEF DatesArePast, Fresh
      <4>5. CASE w \notin Asked /\ dataset[w] # Unpublished
        <5>1. CASE load.mode = "full"
          <6>1. w <= checkpoint.key.id
            BY <2>t, <4>2, <4>5, <5>1 DEF Asked
          <6> QED BY <2>0, <3>9, <4>1, <5>1, <6>1 DEF PassedIsFresh, UpTo
        <5>2. CASE load.mode = "delta" /\ checkpoint.key = NoKey
          <6>1. dataset[w].date < Earlier(checkpoint.watermark)
            BY <2>t, <4>1, <4>2, <4>5, <5>2 DEF Asked
          <6> QED BY <2>0, <3>9, <6>1 DEF OldIsStored, Fresh
        <5>3. CASE load.mode = "delta" /\ checkpoint.key # NoKey
          <6>1. UpTo(w, checkpoint.mode, checkpoint.key.date, checkpoint.key.id)
            BY <2>t, <4>1, <4>2, <4>5, <5>3 DEF Asked, UpTo
          <6> QED BY <2>0, <3>9, <4>1, <5>3, <6>1 DEF PassedIsFresh
        <5> QED BY <4>1, <5>1, <5>2, <5>3
      <4> QED BY <4>3, <4>4, <4>5
    <3>10. PassedIsFresh'
      <4>1. ~slow' => ~slow
        BY <3>2
      <4> QED BY <2>0, <3>2, <3>5, <3>9, <4>1 DEF PassedIsFresh, UpTo, Fresh
    <3> QED BY <3>6, <3>7, <3>8, <3>10 DEF LoadingInv
  <2>5. CASE UpsertPage
    <3>1. /\ load.at = "fetched" /\ table' = [table EXCEPT ![load.row] = load.read]
          /\ load' = [load EXCEPT !.at = "upserted"]
          /\ UNCHANGED <<today, dataset, changes, checkpoint, since, slow>>
      BY <2>5 DEF UpsertPage
    <3>2. /\ load.row \in HpdRows /\ load.read \in RowRecords /\ load.read.date \in Nat
          /\ load.read.date <= today /\ dataset[load.row].date # 0
          /\ load.read = dataset[load.row]
               \/ (dataset[load.row].date >= since
                   /\ dataset[load.row].date >= checkpoint.watermark)
      BY <2>0, <2>t, <3>1 DEF LoadFollowsCheckpoint, LoadRecords, RowRecords
    <3>3. /\ table' \in [HpdRows -> RowRecords] /\ table'[load.row] = load.read
          /\ \A w \in HpdRows : w # load.row => table'[w] = table[w]
      BY <2>t, <3>1, <3>2
    <3>4. /\ load' \in LoadRecords /\ load'.at = "upserted" /\ load'.row = load.row
          /\ load'.read = load.read /\ load'.mode = load.mode /\ load'.from = load.from
      BY <2>t, <3>1 DEF LoadRecords
    <3>5. LoadingTypes'
      BY <2>t, <3>1, <3>3, <3>4 DEF LoadingTypes
    <3>6. DatesArePast'
      BY <2>0, <3>1, <3>2, <3>3 DEF DatesArePast
    <3>7. LoadFollowsCheckpoint'
      BY <2>0, <3>1, <3>2, <3>3, <3>4 DEF LoadFollowsCheckpoint, Earlier
    <3>8. OldIsStored'
      <4> SUFFICES ASSUME ~slow, NEW w \in HpdRows,
                          dataset[w].date < Earlier(checkpoint.watermark)
                   PROVE  table'[w] = dataset[w]
        BY <3>1 DEF OldIsStored, Earlier
      <4>1. CASE w = load.row
        BY <2>t, <2>d, <3>2, <3>3, <4>1
      <4>2. CASE w # load.row
        BY <2>0, <3>3, <4>2 DEF OldIsStored
      <4> QED BY <4>1, <4>2
    <3>9. \A w \in HpdRows : Fresh(w) => Fresh(w)'
      BY <3>1, <3>2, <3>3 DEF Fresh
    <3>10. PassedIsFresh'
      BY <2>0, <3>1, <3>4, <3>9 DEF PassedIsFresh, UpTo
    <3> QED BY <3>5, <3>6, <3>7, <3>8, <3>10 DEF LoadingInv
  <2>6. CASE CommitKey
    <3> DEFINE date == IF load.mode = "full" THEN 0 ELSE load.read.date
               key == [date |-> date, id |-> load.row]
               idle == [load EXCEPT !.at = "fetching", !.row = 0, !.read = Unpublished]
    <3>1. /\ load.at = "upserted" /\ checkpoint' = [checkpoint EXCEPT !.key = key]
          /\ load' = idle
          /\ UNCHANGED <<today, dataset, changes, table, since, slow>>
      BY <2>6 DEF CommitKey
    <3>2. /\ load.row \in HpdRows /\ load.read.date \in Nat /\ load.row \in Nat
          /\ table[load.row] = load.read
          /\ load.read = dataset[load.row] \/ dataset[load.row].date >= since
          /\ checkpoint.complete = FALSE /\ load.mode = checkpoint.mode
          /\ load.mode \in {"full", "delta"} /\ load.from = Earlier(checkpoint.watermark)
      BY <2>0, <2>t, <3>1 DEF LoadFollowsCheckpoint, LoadRecords, RowRecords
    <3>3. key \in KeyRecords /\ key.date = date /\ key.id = load.row
      BY <3>2 DEF KeyRecords
    <3>4. /\ idle \in LoadRecords /\ idle.at = "fetching" /\ idle.mode = load.mode
          /\ idle.from = load.from
      <4>1. Unpublished \in RowRecords
        BY DEF Unpublished, RowRecords
      <4> QED BY <2>t, <4>1 DEF LoadRecords
    <3> HIDE DEF key, idle
    <3>5. /\ checkpoint' \in CheckpointRecords /\ checkpoint'.key = key
          /\ checkpoint'.mode = checkpoint.mode /\ checkpoint'.complete = checkpoint.complete
          /\ checkpoint'.watermark = checkpoint.watermark
      BY <2>t, <3>1, <3>3 DEF CheckpointRecords
    <3>6. LoadingTypes' /\ DatesArePast'
      BY <2>0, <2>t, <3>1, <3>4, <3>5 DEF LoadingTypes, DatesArePast
    <3>7. LoadFollowsCheckpoint'
      BY <3>1, <3>2, <3>4, <3>5 DEF LoadFollowsCheckpoint, Earlier
    <3>8. OldIsStored'
      BY <2>0, <3>1, <3>5 DEF OldIsStored, Earlier
    <3>9. ASSUME ~slow, NEW w \in HpdRows, UpTo(w, load.mode, date, load.row)
          PROVE  Fresh(w)
      <4>1. CASE w = load.row
        BY <3>2, <4>1 DEF Fresh
      <4>2. CASE w # load.row
        <5>1. UpTo(w, load.mode, load.read.date, load.row)
          BY <3>9 DEF UpTo
        <5> QED BY <2>0, <3>1, <3>9, <4>2, <5>1 DEF PassedIsFresh
      <4> QED BY <4>1, <4>2
    <3> HIDE DEF date
    <3>10. PassedIsFresh'
      BY <3>1, <3>2, <3>3, <3>4, <3>5, <3>9 DEF PassedIsFresh, UpTo, Fresh
    <3> QED BY <3>6, <3>7, <3>8, <3>10 DEF LoadingInv
  <2>7. CASE FinishLoad
    <3> DEFINE dates == {table[v].date : v \in HpdRows}
               latest == Max(dates)
               mark == IF latest > 0 THEN latest ELSE checkpoint.watermark
    <3>1. /\ load.at = "fetching" /\ Asked = {}
          /\ checkpoint' = [checkpoint EXCEPT !.key = NoKey, !.complete = TRUE,
                                              !.watermark = mark]
          /\ slow' = (slow \/ today - since > OverlapDays)
          /\ since' = 0 /\ load' = NotLoading
          /\ UNCHANGED <<today, dataset, changes, table>>
      BY <2>7 DEF FinishLoad
    <3>2. latest \in dates
      <4>1. dates # {} /\ \A x \in dates : x \in Nat /\ x <= today
        BY <2>0, <2>d, LoadingAssumption DEF DatesArePast
      <4> HIDE DEF dates
      <4> QED BY <2>t, <4>1, GreatestNatural
    <3>3. latest \in Nat /\ latest <= today
      <4> HIDE DEF latest
      <4> QED BY <2>0, <2>d, <3>2 DEF DatesArePast
    <3>4. mark \in Nat /\ mark <= today /\ (mark = checkpoint.watermark \/ mark = latest)
      <4> HIDE DEF latest
      <4> QED BY <2>0, <2>t, <3>3 DEF DatesArePast
    <3> HIDE DEF dates, latest, mark
    <3>5. /\ checkpoint' \in CheckpointRecords /\ checkpoint'.complete = TRUE
          /\ checkpoint'.watermark = mark
      BY <2>t, <3>1, <3>4 DEF CheckpointRecords, KeyRecords, NoKey
    <3>6. LoadingTypes'
      BY <2>t, <2>n, <3>1, <3>5 DEF LoadingTypes
    <3>7. DatesArePast'
      BY <2>0, <2>t, <3>1, <3>4, <3>5 DEF DatesArePast
    <3>8. LoadFollowsCheckpoint' /\ PassedIsFresh'
      BY <2>n, <3>1, <3>5 DEF LoadFollowsCheckpoint, PassedIsFresh
    <3>9. OldIsStored'
      <4> SUFFICES ASSUME ~slow', NEW v \in HpdRows, dataset[v].date < Earlier(mark)
                   PROVE  table[v] = dataset[v]
        BY <3>1, <3>5 DEF OldIsStored, Earlier
      <4>1. ~slow /\ today - since <= OverlapDays
        <5>1. ~(slow \/ today - since > OverlapDays)
          BY <3>1, Zenon
        <5>2. ~slow /\ ~(today - since > OverlapDays)
          BY <5>1, Zenon
        <5> QED BY <2>t, <5>2, LoadingAssumption
      <4>2. Earlier(mark) \in Nat /\ Earlier(mark) <= since
        <5>1. mark - since <= OverlapDays
          BY <2>t, <3>4, <4>1, LoadingAssumption
        <5> QED BY <2>t, <3>4, <5>1, EarlierIsNoLater
      <4>3. dataset[v].date < since
        BY <2>t, <2>d, <4>2
      <4>4. Fresh(v) => table[v] = dataset[v]
        BY <2>t, <2>d, <4>3 DEF Fresh
      <4>5. /\ checkpoint.complete = FALSE /\ load.mode = checkpoint.mode
            /\ load.mode \in {"full", "delta"} /\ load.from = Earlier(checkpoint.watermark)
        BY <2>0, <3>1 DEF LoadFollowsCheckpoint
      <4>6. CASE dataset[v] = Unpublished
        <5>1. dataset[v].date = 0
          BY <4>6 DEF Unpublished
        <5> QED BY <2>0, <4>6, <5>1 DEF DatesArePast
      <4>7. CASE dataset[v] # Unpublished
        <5>0. v \notin Asked /\ v \in Nat /\ dataset[v].date \in Nat
          BY <2>d, <3>1
        <5>1. CASE load.mode = "full"
          <6>1. v <= checkpoint.key.id
            BY <2>t, <4>7, <5>0, <5>1 DEF Asked
          <6>2. Fresh(v)
            BY <2>0, <4>1, <4>5, <5>1, <6>1 DEF PassedIsFresh, UpTo
          <6> QED BY <4>4, <6>2
        <5>2. CASE load.mode = "delta" /\ checkpoint.key = NoKey
          <6>1. dataset[v].date < Earlier(checkpoint.watermark)
            BY <2>t, <4>5, <4>7, <5>0, <5>2 DEF Asked
          <6> QED BY <2>0, <4>1, <6>1 DEF OldIsStored
        <5>3. CASE load.mode = "delta" /\ checkpoint.key # NoKey
          <6>1. UpTo(v, checkpoint.mode, checkpoint.key.date, checkpoint.key.id)
            BY <2>t, <4>5, <4>7, <5>0, <5>3 DEF Asked, UpTo
          <6>2. Fresh(v)
            BY <2>0, <4>1, <4>5, <5>3, <6>1 DEF PassedIsFresh
          <6> QED BY <4>4, <6>2
        <5> QED BY <4>5, <5>1, <5>2, <5>3
      <4> QED BY <4>6, <4>7
    <3> QED BY <3>6, <3>7, <3>8, <3>9 DEF LoadingInv
  <2>8. CASE LoadStops
    <3>1. load' = NotLoading /\ UNCHANGED <<today, dataset, changes, table, checkpoint, since, slow>>
      BY <2>8 DEF LoadStops
    <3>2. LoadingTypes' /\ DatesArePast' /\ LoadFollowsCheckpoint'
      BY <2>0, <2>t, <2>n, <3>1 DEF LoadingTypes, DatesArePast, LoadFollowsCheckpoint
    <3> QED BY <2>n, <3>1, <3>2, LoadingStays
  <2>9. CASE UNCHANGED loadingVars
    <3>1. UNCHANGED <<today, dataset, changes, table, checkpoint, load, since, slow>>
      BY <2>9 DEF loadingVars
    <3>2. LoadingTypes' /\ DatesArePast' /\ LoadFollowsCheckpoint'
      BY <2>0, <3>1 DEF LoadingTypes, DatesArePast, LoadFollowsCheckpoint, Earlier
    <3> QED BY <3>1, <3>2, LoadingStays
  <2> QED BY <2>1, <2>2, <2>3, <2>4, <2>5, <2>6, <2>7, <2>8, <2>9 DEF Next_Loading
<1>3. LoadingInv => NextDeltaMissesNothing
  BY DEF LoadingInv, OldIsStored, NextDeltaMissesNothing
<1> QED BY <1>1, <1>2, <1>3, PTL DEF Spec_Loading
=============================================================================
