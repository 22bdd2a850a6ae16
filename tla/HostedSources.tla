---------------------------- MODULE HostedSources ----------------------------
(***************************************************************************)
(* The versions of a source of the hosted corpus (ingestion/downloaders.py,*)
(* ingestion/artifacts.py, ingestion/legal_text.py,                        *)
(* ingestion/hpd_guidance.py, cli/ingest.py, retrieval/common.py).         *)
(*                                                                         *)
(* A download of a text that is not known yet writes its artifact and then *)
(* commits a version that supersedes the others; a text that is known is   *)
(* left as it is.  A local artifact is written in place, under the hash of *)
(* the whole text, and a file that is there is not written again: a        *)
(* download that is killed as it writes leaves a part of the text, which   *)
(* the next one takes for the artifact.  Parsing reads the artifact of the *)
(* version retrieved last.  Artifacts of superseded versions are purged    *)
(* once they are old, by another command, and any command may be killed    *)
(* between two steps.  Search only sees the chunks of the current version. *)
(***************************************************************************)
EXTENDS Naturals, Sequences, SequencesExt

CONSTANTS SourceTexts, MaxRepublications

VARIABLES website,       \* the text the publisher serves
          republished,   \* how often it was changed
          versions,      \* source_versions, in the order of retrieved_at
          artifactFiles, \* the texts with an artifact
          torn,          \* those whose artifact holds a part of the text
          cut,           \* history: the texts whose writing was killed
          parsedTexts,   \* the texts whose chunks are stored
          command,       \* the ingestion command that is running
          sweep          \* the purge command
artifactVars == <<artifactFiles, torn, cut>>
sourceVars == <<website, republished, versions, artifactVars, parsedTexts, command, sweep>>

NoCommand == [at |-> "idle", text |-> "none", then |-> "end"]
NoSweep == [at |-> "idle", due |-> {}]
VersionsOf(text) == {i \in DOMAIN versions : versions[i].text = text}
Superseded(version) ==
  IF version.current THEN [version EXCEPT !.current = FALSE, !.age = "kept"] ELSE version

Init_Sources ==
  /\ website \in SourceTexts /\ republished = 0
  /\ versions = <<>> /\ artifactFiles = {} /\ torn = {} /\ cut = {} /\ parsedTexts = {}
  /\ command = NoCommand /\ sweep = NoSweep

(* The publisher changes the text, perhaps back to an earlier one. *)
Republish(text) ==
  /\ text # website /\ republished < MaxRepublications
  /\ website' = text /\ republished' = republished + 1
  /\ UNCHANGED <<versions, artifactVars, parsedTexts, command, sweep>>

(* artifact_retained_until of a superseded version passes. *)
ArtifactAges(i) ==
  /\ versions[i].age = "kept"
  /\ versions' = [versions EXCEPT ![i].age = "expired"]
  /\ UNCHANGED <<website, republished, artifactVars, parsedTexts, command, sweep>>
-----------------------------------------------------------------------------
(* download_source_command, alone or followed by the parse. *)
Download(then) ==
  /\ command = NoCommand
  /\ command' = [at |-> "downloaded", text |-> website, then |-> then]
  /\ UNCHANGED <<website, republished, versions, artifactVars, parsedTexts, sweep>>

(* ingest_artifact_command: a file the operator saved, of any text.  What  *)
(* it has read itself is parsed.                                           *)
ReadSavedFile(text) ==
  /\ command = NoCommand
  /\ command' = [at |-> "downloaded", text |-> text, then |-> "parse this"]
  /\ UNCHANGED <<website, republished, versions, artifactVars, parsedTexts, sweep>>

(* parse_source_command; ingest_missing_command when it finds chunks that  *)
(* are dirty or have no citation.                                          *)
Reparse ==
  /\ command = NoCommand /\ versions # <<>>
  /\ command' = [NoCommand EXCEPT !.at = "parse", !.then = "parse"]
  /\ UNCHANGED <<website, republished, versions, artifactVars, parsedTexts, sweep>>

(* ingest_missing_command when the source has no chunk at all. *)
IngestMissing == parsedTexts = {} /\ Download("parse")

(* create_or_get_source_version: a known text keeps its version ... *)
AfterVersion(c) == IF c.then = "end" THEN NoCommand ELSE [c EXCEPT !.at = "parse"]

\* Mutant: a text that is known becomes the current version again.
Revive ==
  /\ command.at = "downloaded" /\ VersionsOf(command.text) # {}
  /\ versions' = [i \in DOMAIN versions |->
       IF i \in VersionsOf(command.text) THEN [versions[i] EXCEPT !.current = TRUE]
       ELSE Superseded(versions[i])]
  /\ command' = AfterVersion(command)
  /\ UNCHANGED <<website, republished, artifactVars, parsedTexts, sweep>>
GetVersion ==
  /\ command.at = "downloaded" /\ VersionsOf(command.text) # {}
  /\ command' = AfterVersion(command)
  /\ UNCHANGED <<website, republished, versions, artifactVars, parsedTexts, sweep>>

(* ... write_artifact for a new one: a file that is there, whole or not,   *)
(* is taken for it; else it is created and filled ...                      *)
WriteArtifact ==
  /\ command.at = "downloaded" /\ VersionsOf(command.text) = {}
  /\ artifactFiles' = artifactFiles \cup {command.text}
  /\ IF command.text \in artifactFiles
     THEN command' = [command EXCEPT !.at = "written"] /\ UNCHANGED torn
     ELSE command' = [command EXCEPT !.at = "writing"] /\ torn' = torn \cup {command.text}
  /\ UNCHANGED <<website, republished, versions, cut, parsedTexts, sweep>>

FinishArtifact ==
  /\ command.at = "writing"
  /\ torn' = torn \ {command.text}
  /\ command' = [command EXCEPT !.at = "written"]
  /\ UNCHANGED <<website, republished, versions, artifactFiles, cut, parsedTexts, sweep>>

(* ... and the commit, with which it supersedes the current one. *)
CreateVersion ==
  /\ command.at = "written"
  /\ versions' = Append([i \in DOMAIN versions |-> Superseded(versions[i])],
                        [text |-> command.text, current |-> TRUE, age |-> "new", purged |-> FALSE])
  /\ command' = AfterVersion(command)
  /\ UNCHANGED <<website, republished, artifactVars, parsedTexts, sweep>>

(* current_source_version *)
ToParse == IF command.then = "parse this" THEN command.text ELSE Last(versions).text

(* read_artifact, and parse_source_artifact with its one commit; an        *)
(* artifact that is gone, or a text that does not split, as a part of one  *)
(* may not, is an error.                                                   *)
ParseSource ==
  /\ command.at = "parse"
  /\ \/ /\ command.then = "parse this" \/ ToParse \in artifactFiles
        /\ parsedTexts' = parsedTexts \cup {ToParse}
     \/ UNCHANGED parsedTexts
  /\ command' = NoCommand
  /\ UNCHANGED <<website, republished, versions, artifactVars, sweep>>

(* The command fails or is killed; what it had written of a file stays. *)
CommandDies ==
  /\ command # NoCommand
  /\ cut' = IF command.at = "writing" THEN cut \cup {command.text} ELSE cut
  /\ command' = NoCommand
  /\ UNCHANGED <<website, republished, versions, artifactFiles, torn, parsedTexts, sweep>>
-----------------------------------------------------------------------------
(* purge_expired_artifacts_command: the rows are chosen, the files go, and *)
(* one commit marks them all.                                              *)
Purgeable == {i \in DOMAIN versions : /\ ~versions[i].current /\ ~versions[i].purged
                                      /\ versions[i].age = "expired"}
PurgeBegins ==
  /\ sweep = NoSweep /\ Purgeable # {}
  /\ sweep' = [at |-> "deleting", due |-> Purgeable]
  /\ UNCHANGED <<website, republished, versions, artifactVars, parsedTexts, command>>

PurgeFile(i) ==
  /\ i \in sweep.due /\ versions[i].text \in artifactFiles
  /\ artifactFiles' = artifactFiles \ {versions[i].text}
  /\ torn' = torn \ {versions[i].text}
  /\ UNCHANGED <<website, republished, versions, cut, parsedTexts, command, sweep>>

PurgeCommits ==
  /\ sweep.at = "deleting" /\ \A i \in sweep.due : versions[i].text \notin artifactFiles
  /\ versions' = [i \in DOMAIN versions |->
       IF i \in sweep.due THEN [versions[i] EXCEPT !.purged = TRUE] ELSE versions[i]]
  /\ sweep' = NoSweep
  /\ UNCHANGED <<website, republished, artifactVars, parsedTexts, command>>

PurgeDies ==
  /\ sweep # NoSweep
  /\ sweep' = NoSweep
  /\ UNCHANGED <<website, republished, versions, artifactVars, parsedTexts, command>>

Next_Sources ==
  \/ \E text \in SourceTexts : Republish(text) \/ ReadSavedFile(text)
  \/ \E i \in DOMAIN versions : ArtifactAges(i) \/ PurgeFile(i)
  \/ \E then \in {"end", "parse"} : Download(then)
  \/ IngestMissing \/ Reparse
  \/ GetVersion \/ WriteArtifact \/ FinishArtifact \/ CreateVersion
  \/ ParseSource \/ CommandDies
  \/ PurgeBegins \/ PurgeCommits \/ PurgeDies

Spec_Sources == Init_Sources /\ [][Next_Sources]_sourceVars
-----------------------------------------------------------------------------
(* The one current version, whose chunks are searched, is the one that     *)
(* parsing takes, and its artifact is kept, whatever text comes back and   *)
(* wherever a download or a purge was killed.  The artifact is the whole   *)
(* text unless a download was killed while it wrote that very file: the    *)
(* code does not notice a part of a text (artifacts.py:51-52), so no more  *)
(* can be claimed.  A text the publisher returns to keeps its superseded   *)
(* version, so the current one need not be what the website serves         *)
(* (downloaders.py:93-137, cli/ingest.py:121-129, 492-510).                *)
CurrentTextIsTraceable ==
  \A i \in DOMAIN versions :
    /\ versions[i].current <=> i = Len(versions)
    /\ versions[i].current =>
         /\ versions[i].text \in artifactFiles
         /\ versions[i].text \in torn => versions[i].text \in cut
=============================================================================
