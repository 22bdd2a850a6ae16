-------------------------- MODULE SourceDownloads --------------------------
(***************************************************************************)
(* Downloading an official source of the local corpus (corpus/download.py, *)
(* and what CorpusService.check_artifacts and _store_source do with it).   *)
(*                                                                         *)
(* A single file is requested with the validators stored beside the active *)
(* version; "not modified" stands for the local artifact.  A guidance      *)
(* source is a bundle of pages, each fetched in full.  Every request is    *)
(* tried three times, and the publisher may issue another edition between  *)
(* any two of them.  A text is two pieces: the two parts of a file's       *)
(* transfer, or a bundle's two pages.  Editions whose bytes differ and     *)
(* whose parsed text does not share one stored version.                    *)
(*                                                                         *)
(* ETag and Last-Modified are one validator, which names an edition.  A    *)
(* publisher may begin to send it, stop, and begin again.                  *)
(***************************************************************************)
EXTENDS Naturals, Sequences

CONSTANTS Editions, MeaningOf,
          MaxAttempts,           \* DEFAULT_RETRIES + 1
          MaxIssues              \* a bound on the publisher's new editions

VARIABLES sourceKind,   \* "file" or "bundle"
          issued,       \* the edition that the publisher serves
          validates,    \* whether its answers carry a validator
          fellBack,     \* history: an answer had none, and an older one was kept
          issues,
          validatorOf,    \* source_versions: the validator of a stored text
          activeText,   \* the version of the active generation
          transfer      \* the download under way
downloadVars == <<sourceKind, issued, validates, fellBack, issues, validatorOf, activeText, transfer>>

NoTag == "no validator"
NotStored == "not stored"

ASSUME DownloadAssumption ==
  MaxAttempts \in Nat \ {0} /\ {NoTag, NotStored} \cap Editions = {}

NoText == <<>>
NoTransfer == [at |-> "idle", for |-> "check", prior |-> NoText, tag |-> NoTag,
               attempt |-> 1, from |-> "none", body |-> <<>>, pages |-> <<>>,
               text |-> NoText, textTag |-> NoTag, seen |-> {}]
FetchedTexts == Editions \X Editions
Held == {t \in FetchedTexts : validatorOf[t] # NotStored}
Alike(s, t) == \A i \in 1..2 : MeaningOf[s[i]] = MeaningOf[t[i]]

Init_Downloads ==
  /\ sourceKind \in {"file", "bundle"} /\ issued \in Editions /\ validates \in BOOLEAN
  /\ issues = 0 /\ fellBack = FALSE
  /\ validatorOf = [t \in FetchedTexts |-> NotStored] /\ activeText = NoText
  /\ transfer = NoTransfer

Issue(e) ==
  /\ e # issued /\ issues < MaxIssues
  /\ issued' = e /\ issues' = issues + 1
  /\ transfer' = IF transfer = NoTransfer THEN NoTransfer
                 ELSE [transfer EXCEPT !.seen = @ \cup {e}]
  /\ UNCHANGED <<sourceKind, validates, fellBack, validatorOf, activeText>>

ChangesHeaders ==
  /\ validates' = ~validates
  /\ UNCHANGED <<sourceKind, issued, fellBack, issues, validatorOf, activeText, transfer>>
-----------------------------------------------------------------------------
(* download_source_artifacts reads what is active, once. *)
BeginDownload(for) ==
  /\ transfer = NoTransfer
  /\ transfer' = [NoTransfer EXCEPT
       !.at = "request", !.for = for, !.prior = activeText, !.seen = {issued},
       !.tag = IF activeText = NoText THEN NoTag ELSE validatorOf[activeText]]
  /\ UNCHANGED <<sourceKind, issued, validates, fellBack, issues, validatorOf, activeText>>

(* _conditional_headers: only a file is requested with them. *)
Unmodified == sourceKind = "file" /\ transfer.prior # NoText /\ transfer.tag = issued

(* 304: _read_prior_artifact, with the validators it had. *)
NotModified ==
  /\ transfer.at = "request" /\ Unmodified
  /\ transfer' = [transfer EXCEPT !.at = "done", !.text = transfer.prior,
                                  !.textTag = transfer.tag, !.from = "none"]
  /\ UNCHANGED <<sourceKind, issued, validates, fellBack, issues, validatorOf, activeText>>

\* Mutant: the stored validator is preferred to the one of the response.
PriorValidator(sent, prior) == IF prior # NoTag THEN prior ELSE sent

(* _response_validator(...) or prior.etag *)
Validator(sent, prior) == IF sent # NoTag THEN sent ELSE prior

(* 200: the transfer of the edition that is served now, with its header. *)
Responds ==
  /\ transfer.at = "request"
  /\ transfer' = [transfer EXCEPT
       !.at = "stream", !.from = issued, !.body = <<>>,
       !.textTag = IF sourceKind = "bundle" THEN NoTag
                   ELSE Validator(IF validates THEN issued ELSE NoTag, transfer.tag)]
  /\ fellBack' = (fellBack \/ (sourceKind = "file" /\ ~validates /\ transfer.tag # NoTag))
  /\ UNCHANGED <<sourceKind, issued, validates, issues, validatorOf, activeText>>

PieceArrives ==
  /\ transfer.at = "stream"
  /\ Len(transfer.body) < (IF sourceKind = "file" THEN 2 ELSE 1)
  /\ transfer' = [transfer EXCEPT !.body = Append(@, transfer.from)]
  /\ UNCHANGED <<sourceKind, issued, validates, fellBack, issues, validatorOf, activeText>>

(* A refused or broken transfer that _retryable lets _get try again. *)
TryAgain ==
  /\ transfer.at \in {"request", "stream"} /\ transfer.attempt < MaxAttempts
  /\ transfer' = [transfer EXCEPT !.at = "request", !.attempt = @ + 1]
  /\ UNCHANGED <<sourceKind, issued, validates, fellBack, issues, validatorOf, activeText>>

FileArrived ==
  /\ sourceKind = "file" /\ transfer.at = "stream" /\ Len(transfer.body) = 2
  /\ transfer' = [transfer EXCEPT !.at = "done", !.text = transfer.body]
  /\ UNCHANGED <<sourceKind, issued, validates, fellBack, issues, validatorOf, activeText>>

(* _download_guidance and _download_curated_guidance: the next page, or    *)
(* the bundle, which has no validator.                                     *)
PageArrived ==
  /\ sourceKind = "bundle" /\ transfer.at = "stream" /\ Len(transfer.body) = 1
  /\ LET pages == transfer.pages \o transfer.body
     IN  transfer' = IF Len(pages) < 2
                     THEN [transfer EXCEPT !.at = "request", !.attempt = 1, !.pages = pages]
                     ELSE [transfer EXCEPT !.at = "done", !.pages = pages, !.text = pages]
  /\ UNCHANGED <<sourceKind, issued, validates, fellBack, issues, validatorOf, activeText>>

(* The last attempt fails, the answer is final or too large, a page is not *)
(* the publisher's or not HTML, the local artifact is gone, the text does  *)
(* not parse, or the job is cancelled.                                     *)
GiveUp ==
  /\ transfer # NoTransfer
  /\ transfer' = NoTransfer
  /\ UNCHANGED <<sourceKind, issued, validates, fellBack, issues, validatorOf, activeText>>
-----------------------------------------------------------------------------
(* check_artifacts compares, and records only the date of the check. *)
CheckSource ==
  /\ transfer.at = "done" /\ transfer.for = "check"
  /\ transfer' = NoTransfer
  /\ UNCHANGED <<sourceKind, issued, validates, fellBack, issues, validatorOf, activeText>>

(* _store_source: the version of these bytes, else one of the same meaning, *)
(* takes the new validator and keeps its own artifact; else a new version.  *)
VersionFor(t) == IF t \in Held \/ ~\E s \in Held : Alike(s, t) THEN t
                 ELSE CHOOSE s \in Held : Alike(s, t)
InstallSource ==
  /\ transfer.at = "done" /\ transfer.for = "install"
  /\ LET t == VersionFor(transfer.text)
     IN  /\ validatorOf' = [validatorOf EXCEPT ![t] = transfer.textTag]
         /\ activeText' = t
  /\ transfer' = NoTransfer
  /\ UNCHANGED <<sourceKind, issued, validates, fellBack, issues>>

(* A rollback, or another generation activated. *)
ReturnTo(t) ==
  /\ transfer = NoTransfer /\ t \in Held /\ t # activeText
  /\ activeText' = t
  /\ UNCHANGED <<sourceKind, issued, validates, fellBack, issues, validatorOf, transfer>>

Next_Downloads ==
  \/ \E e \in Editions : Issue(e)
  \/ ChangesHeaders
  \/ \E for \in {"check", "install"} : BeginDownload(for)
  \/ NotModified \/ Responds \/ PieceArrives \/ TryAgain
  \/ FileArrived \/ PageArrived \/ GiveUp
  \/ CheckSource \/ InstallSource
  \/ \E t \in FetchedTexts : ReturnTo(t)

Spec_Downloads == Init_Downloads /\ [][Next_Downloads]_downloadVars
-----------------------------------------------------------------------------
(* What a download hands on means what the publisher served while it ran:  *)
(* one edition of a file, whatever was retried, rolled back or stored      *)
(* under another edition's bytes before, and pages of a bundle each served *)
(* then.  For a text that a 304 confirmed this is claimed until an answer  *)
(* without a validator has kept an older one (`or prior.etag`,             *)
(* download.py:101-104): from then on the publisher may confirm a text     *)
(* that is not its own (download.py:68-107, 191-237, service.py:866-907).  *)
FetchedAsPublished ==
  transfer.at = "done" /\ (transfer.from = "none" => ~fellBack) =>
    /\ \A i \in 1..2 : \E e \in transfer.seen : MeaningOf[transfer.text[i]] = MeaningOf[e]
    /\ sourceKind = "file" => \E e \in transfer.seen : Alike(transfer.text, <<e, e>>)
=============================================================================
