-------------------------- MODULE WorkspaceRestore --------------------------
(***************************************************************************)
(* Restoring a backup (maintenance/backup.py, restore_backup).             *)
(*                                                                         *)
(* A backup of two databases, settings and artifacts is unpacked into a    *)
(* stage beside its destination, verified as it is copied, given a         *)
(* workspace identity of its own, checked for its schema versions, flushed *)
(* file by file and renamed.  The archive may be damaged, the process may  *)
(* die and the power may go at any moment.                                 *)
(***************************************************************************)
EXTENDS Naturals, FiniteSets

CONSTANTS ArtifactMembers,   \* archived artifact files
          MaxRestores        \* a bound on the attempts

Members == {"corpus", "state", "settings"} \cup ArtifactMembers

VARIABLES stage,      \* the staged files, and which of them are flushed
          dest,       \* the destination: whether it exists and what it holds
          damaged,    \* members that the archive no longer holds as declared
          restores
restoreVars == <<stage, dest, damaged, restores>>

NoStage == [pc |-> "idle", files |-> {}, flushed |-> {}, owner |-> "archive"]
NoDest == [exists |-> FALSE, files |-> {}, flushed |-> {}, owner |-> "archive"]

Init_Restore == /\ stage = NoStage /\ dest = NoDest /\ restores = 0
                /\ damaged \in {{}} \cup {{m} : m \in Members}

(* A destination that exists is refused. *)
BeginRestore ==
  /\ stage.pc = "idle" /\ ~dest.exists
  /\ restores < MaxRestores /\ restores' = restores + 1
  /\ stage' = [NoStage EXCEPT !.pc = "copy"]
  /\ UNCHANGED <<dest, damaged>>

(* _read_backup: a member is copied while it is hashed; one that does not   *)
(* match its declaration ends the restore and removes the stage.            *)
CopyMember(m) ==
  /\ stage.pc = "copy" /\ m \notin stage.files
  /\ stage' = IF m \in damaged THEN NoStage ELSE [stage EXCEPT !.files = @ \cup {m}]
  /\ UNCHANGED <<dest, damaged, restores>>

(* The restored workspace is not the one that was backed up: its settings   *)
(* get the identity of the destination.  Schema versions no release can     *)
(* open remove the stage.                                                   *)
PrepareStage ==
  /\ stage.pc = "copy" /\ stage.files = Members
  /\ \/ stage' = [stage EXCEPT !.pc = "flush", !.owner = "destination"]
     \/ stage' = NoStage
  /\ UNCHANGED <<dest, damaged, restores>>

(* Every file, then its directory, is flushed. *)
FlushFile(m) ==
  /\ stage.pc = "flush" /\ m \in stage.files \ stage.flushed
  /\ stage' = [stage EXCEPT !.flushed = @ \cup {m}]
  /\ UNCHANGED <<dest, damaged, restores>>

\* Mutant: the stage is renamed before it is flushed.
RenameUnflushed ==
  /\ stage.pc = "flush"
  /\ dest' = [exists |-> TRUE, files |-> stage.files, flushed |-> stage.flushed,
              owner |-> stage.owner]
  /\ stage' = NoStage
  /\ UNCHANGED <<damaged, restores>>

(* os.replace of the directory. *)
RenameStage ==
  /\ stage.pc = "flush" /\ stage.flushed = stage.files
  /\ dest' = [exists |-> TRUE, files |-> stage.files, flushed |-> stage.flushed,
              owner |-> stage.owner]
  /\ stage' = NoStage
  /\ UNCHANGED <<damaged, restores>>

(* The process dies or the power goes: the stage is never looked at again,  *)
(* and any part of what the destination had not flushed is lost.            *)
LosePower ==
  /\ stage # NoStage \/ dest.exists
  /\ \E lost \in SUBSET (dest.files \ dest.flushed) :
       dest' = [dest EXCEPT !.files = @ \ lost]
  /\ stage' = NoStage
  /\ UNCHANGED <<damaged, restores>>

Next_Restore == \/ BeginRestore \/ (\E m \in Members : CopyMember(m) \/ FlushFile(m))
                \/ PrepareStage \/ RenameStage \/ LosePower

Spec_Restore == Init_Restore /\ [][Next_Restore]_restoreVars
-----------------------------------------------------------------------------
(* A restored workspace appears whole or not at all: a destination that     *)
(* exists holds every member of the archive, none of them damaged, under    *)
(* its own identity, whenever the process died or the power went            *)
(* (backup.py:162-223).                                                     *)
NoPartialRestore ==
  dest.exists => /\ dest.files = Members
                 /\ damaged = {}
                 /\ dest.owner = "destination"
=============================================================================
