------------------------------ MODULE Launching ------------------------------
(***************************************************************************)
(* Opening and closing the application (launcher.py, desktop.py).          *)
(*                                                                         *)
(* The desktop application has three threads: the main thread owns the     *)
(* window and, when that closes, winds up; the bootstrap thread prepares   *)
(* the workspace, which may mean to recover it, upgrade it or restore a    *)
(* copy of it, and starts the server's thread.  The threads share two      *)
(* events and the server.  Beside the desktop application, "nyc-housing    *)
(* start" opens the same workspace in a terminal.  What keeps them apart   *)
(* is the launch lock of every workspace.                                  *)
(*                                                                         *)
(* Workspace 1 is the one that is asked for.  A recovery copy of workspace *)
(* w is w + 1; desktop launches follow the selections from 1.              *)
(***************************************************************************)
EXTENDS Naturals

CONSTANTS MaxLinks,   \* selections that a launch follows (8 in the code)
          MaxRuns     \* bound: runs of the desktop application

ASSUME LaunchAssumption == MaxLinks \in Nat

VARIABLES owner,      \* holder of every launch lock
          condition,  \* what opening every workspace would find
          last,       \* the workspace where the selections end
          library,    \* the free sources: none, being installed, unfinished, installed
          main,       \* where the main thread is
          boot,       \* where the bootstrap thread is
          workspace,  \* the desktop application's context
          cancelled, started, done,  \* the events of DesktopApplication
          copyTried,  \* _recovery_copy_attempted
          runtime,    \* the server that is there for the main thread to stop
          server,     \* its thread
          terminal,   \* where start_workspace is
          runs
bootVars == <<boot, started, done, workspace, copyTried>>
mainVars == <<main, cancelled, runs>>
launchVars == <<owner, condition, last, library, mainVars, bootVars, runtime, server, terminal>>

Folders == 1..(MaxLinks + 1)

Init_Launching ==
  /\ owner = [w \in Folders |-> "nobody"]
  /\ condition \in [Folders -> {"new", "compatible", "old", "interrupted", "unsupported"}]
  /\ \A w \in Folders : w > 1 => condition[w] = "new"
  /\ last = 1 /\ library = "none"
  /\ main = "idle" /\ boot = "done"
  /\ workspace = 1
  /\ cancelled = FALSE /\ started = FALSE /\ done = FALSE /\ copyTried = FALSE
  /\ runtime = FALSE /\ server = "none"
  /\ terminal = "idle" /\ runs = 0

-----------------------------------------------------------------------------
(* The main thread *)

(* _select_recovered_workspace: the locks of all workspaces on the way, and *)
(* at most so many of them.                                                 *)
SelectRecovered ==
  /\ last - 1 < MaxLinks
  /\ \A w \in 1..last : owner[w] = "nobody"
  /\ owner' = [w \in Folders |-> IF w <= last THEN "desktop" ELSE owner[w]]
  /\ workspace' = last

(* run: the locks or nothing, then the window with the bootstrap thread,    *)
(* which may be late to begin.                                              *)
Launch ==
  /\ main \in {"idle", "exited"} /\ boot = "done" /\ server \in {"none", "ended"}
  /\ runs < MaxRuns /\ runs' = runs + 1
  /\ SelectRecovered
  /\ main' = "window" /\ boot' = "pending"
  /\ cancelled' = FALSE /\ started' = FALSE /\ done' = FALSE /\ copyTried' = FALSE
  /\ runtime' = FALSE /\ server' = "none"
  /\ UNCHANGED <<condition, last, library, terminal>>

Main(from, to) == main = from /\ main' = to /\ UNCHANGED <<runs, condition, last, library, bootVars, terminal>>

(* _on_closed, or an error of the window *)
CloseWindow ==
  /\ Main("window", "stopping")
  /\ cancelled' = TRUE
  /\ UNCHANGED <<owner, runtime, server>>

(* _stop_runtime: a server that was published is told to exit and, if its   *)
(* thread runs by now, joined.                                              *)
StopRuntime ==
  /\ Main("stopping", IF runtime /\ server \in {"running", "told"} THEN "joining" ELSE "stopped")
  /\ runtime' = FALSE
  /\ server' = CASE runtime /\ server = "running" -> "told"
                 [] runtime /\ server = "open" -> "unheard"
                 [] OTHER -> server
  /\ UNCHANGED <<owner, cancelled>>

(* The server's thread has ended, or has not after fifteen and five seconds. *)
JoinServer ==
  /\ Main("joining", "stopped")
  /\ UNCHANGED <<owner, cancelled, runtime, server>>

LookAtBootstrap ==
  /\ Main("stopped", IF started THEN "waiting" ELSE "closing")
  /\ UNCHANGED <<owner, cancelled, runtime, server>>

\* Mutant: the wait gives up.
WaitBriefly ==
  /\ Main("waiting", "closing")
  /\ UNCHANGED <<owner, cancelled, runtime, server>>

(* bootstrap_done.wait() *)
WaitForBootstrap ==
  /\ done
  /\ Main("waiting", "closing")
  /\ UNCHANGED <<owner, cancelled, runtime, server>>

Freed == [w \in Folders |-> IF owner[w] = "desktop" THEN "nobody" ELSE owner[w]]

(* _launch_locks.close() *)
CloseLocks ==
  /\ Main("closing", "exited")
  /\ owner' = Freed
  /\ UNCHANGED <<cancelled, runtime, server>>

-----------------------------------------------------------------------------
(* The bootstrap thread *)

Boot(from, to) ==
  /\ boot = from /\ boot' = to
  /\ done' = (to = "done")
  /\ UNCHANGED <<started, mainVars, terminal>>
Leaves == UNCHANGED <<owner, condition, last, library, workspace, copyTried, runtime, server>>

BootstrapBegins ==
  /\ boot = "pending" /\ boot' = "preparing"
  /\ started' = TRUE
  /\ UNCHANGED <<done, mainVars, terminal>> /\ Leaves

Put(w, c) == condition' = [condition EXCEPT ![w] = c]

(* prepare_workspace: a new workspace is made; one of this release's        *)
(* schema is opened; an interrupted upgrade is offered recovery and another *)
(* schema an upgrade.                                                       *)
Prepare ==
  /\ Boot("preparing", CASE condition[workspace] \in {"new", "compatible"} -> "prepared"
                         [] condition[workspace] = "interrupted" -> "askRecovery"
                         [] OTHER -> "askUpgrade")
  /\ IF condition[workspace] = "new" THEN Put(workspace, "compatible")
     ELSE UNCHANGED condition
  /\ UNCHANGED <<owner, last, library, workspace, copyTried, runtime, server>>

(* After a repair, prepare_workspace again: what it raises ends the thread. *)
PrepareAgain ==
  /\ Boot("repaired", IF condition[workspace] = "compatible" THEN "prepared" ELSE "done")
  /\ Leaves

(* The three dialogs.  Each looks at the event before it opens, and after   *)
(* an answer that says yes.                                                 *)
Questions == {"Recovery", "Upgrade", "Copy"}
Asks(q) == CASE q = "Recovery" -> "askRecovery" [] q = "Upgrade" -> "askUpgrade" [] OTHER -> "askCopy"
Confirmed(q) == CASE q = "Recovery" -> "yesRecovery" [] q = "Upgrade" -> "yesUpgrade" [] OTHER -> "yesCopy"
Doing(q) == CASE q = "Recovery" -> "recovering" [] q = "Upgrade" -> "upgrading" [] OTHER -> "restoring"

(* _offer_upgrade raises where no upgrade leads to this release;            *)
(* _offer_recovery_copy makes one attempt.                                  *)
Offered(q) ==
  /\ q = "Upgrade" => condition[workspace] # "unsupported"
  /\ q = "Copy" => ~copyTried /\ workspace < MaxLinks + 1

DialogOpens(q) ==
  /\ Offered(q) /\ ~cancelled
  /\ Boot(Asks(q), Confirmed(q))
  /\ Leaves

DialogRefused(q) == (cancelled \/ ~Offered(q)) /\ Boot(Asks(q), "done") /\ Leaves
Declines(q) == Boot(Confirmed(q), "done") /\ Leaves

Confirms(q) ==
  /\ ~cancelled
  /\ Boot(Confirmed(q), Doing(q))
  /\ copyTried' = (copyTried \/ q = "Copy")
  /\ UNCHANGED <<owner, condition, last, library, workspace, runtime, server>>

(* migrate_workspace_locked: done; undone again; or neither. *)
UpgradeEnds(c) ==
  /\ c \in {"compatible", "old", "interrupted"}
  /\ Boot("upgrading", CASE c = "compatible" -> "repaired" [] c = "old" -> "done" [] OTHER -> "askCopy")
  /\ Put(workspace, c)
  /\ UNCHANGED <<owner, last, library, workspace, copyTried, runtime, server>>

(* recover_workspace_locked: an upgrade that had completed is kept, another *)
(* undone and then offered again; or the recovery fails.                    *)
RecoveryEnds(c) ==
  /\ c \in {"compatible", "old", "interrupted"}
  /\ Boot("recovering", CASE c = "compatible" -> "repaired" [] c = "old" -> "askUpgrade"
                          [] OTHER -> "askCopy")
  /\ Put(workspace, c)
  /\ UNCHANGED <<owner, last, library, workspace, copyTried, runtime, server>>

(* restore_backup into a new folder, which is locked next and becomes the   *)
(* context; the backup is of the workspace before its upgrade.              *)
CopyRestored ==
  /\ Boot("restoring", "locking")
  /\ Put(workspace + 1, "old")
  /\ UNCHANGED <<owner, last, library, workspace, copyTried, runtime, server>>

CopyLocked ==
  /\ Boot("locking", "upgradingCopy")
  /\ owner[workspace + 1] = "nobody"
  /\ owner' = [owner EXCEPT ![workspace + 1] = "desktop"]
  /\ workspace' = workspace + 1
  /\ UNCHANGED <<condition, last, library, copyTried, runtime, server>>

CopyUpgraded(c) ==
  /\ c \in {"compatible", "old", "interrupted"}
  /\ Boot("upgradingCopy", IF c = "compatible" THEN "selecting" ELSE "done")
  /\ Put(workspace, c)
  /\ UNCHANGED <<owner, last, library, workspace, copyTried, runtime, server>>

(* desktop-recovery.json *)
CopySelected ==
  /\ Boot("selecting", "repaired")
  /\ last' = workspace
  /\ UNCHANGED <<owner, condition, library, workspace, copyTried, runtime, server>>

(* LocalApplicationServer.__enter__, unless the window has been closed *)
EnterServer ==
  /\ Boot("prepared", IF cancelled THEN "done" ELSE "entered")
  /\ Leaves

(* The server is published ... *)
PublishRuntime ==
  /\ Boot("entered", "published")
  /\ runtime' = TRUE /\ server' = "open"
  /\ UNCHANGED <<owner, condition, last, library, workspace, copyTried>>

(* ... and taken back if the window has been closed; else it starts. *)
TakeBack ==
  /\ cancelled
  /\ Boot("published", "done")
  /\ runtime' = FALSE /\ server' = "ended"
  /\ UNCHANGED <<owner, condition, last, library, workspace, copyTried>>

PassCheck == ~cancelled /\ Boot("published", "starting") /\ Leaves

(* start_background: a server that is not ready after fifteen seconds is    *)
(* told to exit; one that was told before it had a thread starts all the    *)
(* same, and ends.                                                          *)
StartBackground(ready) ==
  /\ Boot("starting", IF ready THEN "loaded" ELSE "done")
  /\ server' = IF server = "unheard" \/ ~ready THEN "told" ELSE "running"
  /\ UNCHANGED <<owner, condition, last, library, workspace, copyTried, runtime>>

ServerEnds ==
  /\ server = "told" /\ server' = "ended"
  /\ UNCHANGED <<owner, condition, last, library, mainVars, bootVars, runtime, terminal>>

(* prepare_sources: an installed library is left alone; the unfinished      *)
(* installation is resumed, or one is submitted.                            *)
PrepareSources ==
  /\ Boot("loaded", IF cancelled \/ library = "installed" THEN "done" ELSE "sources")
  /\ library' = IF cancelled \/ library = "installed" THEN library ELSE "installing"
  /\ UNCHANGED <<owner, condition, last, workspace, copyTried, runtime, server>>

(* The installation ends; it is cancelled only when the window is closed. *)
SourcesEnd(l) ==
  /\ l \in {"installed", "unfinished"}
  /\ Boot("sources", "done")
  /\ library' = l
  /\ UNCHANGED <<owner, condition, last, workspace, copyTried, runtime, server>>

Upgrading == {"upgrading", "upgradingCopy"}

(* The process is killed: the system frees its locks. *)
Crash ==
  /\ main \notin {"idle", "exited"}
  /\ main' = "exited" /\ boot' = "done" /\ done' = TRUE
  /\ runtime' = FALSE /\ server' = "ended"
  /\ owner' = Freed
  /\ IF boot \in Upgrading THEN Put(workspace, "interrupted") ELSE UNCHANGED condition
  /\ library' = IF boot = "sources" THEN "unfinished" ELSE library
  /\ UNCHANGED <<last, cancelled, runs, started, workspace, copyTried, terminal>>

-----------------------------------------------------------------------------
(* start_workspace, in a terminal *)

Terminal(from, to) ==
  /\ terminal = from /\ terminal' = to
  /\ UNCHANGED <<last, mainVars, bootVars, runtime, server>>

(* workspace_launch_lock: the lock, or an error. *)
TerminalLocks ==
  /\ owner[1] = "nobody" /\ owner' = [owner EXCEPT ![1] = "terminal"]
  /\ Terminal("idle", "locked")
  /\ UNCHANGED <<condition, library>>

TerminalLeaves(from) ==
  /\ Terminal(from, "idle")
  /\ owner' = [owner EXCEPT ![1] = "nobody"]
  /\ UNCHANGED <<condition, library>>

(* recover_workspace_locked first; an error of it ends the command. *)
TerminalRecovers(c) ==
  /\ c \in IF condition[1] = "interrupted" THEN {"compatible", "old"} ELSE {condition[1]}
  /\ Terminal("locked", "recovered")
  /\ Put(1, c)
  /\ UNCHANGED <<owner, library>>

(* A workspace of another schema is refused, never upgraded. *)
TerminalPrepares ==
  /\ condition[1] \in {"new", "compatible"}
  /\ Terminal("recovered", "prepared")
  /\ Put(1, "compatible")
  /\ UNCHANGED <<owner, library>>

TerminalServes(l) ==
  /\ l \in IF library = "installed" THEN {library} ELSE {library, "installed", "unfinished"}
  /\ Terminal("prepared", "serving")
  /\ library' = l
  /\ UNCHANGED <<owner, condition>>

Outcomes == {"compatible", "old", "interrupted"}
Next_Launching ==
  \/ Launch \/ CloseWindow \/ StopRuntime \/ JoinServer \/ LookAtBootstrap
  \/ WaitForBootstrap \/ CloseLocks \/ Crash
  \/ BootstrapBegins \/ Prepare \/ PrepareAgain
  \/ \E q \in Questions : DialogOpens(q) \/ DialogRefused(q) \/ Declines(q) \/ Confirms(q)
  \/ \E c \in Outcomes : UpgradeEnds(c) \/ RecoveryEnds(c) \/ CopyUpgraded(c)
  \/ CopyRestored \/ CopyLocked \/ CopySelected
  \/ EnterServer \/ PublishRuntime \/ TakeBack \/ PassCheck
  \/ (\E ready \in BOOLEAN : StartBackground(ready)) \/ ServerEnds
  \/ PrepareSources \/ \E l \in {"installed", "unfinished"} : SourcesEnd(l)
  \/ TerminalLocks \/ TerminalPrepares
  \/ \E c \in Outcomes \cup {"new", "unsupported"} : TerminalRecovers(c)
  \/ \E l \in {"none", "installed", "unfinished"} : TerminalServes(l)
  \/ \E from \in {"locked", "recovered", "prepared", "serving"} : TerminalLeaves(from)

Spec_Launching == Init_Launching /\ [][Next_Launching]_launchVars
-----------------------------------------------------------------------------
(* "Never release workspace ownership while migration is running"           *)
(* (desktop.py:101-103): while the bootstrap thread recovers, upgrades or   *)
(* copies a workspace the application holds the launch locks of the folder  *)
(* it was asked to open and of the one it works on, and no terminal is      *)
(* inside, however the window's closing falls between its checks.           *)
MigrationOwnsWorkspace ==
  boot \in Upgrading \cup {"recovering", "restoring", "locking", "selecting"} =>
    /\ owner[1] = "desktop" /\ owner[workspace] = "desktop"
    /\ terminal = "idle"
=============================================================================
