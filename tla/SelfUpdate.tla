----------------------------- MODULE SelfUpdate -----------------------------
(***************************************************************************)
(* internal/selfupdate: the goroutine that looks for a release, unarchives *)
(* it next to the executable and puts it in the executable's place with    *)
(* two renames, undoing the first when the second fails.  Every file       *)
(* operation may fail, and the process may end between any two of them:    *)
(* a quit does not wait for this goroutine.                                *)
(*                                                                         *)
(* This is installExecutable (Windows, Linux); applyUpdateForDarwin moves  *)
(* bundles in the same order, without the collection of staging            *)
(* directories.  What a goroutine does in memory or in a temporary file    *)
(* that a deferred call removes is part of the step it belongs to.         *)
(***************************************************************************)
EXTENDS Integers

CONSTANTS
  Release,      \* version the release track offers
  NoVersion,    \* no executable
  MaxStaging    \* bound: staging directories lying around

ASSUME ReleaseAssumption == Release \in Nat /\ NoVersion \notin Nat
ASSUME StagingAssumption == MaxStaging \in Nat \ {0}

VARIABLES
  exec,       \* version of the file at the executable's path
  backups,    \* versions of the backups next to it
  staging,    \* staging directories next to it
  phase,      \* where the updater stands; "off": it has not been started
  replaced,   \* the outcome that installExecutable is about to return
  stranded    \* a rollback failed: the running program's file is its backup

updateVars == <<exec, backups, staging, phase, replaced, stranded>>

Phases == {"off", "waiting", "verified", "staged", "unarchived", "moved", "failed",
           "installed", "hiding", "leaving", "done"}

InitUpdate(version) ==
  /\ exec = version
  /\ backups = {}
  /\ staging = 0
  /\ phase = "off"
  /\ replaced = FALSE
  /\ stranded = FALSE

\* Where a failed installExecutable goes on: its deferred removal of the staging
\* directory, then the wait for the next tick.
Leave(success) == phase' = "leaving" /\ replaced' = success

StartUpdater ==
  /\ phase = "off"
  /\ phase' = "waiting"
  /\ UNCHANGED <<exec, backups, staging, replaced, stranded>>

\* A tick: the policy, the manifest, the download and its hash.  Any failure
\* of these leaves nothing behind but the wait for the next tick.
Download(policy, running) ==
  /\ phase = "waiting"
  /\ policy = "automatic"
  /\ Release > running
  /\ phase' = "verified"
  /\ UNCHANGED <<exec, backups, staging, replaced, stranded>>

\* Stale staging directories go, as far as they can be removed.
StageArchive ==
  /\ phase = "verified"
  /\ staging' \in 1 .. staging + 1
  /\ staging' <= MaxStaging
  /\ phase' = "staged"
  /\ UNCHANGED <<exec, backups, replaced, stranded>>

StagingFails ==
  /\ phase = "verified"
  /\ phase' = "waiting"
  /\ staging' \in 0 .. staging
  /\ UNCHANGED <<exec, backups, replaced, stranded>>

Unarchive ==
  /\ phase = "staged"
  /\ phase' = "unarchived"
  /\ UNCHANGED <<exec, backups, staging, replaced, stranded>>

UnarchiveFails ==
  /\ phase = "staged"
  /\ Leave(FALSE)
  /\ UNCHANGED <<exec, backups, staging, stranded>>

\* When a rollback failed, the path that Linux reports is the backup's, which is
\* then moved aside in turn.
MoveToBackup(running) ==
  /\ phase = "unarchived"
  /\ exec # NoVersion \/ stranded
  /\ exec' = NoVersion
  /\ backups' = backups \union {running}
  /\ phase' = "moved"
  /\ UNCHANGED <<staging, replaced, stranded>>

BackupFails ==
  /\ phase = "unarchived"
  /\ Leave(FALSE)
  /\ UNCHANGED <<exec, backups, staging, stranded>>

MoveIntoPlace ==
  /\ phase = "moved"
  /\ IF stranded THEN backups' = backups \union {Release} /\ exec' = exec
     ELSE exec' = Release /\ backups' = backups
  /\ phase' = "installed"
  /\ UNCHANGED <<staging, replaced, stranded>>

\* Faulty: the rollback flag is not set, so the backup is dropped.
MoveFailsUnflagged ==
  /\ phase = "moved"
  /\ phase' = "installed"
  /\ UNCHANGED <<exec, backups, staging, replaced, stranded>>

\* The archive holds no executable of the expected name, or the rename fails.
MoveFails ==
  /\ phase = "moved"
  /\ phase' = "failed"
  /\ UNCHANGED <<exec, backups, staging, replaced, stranded>>

\* Faulty: the error of the rename is forgotten.
RollbackSilently(running) ==
  /\ phase = "failed"
  /\ exec' = IF stranded THEN exec ELSE running
  /\ backups' = IF stranded THEN backups ELSE backups \ {running}
  /\ Leave(TRUE)
  /\ UNCHANGED <<staging, stranded>>

\* running: the version this process runs, which is the one it backed up.
Rollback(running) ==
  /\ phase = "failed"
  /\ exec' = IF stranded THEN exec ELSE running
  /\ backups' = IF stranded THEN backups ELSE backups \ {running}
  /\ Leave(FALSE)
  /\ UNCHANGED <<staging, stranded>>

RollbackFails ==
  /\ phase = "failed"
  /\ stranded' = TRUE
  /\ Leave(FALSE)
  /\ UNCHANGED <<exec, backups, staging>>

\* Windows keeps the file of a running program: it is hidden in the temporary
\* directory when it cannot be removed.
DropBackup(running) ==
  /\ phase \in {"installed", "hiding"}
  /\ backups' = backups \ {running}
  /\ Leave(TRUE)
  /\ UNCHANGED <<exec, staging, stranded>>

RemoveBackupFails ==
  /\ phase = "installed"
  /\ phase' = "hiding"
  /\ UNCHANGED <<exec, backups, staging, replaced, stranded>>

HideFails ==
  /\ phase = "hiding"
  /\ Leave(TRUE)
  /\ UNCHANGED <<exec, backups, staging, stranded>>

\* The end of installExecutable: success is announced to the window and ends
\* the scheduled checks.
Finish ==
  /\ phase = "leaving"
  /\ \E removed \in BOOLEAN :
       /\ staging' = IF removed THEN staging - 1 ELSE staging
  /\ phase' = IF replaced THEN "done" ELSE "waiting"
  /\ UNCHANGED <<exec, backups, replaced, stranded>>

EndUpdater ==
  /\ phase' = "off"
  /\ replaced' = FALSE
  /\ UNCHANGED <<exec, backups, staging, stranded>>

Update(policy, running) ==
  \/ Download(policy, running)
  \/ StageArchive
  \/ StagingFails
  \/ Unarchive
  \/ UnarchiveFails
  \/ MoveToBackup(running)
  \/ BackupFails
  \/ MoveIntoPlace
  \/ MoveFails
  \/ Rollback(running)
  \/ RollbackFails
  \/ DropBackup(running)
  \/ RemoveBackupFails
  \/ HideFails
  \/ Finish
=============================================================================
