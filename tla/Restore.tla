------------------------------ MODULE Restore ------------------------------
(***************************************************************************)
(* Restoring a bundle that the administrator sends to the chat: staging    *)
(* (stageRestore, restore.ts), the confirmation, and commitRestore with    *)
(* the teardown it shares with the signal handlers (lifecycle.ts), up to   *)
(* the swap of the database file and the next start.  Extends Backup: the  *)
(* running flag, the timers and the rows are its own.                      *)
(*                                                                         *)
(* The bot's handlers come one after the other; the staged bundle's timer, *)
(* the backups and the signals come at any time.                           *)
(***************************************************************************)
EXTENDS Backup

CONSTANTS
  MaxStaged,    \* bound: bundles staged in a behaviour
  MaxRestores,  \* bound: restores begun
  PreKeep       \* PRE_RESTORE_KEEP

ASSUME RestoreAssumption ==
  MaxStaged \in Nat /\ MaxRestores \in Nat /\ PreKeep \in Nat \ {0}

VARIABLES
  staged,       \* the bundle that may be confirmed, 0 for none
  dirs,         \* staged bundles that are on disk
  sent,         \* bundles staged so far
  restore,      \* the bot's handler: [at, id]
  backstop,     \* is commitRestore's last-resort timer running
  teardown,     \* "no", "running", "done"
  file,         \* what DB_PATH is: "live" or "bundle"
  wal,          \* its WAL: "holds" commits, is "merged", "gone", or "lost"
  snapshots,    \* pre-restore snapshots on disk: [stamp, of, whole], named to the minute
  begun,        \* restores begun
  marker        \* does the restore marker exist

diskVars    == <<file, wal, snapshots, marker>>
stagingVars == <<staged, dirs, sent>>
restoreVars == <<diskVars, stagingVars, restore, backstop, teardown, begun>>

RestoreTypeOK ==
  /\ staged \in 0..MaxStaged /\ dirs \subseteq 1..MaxStaged /\ sent \in 0..MaxStaged
  /\ restore \in [at : {"idle", "unpack", "told", "snapshot", "stop", "swap"}, id : 0..MaxStaged]
  /\ backstop \in BOOLEAN /\ teardown \in {"no", "running", "done"}
  /\ file \in {"live", "bundle"} /\ wal \in {"holds", "merged", "gone", "lost"}
  /\ snapshots \subseteq [stamp : 1..MaxRestores, of : 1..MaxRestores, whole : BOOLEAN]
  /\ begun \in 0..MaxRestores /\ marker \in BOOLEAN

Handler(at) == up /\ restore.at = at
Idle        == [at |-> "idle", id |-> 0]
AdminFree   == restore.at = "idle" /\ job["admin"] = "idle"

-----------------------------------------------------------------------------
(* Staging and confirming.                                                 *)

\* A bundle arrives: the one staged before is dropped at once.
Upload ==
  /\ up /\ AdminFree /\ sent < MaxStaged /\ teardown = "no"
  /\ sent' = sent + 1
  /\ staged' = 0
  /\ dirs' = (dirs \ {staged}) \cup {sent + 1}
  /\ restore' = [at |-> "unpack", id |-> sent + 1]
  /\ UNCHANGED <<backupVars, diskVars, backstop, teardown, begun>>

\* It unpacked and proved sound, and can be confirmed; or it was refused.
Staged ==
  /\ Handler("unpack")
  /\ \/ staged' = restore.id /\ UNCHANGED dirs
     \/ dirs' = dirs \ {restore.id} /\ UNCHANGED staged
  /\ restore' = Idle
  /\ UNCHANGED <<backupVars, diskVars, sent, backstop, teardown, begun>>

\* Cancel, or the end of its ten minutes.
DropStaged ==
  /\ up /\ staged # 0
  /\ staged' = 0 /\ dirs' = dirs \ {staged}
  /\ UNCHANGED <<backupVars, diskVars, sent, restore, backstop, teardown, begun>>

\* A confirmation of the staged bundle while no backup runs; any other is
\* answered and changes nothing.  Two messages are sent before the commit.
Confirm ==
  /\ up /\ AdminFree /\ staged # 0 /\ ~running
  /\ restore' = [at |-> "told", id |-> staged]
  /\ UNCHANGED <<backupVars, diskVars, stagingVars, backstop, teardown, begun>>

-----------------------------------------------------------------------------
(* commitRestore.                                                          *)

\* The flag is looked at again; from here on only the process's end leads out.
Commit ==
  /\ Handler("told") /\ begun < MaxRestores
  /\ IF running
     THEN restore' = Idle /\ UNCHANGED <<running, backstop, begun>>
     ELSE /\ running' = TRUE /\ backstop' = TRUE
          /\ begun' = begun + 1
          /\ restore' = [restore EXCEPT !.at = "snapshot"]
  /\ UNCHANGED <<scheduleVars, job, openRows, lastDone, bundles, landed, minute, alarm, up, label,
                 diskVars, stagingVars, teardown>>

\* Mutant: the last resort is called off when the handler gives up.
GiveUp_NoBackstop ==
  /\ restore' = Idle /\ backstop' = FALSE
  /\ UNCHANGED <<backupVars, stagingVars, begun>>

\* The handler reports an exception: the flag stays, and so does the timer.
GiveUp ==
  /\ restore' = Idle
  /\ UNCHANGED <<backupVars, stagingVars, backstop, begun>>

\* The snapshots with one of restore `begun` added, in the minute of the newest or
\* in a later one; one of the same minute is written over.
WithSnapshot(whole) ==
  {{t \in snapshots : t.stamp # m} \cup {[stamp |-> m, of |-> begun, whole |-> whole]} :
     m \in {m \in 1..begun : \A t \in snapshots : t.stamp <= m}}

\* The snapshot of the live database is complete, and old ones are rotated; or it
\* failed, and what was written of it may stay under its final name.
SnapshotDone ==
  /\ Handler("snapshot") /\ wal = "holds"
  /\ \E all \in WithSnapshot(TRUE) :
       snapshots' = {s \in all : Cardinality({t \in all : t.stamp > s.stamp}) < PreKeep}
  /\ restore' = [restore EXCEPT !.at = "stop"]
  /\ teardown' = IF teardown = "no" THEN "running" ELSE teardown
  /\ UNCHANGED <<backupVars, stagingVars, backstop, begun, file, wal, marker>>

SnapshotFails ==
  /\ Handler("snapshot")
  /\ snapshots' \in {snapshots} \cup WithSnapshot(FALSE)
  /\ GiveUp
  /\ UNCHANGED <<teardown, file, wal, marker>>

\* The teardown's step for the workers clears their timers; its last closes
\* the database.  bot.stop() before them may hang: then neither is reached.
Teardown ==
  /\ up /\ teardown = "running"
  /\ teardown' = "done"
  /\ wal' = "merged"
  /\ timer' = NoTimer /\ catchUp' = FALSE /\ stopped' = TRUE
  /\ UNCHANGED <<config, now, runVars, up, label, file, snapshots, marker,
                 stagingVars, restore, backstop, begun>>

\* It ended (at once, when a signal had begun it) or took longer than 20 s.
Stopped ==
  /\ Handler("stop")
  /\ restore' = [restore EXCEPT !.at = "swap"]
  /\ UNCHANGED <<backupVars, diskVars, stagingVars, backstop, teardown, begun>>

\* Mutant: the WAL is removed before the database is closed.
Files_WalFirst(n) ==
  /\ wal' = CASE n = 0 -> wal
              [] n = 1 /\ wal = "holds" -> "lost"
              [] OTHER -> "gone"
  /\ file' = IF n >= 3 THEN "bundle" ELSE file
  /\ marker' = (marker \/ n = 4)

\* The files after the first n steps of the swap: close, which merges the WAL,
\* its removal, the rename, the marker.
Files(n) ==
  /\ wal' = CASE n = 0 -> wal [] n = 1 -> "merged" [] OTHER -> "gone"
  /\ file' = IF n >= 3 THEN "bundle" ELSE file
  /\ marker' = (marker \/ n = 4)

\* The process is gone, and with it all of the restore but what is on disk.
RestoreGone ==
  /\ Volatile
  /\ restore' = Idle /\ backstop' = FALSE /\ teardown' = "no"
  /\ staged' = 0
  /\ UNCHANGED <<now, bundles, landed, minute, alarm, label, sent, snapshots, begun>>

\* The swap is one turn that ends the process: by exit, or by a crash after
\* any of its steps.  The rows are then those of the bundle, whose snapshot was
\* taken while the run that made it was open.
Swap ==
  /\ Handler("swap") /\ restore.id \in dirs
  /\ \E n \in 0..4 :
       /\ Files(n)
       /\ IF n < 3 THEN UNCHANGED <<config, openRows, lastDone>>
          ELSE config' \in Configs /\ openRows' = 1 /\ lastDone' = Never
  /\ RestoreGone /\ UNCHANGED dirs

\* The staged database is gone: the rename throws, after the WAL's removal.
SwapFails ==
  /\ Handler("swap") /\ restore.id \notin dirs
  /\ Files(2)
  /\ GiveUp
  /\ UNCHANGED <<teardown, snapshots>>

-----------------------------------------------------------------------------
(* Ends and beginnings of the process.                                     *)

Dies ==
  /\ RestoreGone
  /\ UNCHANGED <<config, openRows, lastDone, dirs, file, wal, marker>>

\* commitRestore's last resort: process.exit(1).
Backstop == up /\ backstop /\ Dies

RestoreCrash == up /\ Dies

\* SIGTERM begins the teardown, or ends at once when one is under way.
Sigterm ==
  /\ up
  /\ IF teardown = "no"
     THEN /\ teardown' = "running"
          /\ UNCHANGED <<backupVars, diskVars, stagingVars, restore, backstop, begun>>
     ELSE Dies

\* A run whose database was closed under it ends with its row still open.
CutShort(p) ==
  /\ up /\ job[p] # "idle" /\ wal # "holds"
  /\ job' = [job EXCEPT ![p] = "idle"] /\ running' = FALSE
  /\ UNCHANGED <<scheduleVars, openRows, lastDone, bundles, landed, minute, alarm, up, label,
                 restoreVars>>

\* The database is opened (its WAL with it), staging is wiped, the marker's
\* receipt is sent and the marker removed.
RestoreStart ==
  /\ BackupStart
  /\ file' = "live" /\ wal' = "holds"
  /\ dirs' = {} /\ marker' = FALSE
  /\ UNCHANGED <<snapshots, staged, sent, restore, backstop, teardown, begun>>

\* What Backup does while the database is open.
BackupGoesOn ==
  /\ wal = "holds"
  /\ \/ \E p \in Callers : RunStep(p)
     \/ TimerFires \/ CatchUpFires
     \/ restore.at = "idle" /\ BackupNow
     \/ SetConfig \/ Tick
  /\ UNCHANGED restoreVars

RestoreInit ==
  /\ BackupInit
  /\ staged = 0 /\ dirs = {} /\ sent = 0 /\ restore = Idle
  /\ backstop = FALSE /\ teardown = "no" /\ begun = 0
  /\ file = "live" /\ wal = "holds" /\ snapshots = {} /\ marker = FALSE

RestoreNext ==
  \/ BackupGoesOn
  \/ Upload \/ Staged \/ DropStaged \/ Confirm \/ Commit
  \/ SnapshotDone \/ SnapshotFails \/ Teardown \/ Stopped \/ Swap \/ SwapFails
  \/ \E p \in Callers : CutShort(p)
  \/ Backstop \/ RestoreCrash \/ Sigterm \/ RestoreStart

RestoreSpec == RestoreInit /\ [][RestoreNext]_<<backupVars, restoreVars>>

-----------------------------------------------------------------------------
(* Properties.                                                             *)

\* Wherever the process dies, what the next one opens is the old database with
\* every commit, or the bundle's without the old one's WAL, and then a complete
\* snapshot of what it replaced is on disk ("A half-applied restore is the one
\* outcome worse than no restore", backup.service.ts:479).
RestoreAllOrNothing ==
  /\ wal # "lost"
  /\ file = "bundle" =>
       wal = "gone" /\ \E s \in snapshots : s.of = begun /\ s.whole

\* A restore that was begun ends in a fresh process that takes backups again,
\* also when its snapshot, its teardown or its rename failed.
RestoreEnds == backstop ~> up /\ ~running /\ wal = "holds"
=============================================================================
