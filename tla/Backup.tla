------------------------------- MODULE Backup -------------------------------
(***************************************************************************)
(* Encrypted backups: the schedule and its timer (backup.worker.ts,        *)
(* backup.schedule.ts), the run itself (runBackup in backup.service.ts)    *)
(* with its rotation, and what a restart finds and repairs.                *)
(*                                                                         *)
(* A run is split where it awaits: the copy of the database, the WireGuard *)
(* key over SSH, tar, and the delivery.  Three callers start runs: the     *)
(* schedule's timer, the catch-up after a start, and the administrator.    *)
(***************************************************************************)
EXTENDS Integers, FiniteSets

CONSTANTS
  Day,          \* ticks in a day
  AnchorDay,    \* ANCHOR_DAY of the grid
  TimerLimit,   \* longest delay setTimeout can hold, in ticks (24.8 days)
  Configs,      \* schedules that may be set: [enabled, interval, hour]
  Retention,    \* bundles that rotation keeps
  Labels,       \* labels a deployment may give its bundles
  Horizon,      \* bound: last tick of the model's calendar
  MaxMade       \* bound: minutes of a behaviour in which bundles are made

ASSUME BackupAssumption ==
  /\ Day \in Nat \ {0} /\ AnchorDay \in Nat /\ TimerLimit \in Nat
  /\ Configs \subseteq [enabled : BOOLEAN, interval : Nat \ {0}, hour : 0..(Day - 1)]
  /\ Retention \in Nat \ {0} /\ Labels \subseteq Nat
  /\ Horizon \in Nat /\ MaxMade \in Nat

VARIABLES
  config,       \* the rows of app_settings
  now,          \* time
  up,           \* is the process running
  timer,        \* when scheduleTimer fires, or NoTimer
  catchUp,      \* is the catch-up of the start armed
  stopped,      \* has a teardown stopped the worker
  job,          \* the await each caller's run is at, or "idle"
  running,      \* the service's flag
  openRows,     \* rows of backup_runs in 'running'
  lastDone,     \* finished_at of the newest run that made a bundle
  bundles,      \* [label, stamp] of the files in BACKUP_DIR, named to the minute
  landed,       \* history: every bundle that was ever in place
  minute,       \* the newest bundle's, of the minutes that have one
  label,        \* this process's label for bundles
  alarm         \* is backup_failed recorded as fired

scheduleVars == <<config, now, timer, catchUp, stopped>>
runVars      == <<job, running, openRows, lastDone, bundles, landed, minute, alarm>>
backupVars   == <<scheduleVars, runVars, up, label>>

NoTimer == -1
Never   == -1
Callers == {"schedule", "catchUp", "admin"}
Stages  == {"idle", "copy", "key", "tar", "send"}

BackupTypeOK ==
  /\ config \in Configs /\ now \in 0..Horizon /\ up \in BOOLEAN
  /\ timer \in {NoTimer} \cup Nat /\ catchUp \in BOOLEAN /\ stopped \in BOOLEAN
  /\ job \in [Callers -> Stages] /\ running \in BOOLEAN
  /\ openRows \in 0..1 /\ lastDone \in {Never} \cup 0..Horizon
  /\ landed \subseteq [label : Labels, stamp : 1..MaxMade] /\ bundles \subseteq landed
  /\ minute \in 0..MaxMade /\ label \in Labels /\ alarm \in BOOLEAN

-----------------------------------------------------------------------------
(* The grid of slots.                                                      *)

SlotAt(day, hour) == day * Day + hour

LastDueSlot(t, hour, interval) ==
  LET today == t \div Day
      day   == IF SlotAt(today, hour) > t THEN today - 1 ELSE today
  IN  SlotAt(day - ((day - AnchorDay) % interval), hour)

NextSlot(t, hour, interval) == LastDueSlot(t, hour, interval) + interval * Day

CatchUpDue ==
  \/ lastDone = Never
  \/ lastDone < LastDueSlot(now, config.hour, config.interval)

\* scheduleNext under configuration c: the slot's distance is handed to
\* setTimeout, which takes one that overflows 32 bits as no delay at all.
ArmedTimer(c) ==
  LET due == NextSlot(now, c.hour, c.interval)
  IN  IF ~c.enabled THEN NoTimer
      ELSE IF due - now > TimerLimit THEN now ELSE due

-----------------------------------------------------------------------------
(* One run of runBackup.                                                   *)

\* Mutant: rotation orders the names as a whole, the label before the stamp.
Outdated_ByName(files) ==
  {b \in files :
     Cardinality({c \in files : c.label > b.label \/ (c.label = b.label /\ c.stamp > b.stamp)})
       >= Retention}

\* selectForRotation's order: by stamp, and by name within a minute.
Later(c, b) == c.stamp > b.stamp \/ (c.stamp = b.stamp /\ c.label > b.label)

\* selectForRotation: all but the newest.
Outdated(files) ==
  {b \in files : Cardinality({c \in files : Later(c, b)}) >= Retention}

\* The beginning: a second run is refused, the row comes before any work.  When
\* the row cannot be written nothing takes the flag back.
Begin(p) ==
  IF running
  THEN UNCHANGED <<job, running, openRows>>
  ELSE /\ running' = TRUE
       /\ \/ job' = [job EXCEPT ![p] = "copy"] /\ openRows' = openRows + 1
          \/ UNCHANGED <<job, openRows>>

\* The end, whatever the outcome.  A scheduled run is followed by the next
\* arming, and only the worker's own runs look after the alert.
Finish(p, status) ==
  /\ job' = [job EXCEPT ![p] = "idle"]
  /\ running' = FALSE
  /\ openRows' = openRows - 1
  /\ lastDone' = IF status = "failed" THEN lastDone ELSE now
  /\ IF p = "admin" THEN UNCHANGED alarm
     ELSE alarm' \in IF status = "success" THEN {FALSE} ELSE {TRUE, alarm}
  /\ timer' = IF p = "schedule" THEN ArmedTimer(config) ELSE timer
  /\ UNCHANGED <<config, now, catchUp, stopped, bundles, landed, minute, up, label>>

\* db.backup has the copy, and the keys are copied; the key of Server A comes
\* over SSH or is left out.
Step(p, from, to) ==
  /\ up /\ job[p] = from
  /\ job' = [job EXCEPT ![p] = to]
  /\ UNCHANGED <<scheduleVars, running, openRows, lastDone, bundles, landed, minute, alarm, up,
                 label>>

Copied(p)  == Step(p, "copy", "key")
KeyDone(p) == Step(p, "key", "tar")

\* tar is done: the bundle is renamed into place, over one of the same label and
\* minute; then the old ones go, which may be this one.
Land(p) ==
  /\ up /\ job[p] = "tar"
  /\ minute' \in {minute, minute + 1} \cap (1..MaxMade)
  /\ LET new   == [label |-> label, stamp |-> minute']
         files == bundles \cup {new}
     IN  bundles' = files \ Outdated(files) /\ landed' = landed \cup {new}
  /\ job' = [job EXCEPT ![p] = "send"]
  /\ UNCHANGED <<scheduleVars, running, openRows, lastDone, alarm, up, label>>

\* The bundle was delivered, or is kept on disk only.
Delivered(p) ==
  /\ up /\ job[p] = "send"
  /\ \E status \in {"success", "degraded"} : Finish(p, status)

\* The copy, a key, the passphrase or tar failed.
RunFails(p) ==
  /\ up /\ job[p] \in {"copy", "key", "tar"}
  /\ Finish(p, "failed")

-----------------------------------------------------------------------------
(* The callers.                                                            *)

TimerFires ==
  /\ up /\ timer # NoTimer /\ timer <= now
  /\ Begin("schedule")
  /\ timer' = IF job' = job THEN ArmedTimer(config) ELSE NoTimer
  /\ UNCHANGED <<config, now, catchUp, stopped, lastDone, bundles, landed, minute, alarm, up,
                 label>>

CatchUpFires ==
  /\ up /\ catchUp
  /\ catchUp' = FALSE
  /\ Begin("catchUp")
  /\ UNCHANGED <<config, now, timer, stopped, lastDone, bundles, landed, minute, alarm, up,
                 label>>

\* "Backup Now"; the bot's handlers come one after the other.
BackupNow ==
  /\ up /\ job["admin"] = "idle" /\ ~running
  /\ Begin("admin")
  /\ UNCHANGED <<scheduleVars, lastDone, bundles, landed, minute, alarm, up, label>>

\* setBackupConfig: another schedule is written to app_settings.
PutConfig == config' \in Configs \ {config}

\* Mutant: the pending timer is left as it is.
SetConfig_NoRearm ==
  /\ up /\ PutConfig
  /\ UNCHANGED <<now, catchUp, timer, stopped, runVars, up, label>>

\* A new schedule from the bot's menu or the Mini App, and rescheduleBackups.
SetConfig ==
  /\ up /\ PutConfig
  /\ timer' = ArmedTimer(config')
  /\ UNCHANGED <<now, catchUp, stopped, runVars, up, label>>

\* What dies with the process.
Volatile ==
  /\ up' = FALSE
  /\ timer' = NoTimer /\ catchUp' = FALSE /\ stopped' = FALSE
  /\ job' = [p \in Callers |-> "idle"] /\ running' = FALSE

BackupCrash ==
  /\ up
  /\ Volatile
  /\ UNCHANGED <<config, now, openRows, lastDone, bundles, landed, minute, alarm, label>>

\* Mutant: the rows of interrupted runs stay open.
WorkerStarts_KeepsRows ==
  /\ ~up /\ up' = TRUE
  /\ UNCHANGED openRows
  /\ catchUp' = (config.enabled /\ CatchUpDue)
  /\ timer' = ArmedTimer(config)
  /\ label' \in Labels

\* The worker's start: interrupted rows are failed, a missed slot is caught
\* up, the next is armed.  A deployment may have changed the label.
WorkerStarts ==
  /\ ~up /\ up' = TRUE
  /\ openRows' = 0
  /\ catchUp' = (config.enabled /\ CatchUpDue)
  /\ timer' = ArmedTimer(config)
  /\ label' \in Labels

BackupStart ==
  /\ WorkerStarts
  /\ UNCHANGED <<config, now, stopped, job, running, lastDone, bundles, landed, minute, alarm>>

\* Timers that are due fire before time goes on.
Tick ==
  /\ now < Horizon
  /\ up => ~catchUp /\ (timer = NoTimer \/ timer > now)
  /\ now' = now + 1
  /\ UNCHANGED <<config, timer, catchUp, stopped, runVars, up, label>>

BackupInit ==
  /\ config \in Configs /\ now = 0 /\ up = FALSE
  /\ timer = NoTimer /\ catchUp = FALSE /\ stopped = FALSE
  /\ job = [p \in Callers |-> "idle"] /\ running = FALSE
  /\ openRows = 0 /\ lastDone = Never
  /\ bundles = {} /\ landed = {} /\ minute = 0 /\ label \in Labels /\ alarm = FALSE

RunStep(p) == Copied(p) \/ KeyDone(p) \/ Land(p) \/ Delivered(p) \/ RunFails(p)

BackupNext ==
  \/ \E p \in Callers : RunStep(p)
  \/ TimerFires \/ CatchUpFires \/ BackupNow \/ SetConfig
  \/ BackupCrash \/ BackupStart \/ Tick

BackupSpec == BackupInit /\ [][BackupNext]_backupVars

-----------------------------------------------------------------------------
(* Properties.                                                             *)

\* A bundle is gone only when rotation left at least Retention others that are
\* no older, whatever labels the deployment gave them over time and however many
\* came in one minute (selectForRotation deletes without an undo).
NewestKept ==
  \A b \in landed \ bundles : Cardinality({c \in bundles : c.stamp >= b.stamp}) >= Retention

\* A slot of the grid, defined by what the schedule means.
IsSlot(t, c) ==
  /\ t % Day = c.hour
  /\ (t \div Day - AnchorDay) % c.interval = 0

\* While the worker is up and no scheduled run is under way the timer stands
\* at the first slot of the schedule in force, however edits, runs that fail or
\* are refused and restarts came together; without a schedule there is none.
ArmedForConfig ==
  up /\ ~stopped /\ job["schedule"] = "idle" =>
    IF config.enabled
    THEN /\ timer >= now /\ IsSlot(timer, config)
         /\ \A t \in (now + 1)..(timer - 1) : ~IsSlot(t, config)
    ELSE timer = NoTimer

\* The worker "runs the encrypted bundle on the configured schedule": the timer
\* starts a run only in a slot.
OnSchedule ==
  [][job["schedule"] = "idle" /\ job'["schedule"] # "idle" => IsSlot(now, config)]_backupVars
=============================================================================
