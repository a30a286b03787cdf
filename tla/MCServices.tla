----------------------------- MODULE MCServices -----------------------------
(* Small instances for TLC of the parts of the bot's server that share no   *)
(* state with one another.  Each behaviour is one of a single part, in      *)
(* focus from its start, while the others stay as they begin; taking them   *)
(* together in one run changes nothing but the number of runs.  The backups *)
(* are in focus twice: under the schedule, and around a restore.            *)
EXTENDS Restore, SshPool, MetricsCache, Alerts, Updates, Traffic, Subscription,
        Dialogue, Migrations, MiniApp

VARIABLE focus

Schedule(on, days, at_) == [enabled |-> on, interval |-> days, hour |-> at_]

Schedules ==
  {Schedule(TRUE, 1, 0), Schedule(TRUE, 3, 1), Schedule(FALSE, 1, 0)}

servicesVars ==
  <<backupVars, restoreVars, sshVars, cacheVars, alertVars, updatesVars, trafficVars,
    subVars, dialogueVars, migrationVars, appVars, focus>>

Parts == {"schedule", "restore", "ssh", "cache", "alerts", "updates", "traffic", "sub",
          "dialogue", "migrations", "app"}

ServicesInit ==
  /\ focus \in Parts
  /\ RestoreInit /\ SshInit /\ CacheInit /\ AlertInit /\ UpdatesInit /\ TrafficInit
  /\ SubInit /\ DialogueInit /\ MigrationsInit /\ AppInit
  /\ focus # "schedule" => config = Schedule(TRUE, 1, 0) /\ label = 1
  /\ focus # "alerts" => kind = "disk_full"
  /\ focus # "sub" => token = 0
  /\ focus # "migrations" => disk = Fresh
  /\ focus # "app" => stored = Unmade

\* Only part p moves.
In(p) ==
  /\ focus = p /\ UNCHANGED focus
  /\ p \notin {"schedule", "restore"} => UNCHANGED backupVars
  /\ p # "restore" => UNCHANGED restoreVars
  /\ p # "ssh" => UNCHANGED sshVars
  /\ p # "cache" => UNCHANGED cacheVars
  /\ p # "alerts" => UNCHANGED alertVars
  /\ p # "updates" => UNCHANGED updatesVars
  /\ p # "traffic" => UNCHANGED trafficVars
  /\ p # "sub" => UNCHANGED subVars
  /\ p # "dialogue" => UNCHANGED dialogueVars
  /\ p # "migrations" => UNCHANGED migrationVars
  /\ p # "app" => UNCHANGED appVars

\* Bounds of a restore's behaviours: one moment, one bundle, one schedule.
RestoreBounds == config' = config /\ now' = now /\ minute' <= 1 /\ label' = label

ServicesNext ==
  \/ In("schedule") /\ BackupNext
  \/ In("restore") /\ RestoreNext /\ RestoreBounds
  \/ In("ssh") /\ SshNext
  \/ In("cache") /\ CacheNext
  \/ In("alerts") /\ AlertNext
  \/ In("updates") /\ UpdatesNext
  \/ In("traffic") /\ TrafficNext
  \/ In("sub") /\ SubNext
  \/ In("dialogue") /\ DialogueNext
  \/ In("migrations") /\ MigrationsNext
  \/ In("app") /\ AppNext

\* The process manager starts what has died and a timer that is armed fires;
\* an attempt to connect ends; the intervals of the workers fire; apt answers
\* now and again.
Fairness ==
  /\ WF_<<backupVars, restoreVars>>(focus = "restore" /\ RestoreStart /\ RestoreBounds)
  /\ WF_<<backupVars, restoreVars>>(focus = "restore" /\ Backstop /\ RestoreBounds)
  /\ \A c \in Conn : WF_sshVars(focus = "ssh" /\ (Ready(c) \/ Failed(c)))
  /\ WF_alertVars(focus = "alerts" /\ Pass)
  /\ WF_alertVars(focus = "alerts" /\ Send)
  /\ WF_alertVars(focus = "alerts" /\ HealthRun)
  /\ WF_alertVars(focus = "alerts" /\ AlertTick)
  /\ WF_updatesVars(focus = "updates" /\ BeginRun)
  /\ WF_updatesVars(focus = "updates" /\ FallbackRun)
  /\ WF_updatesVars(focus = "updates" /\ Formatted)
  /\ WF_updatesVars(focus = "updates" /\ USend)
  /\ WF_updatesVars(focus = "updates" /\ UTick)
  /\ SF_updatesVars(focus = "updates" /\ ListDone)

FairSpec == ServicesInit /\ [][ServicesNext]_servicesVars /\ Fairness

\* Type correctness of all the parts.
ServicesTypeOK ==
  /\ BackupTypeOK /\ RestoreTypeOK /\ SshTypeOK /\ CacheTypeOK /\ AlertTypeOK
  /\ UpdatesTypeOK /\ TrafficTypeOK /\ SubTypeOK /\ DialogueTypeOK /\ MigrationsTypeOK
  /\ AppTypeOK
=============================================================================
