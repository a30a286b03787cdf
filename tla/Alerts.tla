------------------------------- MODULE Alerts -------------------------------
(***************************************************************************)
(* The alert worker (workers/alert.worker.ts), its rows in alert_state and *)
(* the health worker that measures the cascade (workers/health.worker.ts). *)
(* The checks of a pass touch disjoint rows, so a behaviour follows one    *)
(* alert, chosen at the start.  abnormal_traffic is in Suspension.         *)
(***************************************************************************)
EXTENDS Integers

CONSTANTS
  SustainFor,   \* ticks a lasting condition must last
  Cooldown,     \* ticks between two messages about one alert
  FailLimit     \* FAILURE_THRESHOLD of the health worker

ASSUME AlertAssumption == SustainFor \in Nat /\ Cooldown \in Nat /\ FailLimit \in Nat \ {0}

VARIABLES
  kind,      \* the alert followed
  level,     \* what a measurement finds: "fine", "bad" or "worst"
  seen,      \* what the last measurement of the cascade found
  readable,  \* can it be measured
  muted,     \* maintenance, a planned reboot, or no schedule to watch
  enabled,
  alertUp,   \* is the process running
  sustain,   \* ticks since sustainStart, or NotSince
  status,    \* alert_state: "clear" or "fired"
  age,       \* ticks since fired_at
  asking,    \* has the check passed its guards and awaits SSH
  outbox,    \* the message being sent
  failures,  \* consecutiveFailures
  alertSent

worldVars == <<level, readable, muted, enabled>>
stateVars == <<sustain, status, age>>
alertVars == <<kind, worldVars, stateVars, seen, alertUp, asking, outbox, failures, alertSent>>

Kinds == {"cascade_down", "cascade_degradation", "service_dead_xray", "service_dead_wg",
          "disk_full", "network_saturation", "cpu_overload", "quota_warning", "cert_expiry",
          "reboot_detected", "reboot_required", "backup_stale"}
Cascade  == {"cascade_down", "cascade_degradation"}
NotSince == -1

AlertTypeOK ==
  /\ kind \in Kinds /\ level \in {"fine", "bad", "worst"} /\ seen \in {"fine", "bad", "worst"}
  /\ readable \in BOOLEAN /\ muted \in BOOLEAN /\ enabled \in BOOLEAN /\ alertUp \in BOOLEAN
  /\ sustain \in NotSince..SustainFor /\ status \in {"clear", "fired"} /\ age \in 0..Cooldown
  /\ asking \in BOOLEAN /\ outbox \in {"none", "down", "up"}
  /\ failures \in 0..FailLimit /\ alertSent \in BOOLEAN

-----------------------------------------------------------------------------
(* shouldFire, evalSustained, fireAlert and clearAlert.                    *)

\* Mutant: what was fired once is not fired again.
MayFire_Once == status = "clear"

MayFire == status = "clear" \/ age >= Cooldown

\* sustainStart after the condition was found to hold or not.
SinceWhen(holds) ==
  IF ~holds THEN NotSince ELSE IF sustain = NotSince THEN 0 ELSE sustain

\* One evaluation: fire when due, clear when gone, the row before the message.
Evaluate(holds, lasting) ==
  LET since == IF lasting THEN SinceWhen(holds) ELSE sustain
      due   == holds /\ (lasting => since >= SustainFor)
  IN  /\ sustain' = since
      /\ IF due /\ MayFire
         THEN status' = "fired" /\ age' = 0 /\ outbox' = "down"
         ELSE IF ~holds /\ status = "fired"
         THEN status' = "clear" /\ outbox' = "up" /\ UNCHANGED age
         ELSE UNCHANGED <<status, age, outbox>>

\* A check of alert k: it returns early when switched off, muted or unreadable.
Check(k, holds, mute, known, lasting) ==
  /\ alertUp /\ outbox = "none" /\ ~asking /\ kind = k
  /\ IF enabled /\ ~mute /\ known
     THEN Evaluate(holds, lasting)
     ELSE UNCHANGED <<stateVars, outbox>>
  /\ UNCHANGED <<kind, worldVars, seen, alertUp, asking, failures, alertSent>>

CascadeDown        == Check("cascade_down", seen = "worst", muted, TRUE, TRUE)
CascadeDegradation == Check("cascade_degradation", seen = "bad", muted, TRUE, TRUE)
ServiceDeadXray    == Check("service_dead_xray", level # "fine", muted, TRUE, FALSE)
DiskFull           == Check("disk_full", level # "fine", FALSE, readable, FALSE)
NetworkSaturation  == Check("network_saturation", level # "fine", FALSE, readable, TRUE)
CpuOverload        == Check("cpu_overload", level # "fine", muted, readable, TRUE)
QuotaWarning       == Check("quota_warning", level # "fine", FALSE, readable, FALSE)
CertExpiry         == Check("cert_expiry", level # "fine", FALSE, readable, FALSE)
RebootDetected     == Check("reboot_detected", level # "fine", muted, readable, FALSE)
RebootRequired     == Check("reboot_required", level # "fine", FALSE, readable, FALSE)
BackupStale        == Check("backup_stale", level # "fine", muted, TRUE, FALSE)

\* service_dead_wg asks over SSH after its guards, and gives up when it cannot.
AskWg ==
  /\ alertUp /\ outbox = "none" /\ ~asking /\ kind = "service_dead_wg"
  /\ enabled /\ ~muted
  /\ asking' = TRUE
  /\ UNCHANGED <<kind, worldVars, stateVars, seen, alertUp, outbox, failures, alertSent>>

ServiceDeadWg ==
  /\ alertUp /\ asking /\ asking' = FALSE
  /\ IF readable THEN Evaluate(level # "fine", FALSE) ELSE UNCHANGED <<stateVars, outbox>>
  /\ UNCHANGED <<kind, worldVars, seen, alertUp, failures, alertSent>>

\* The message has gone, or was refused, which is only logged.
Send ==
  /\ alertUp /\ outbox # "none" /\ outbox' = "none"
  /\ UNCHANGED <<kind, worldVars, stateVars, seen, alertUp, asking, failures, alertSent>>

SendDown == outbox = "down" /\ Send

\* The checks of a pass.
Pass ==
  \/ CascadeDown \/ CascadeDegradation \/ ServiceDeadXray \/ AskWg \/ ServiceDeadWg
  \/ DiskFull \/ NetworkSaturation \/ CpuOverload \/ QuotaWarning \/ CertExpiry
  \/ RebootDetected \/ RebootRequired \/ BackupStale

-----------------------------------------------------------------------------

\* The health worker's minute: the SSH ping counts failures and tells once, and
\* the counters stay as they are when the word that it answers again cannot be
\* sent; then ICMP measures what the cascade's checks will see (level is what
\* ping says, and a ping that cannot be run says that everything is lost).
HealthRun ==
  /\ alertUp /\ kind \in Cascade
  /\ \/ failures' = 0 /\ alertSent' = FALSE
     \/ alertSent /\ failures >= FailLimit /\ UNCHANGED <<failures, alertSent>>
     \/ /\ failures' = IF failures < FailLimit THEN failures + 1 ELSE failures
        /\ alertSent' = (alertSent \/ failures' = FailLimit)
  /\ seen' = level
  /\ UNCHANGED <<kind, worldVars, stateVars, alertUp, asking, outbox>>

\* The world, maintenance, the settings.
WorldChanges ==
  /\ \/ \E l \in {"fine", "bad", "worst"} : level' = l /\ UNCHANGED <<readable, muted, enabled>>
     \/ readable' = ~readable /\ UNCHANGED <<level, muted, enabled>>
     \/ muted' = ~muted /\ UNCHANGED <<level, readable, enabled>>
     \/ enabled' = ~enabled /\ UNCHANGED <<level, readable, muted>>
  /\ UNCHANGED <<kind, stateVars, seen, alertUp, asking, outbox, failures, alertSent>>

AlertTick ==
  /\ sustain' = IF sustain \in 0..(SustainFor - 1) THEN sustain + 1 ELSE sustain
  /\ age' = IF age < Cooldown THEN age + 1 ELSE age
  /\ UNCHANGED <<kind, worldVars, status, seen, alertUp, asking, outbox, failures, alertSent>>

\* The row outlives the process; the message under way and sustainStart do not.
AlertCrash ==
  /\ alertUp /\ alertUp' = FALSE
  /\ sustain' = NotSince /\ asking' = FALSE /\ outbox' = "none"
  /\ failures' = 0 /\ alertSent' = FALSE /\ seen' = "fine"
  /\ UNCHANGED <<kind, worldVars, status, age>>

AlertStart ==
  /\ ~alertUp /\ alertUp' = TRUE
  /\ UNCHANGED <<kind, worldVars, stateVars, seen, asking, outbox, failures, alertSent>>

AlertInit ==
  /\ kind \in Kinds /\ level = "fine" /\ seen = "fine"
  /\ readable = TRUE /\ muted = FALSE /\ enabled = TRUE /\ alertUp = TRUE
  /\ sustain = NotSince /\ status = "clear" /\ age = 0
  /\ asking = FALSE /\ outbox = "none" /\ failures = 0 /\ alertSent = FALSE

AlertNext ==
  Pass \/ Send \/ HealthRun \/ WorldChanges \/ AlertTick \/ AlertCrash \/ AlertStart

AlertSpec == AlertInit /\ [][AlertNext]_alertVars

-----------------------------------------------------------------------------

Watching == alertUp /\ enabled /\ readable /\ ~muted
Trouble  == IF kind = "cascade_down" THEN level = "worst"
            ELSE IF kind = "cascade_degradation" THEN level = "bad" ELSE level # "fine"

\* While trouble lasts and the alert is watched the administrator is told
\* again and again, so also after the process died between the row and the
\* message; once it is over the alert is cleared for good ("cooldown logic
\* survives process crashes", alert.worker.ts:11).
AlertsFollow ==
  /\ <>[](Watching /\ Trouble) => []<><<SendDown>>_alertVars
  /\ <>[](Watching /\ ~Trouble) => <>[](status = "clear")
=============================================================================
