------------------------------ MODULE Updates ------------------------------
(***************************************************************************)
(* The updates worker (workers/updates.worker.ts) for one server: the list *)
(* of upgradable packages, the message cached under the list's hash in     *)
(* alert_state.context, and the cooldown they share with the fallback.     *)
(***************************************************************************)
EXTENDS Integers

CONSTANTS
  Lists,       \* lists of packages that may be pending
  UCooldown    \* cooldown of updates_pending, in ticks

ASSUME UpdatesAssumption == UCooldown \in Nat

VARIABLES
  pending,    \* the packages that may be upgraded now
  listed,     \* what this run was told, or NoRun
  stage,      \* where the run awaits
  context,    \* whose message is cached: a list, "fallback" or "nothing"
  ustatus,    \* the row of alert_state
  uage,       \* ticks since its fired_at
  outgoing,   \* what the message being sent is about
  switchedOn, \* is updates_pending enabled
  updatesUp   \* is the process running

rowVars     == <<context, ustatus, uage>>
updatesVars == <<pending, listed, stage, rowVars, outgoing, switchedOn, updatesUp>>

Fallback == "fallback"
Nothing  == "nothing"

UpdatesTypeOK ==
  /\ pending \in Lists \cup {Nothing} /\ listed \in Lists \cup {Nothing}
  /\ stage \in {"idle", "list", "status", "changelogs", "send"}
  /\ context \in Lists \cup {Fallback, Nothing} /\ ustatus \in {"clear", "fired"}
  /\ uage \in 0..UCooldown /\ outgoing \in Lists \cup {Fallback, Nothing}
  /\ switchedOn \in BOOLEAN /\ updatesUp \in BOOLEAN

-----------------------------------------------------------------------------

UMayFire == ustatus = "clear" \/ uage >= UCooldown

\* upsertAlertState(..., "fired") with the message about what, which is sent
\* or only kept; fired_at is renewed either way.
Record(what, send) ==
  /\ ustatus' = "fired" /\ uage' = 0 /\ context' = what
  /\ IF send THEN stage' = "send" /\ outgoing' = what
     ELSE stage' = "idle" /\ UNCHANGED outgoing

At(s)  == updatesUp /\ stage = s
Ends   == stage' = "idle" /\ UNCHANGED <<rowVars, outgoing>>
Outside == UNCHANGED <<pending, switchedOn, updatesUp>>

BeginRun ==
  /\ At("idle") /\ switchedOn
  /\ stage' = "list" /\ UNCHANGED <<rowVars, listed, outgoing>> /\ Outside

\* apt list failed: the counts of getStatus serve, unless they fail as well.
ListFails ==
  /\ At("list")
  /\ stage' = "status" /\ UNCHANGED <<rowVars, listed, outgoing>> /\ Outside

FallbackRun ==
  /\ At("status")
  /\ \/ pending # Nothing /\ UMayFire /\ Record(Fallback, TRUE)
     \/ Ends
  /\ UNCHANGED listed /\ Outside

\* Mutant: the row is renewed before the cooldown is looked at.
Unchanged_Renews ==
  /\ IF UMayFire THEN Record(context, TRUE) ELSE Record(context, FALSE)

\* The list is the one whose message is cached.
Unchanged == IF UMayFire THEN Record(context, TRUE) ELSE Ends

\* apt list answered.
ListDone ==
  /\ At("list") /\ listed' = pending
  /\ \/ /\ pending = Nothing
        /\ ustatus' = "clear" /\ stage' = "idle" /\ UNCHANGED <<context, uage, outgoing>>
     \/ pending # Nothing /\ context = pending /\ Unchanged
     \/ /\ pending # Nothing /\ context # pending
        /\ stage' = "changelogs" /\ UNCHANGED <<rowVars, outgoing>>
  /\ Outside

\* Changelogs and summaries are there, or are done without.
Formatted ==
  /\ At("changelogs") /\ Record(listed, UMayFire)
  /\ UNCHANGED listed /\ Outside

USend ==
  /\ At("send") /\ stage' = "idle" /\ outgoing' = Nothing
  /\ UNCHANGED <<rowVars, listed>> /\ Outside

UTick ==
  /\ uage' = IF uage < UCooldown THEN uage + 1 ELSE uage
  /\ UNCHANGED <<pending, listed, stage, context, ustatus, outgoing, switchedOn, updatesUp>>

\* Packages appear and are installed; the alert is switched.
AptChanges ==
  /\ \/ pending' \in Lists \cup {Nothing} /\ UNCHANGED switchedOn
     \/ switchedOn' = ~switchedOn /\ UNCHANGED pending
  /\ UNCHANGED <<listed, stage, rowVars, outgoing, updatesUp>>

URestart ==
  /\ updatesUp' = ~updatesUp
  /\ stage' = "idle" /\ outgoing' = Nothing
  /\ UNCHANGED <<pending, listed, rowVars, switchedOn>>

UpdatesInit ==
  /\ pending = Nothing /\ listed = Nothing /\ stage = "idle"
  /\ context = Nothing /\ ustatus = "clear" /\ uage = 0 /\ outgoing = Nothing
  /\ switchedOn = TRUE /\ updatesUp = TRUE

Run == BeginRun \/ ListFails \/ FallbackRun \/ ListDone \/ Formatted \/ USend

UpdatesNext == Run \/ UTick \/ AptChanges \/ URestart

UpdatesSpec == UpdatesInit /\ [][UpdatesNext]_updatesVars

-----------------------------------------------------------------------------

\* As long as the same packages are pending the administrator is told again
\* and again, whichever runs had to fall back and whatever message a dead
\* process left unsent: what is cached may delay a message and never ends them.
UpdatesTold ==
  \A p \in Lists :
    <>[](updatesUp /\ switchedOn /\ pending = p) => []<><<USend>>_updatesVars
=============================================================================
