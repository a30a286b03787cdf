----------------------------- MODULE ProxyConfig -----------------------------
(***************************************************************************)
(* A proxy on Server B (XRay or sing-box), the config.json that            *)
(* syncConfigJson rebuilds from the rows of its clients, and the restart   *)
(* that makes it effective: the unprivileged bot writes a trigger file, a  *)
(* systemd path unit sees it and runs a oneshot service, which restarts    *)
(* the proxy and then removes the file; the bot polls until it is gone.    *)
(* xray.service.ts and hysteria.service.ts are the same program here.      *)
(*                                                                         *)
(* A mutation writes its row, the file and the trigger in one turn of the  *)
(* event loop: there is no await between them.  Only the polling awaits,   *)
(* and the path unit runs beside the bot all along.                        *)
(***************************************************************************)
EXTENDS Naturals

CONSTANTS
  Clients,      \* clients of this proxy
  Handlers,     \* slots for concurrently running handlers
  Boot,         \* the slot of the startup sync
  MaxPolls,     \* polls of 300 ms before a handler gives up (10 s)
  Settings      \* the circumstances to consider, see below

(* A setting says which slots mutations use, whether a restart may outlast *)
(* the poll window or RestartSec (slow; nothing is assumed of systemd      *)
(* then), and which of "crash", "file" may happen.                         *)
ASSUME ProxyAssumption ==
  /\ Boot \in Handlers
  /\ MaxPolls \in Nat \ {0}
  /\ Settings \subseteq [handlers : SUBSET Handlers, slow : BOOLEAN,
                         faults : SUBSET {"crash", "file"}]

VARIABLES
  setting,      \* never changes
  row,          \* clients table: "none", "active", "suspended"
  file,         \* clients admitted by config.json
  running,      \* clients admitted by the proxy that is running
  trigger,      \* does the trigger file exist
  unit,         \* oneshot service: "idle", "starting", "started"
  bot,          \* "up", or "down" until systemd starts it again
  polls         \* polls handler p has left, 0 when it is not running

vars == <<setting, row, file, running, trigger, unit, bot, polls>>

Slow   == setting.slow
Faults == setting.faults

TypeOK ==
  /\ setting \in Settings
  /\ row \in [Clients -> {"none", "active", "suspended"}]
  /\ file \in SUBSET Clients
  /\ running \in SUBSET Clients
  /\ trigger \in BOOLEAN
  /\ unit \in {"idle", "starting", "started"}
  /\ bot \in {"up", "down"}
  /\ polls \in [Handlers -> 0..MaxPolls]

\* getActiveClients, on rows r
Active(r) == {c \in Clients : r[c] = "active"}

Idle(p) == polls[p] = 0

Init ==
  /\ setting \in Settings
  /\ row = [c \in Clients |-> "none"]
  /\ file = {} /\ running = {}
  /\ trigger = FALSE /\ unit = "idle"
  /\ bot = "down"
  /\ polls = [p \in Handlers |-> 0]

-----------------------------------------------------------------------------
(* The bot.                                                                *)

\* Mutant: the sync rebuilds the file and forgets the restart.
Sync_NoTrigger(p, r) ==
  /\ file' = Active(r)
  /\ polls' = [polls EXCEPT ![p] = MaxPolls]
  /\ UNCHANGED <<trigger, running, unit>>

\* Mutant: the sync adds new clients, and leaves those there are.
Sync_Append(p, r) ==
  /\ file' = file \cup Active(r)
  /\ trigger' = TRUE
  /\ polls' = [polls EXCEPT ![p] = MaxPolls]
  /\ UNCHANGED <<running, unit>>

\* syncConfigAndRestart up to its first await, with rows r.
Sync(p, r) ==
  /\ file' = Active(r)
  /\ trigger' = TRUE
  /\ polls' = [polls EXCEPT ![p] = MaxPolls]
  /\ UNCHANGED <<running, unit>>

\* create, suspend and resume, delete: what a mutation makes of one row.  A
\* suspend or resume of a client that is so already writes it again.
Changed(c) ==
  {[row EXCEPT ![c] = s] :
     s \in IF row[c] = "none" THEN {"active"}
           ELSE {"none", "active", "suspended"}}

Mutate(p, c) ==
  /\ bot = "up" /\ p \in setting.handlers /\ Idle(p)
  /\ \E r \in Changed(c) : row' = r /\ Sync(p, r)
  /\ UNCHANGED <<setting, bot>>

\* The configuration cannot be read or written, or has no inbound of ours:
\* the handler throws, with its row already written.
SyncThrows(p, c) ==
  /\ "file" \in Faults
  /\ bot = "up" /\ p \in setting.handlers /\ Idle(p)
  /\ row' \in Changed(c)
  /\ UNCHANGED <<setting, file, running, trigger, unit, bot, polls>>

\* Mutant: giving up after the window is forgotten.
Poll_Forever(p) ==
  /\ bot = "up" /\ ~Idle(p)
  /\ polls' = [polls EXCEPT ![p] = IF ~trigger THEN 0 ELSE @]
  /\ UNCHANGED <<setting, row, file, running, trigger, unit, bot>>

\* Mutant: the loop does not look at its deadline.
Poll_NoDeadline(p) ==
  /\ bot = "up"
  /\ trigger /\ polls[p] = 1 => Slow
  /\ polls' = [polls EXCEPT ![p] = IF ~trigger THEN 0 ELSE @ - 1]
  /\ UNCHANGED <<setting, row, file, running, trigger, unit, bot>>

\* 300 ms later: done when the file is gone, given up after the last poll.
Poll(p) ==
  /\ bot = "up" /\ ~Idle(p)
  /\ trigger /\ polls[p] = 1 => Slow
  /\ polls' = [polls EXCEPT ![p] = IF ~trigger THEN 0 ELSE @ - 1]
  /\ UNCHANGED <<setting, row, file, running, trigger, unit, bot>>

\* The process dies while it waits ...
Die ==
  /\ bot' = "down"
  /\ polls' = [p \in Handlers |-> 0]

Crash ==
  /\ "crash" \in Faults
  /\ bot = "up"
  /\ Die
  /\ UNCHANGED <<setting, row, file, running, trigger, unit>>

\* ... or within a turn: after the row, or after the row and the file.
CrashInTurn(c) ==
  /\ \E p \in setting.handlers : Idle(p)
  /\ "crash" \in Faults
  /\ bot = "up"
  /\ row' \in Changed(c)
  /\ file' \in {file, Active(row')}
  /\ Die
  /\ UNCHANGED <<setting, running, trigger, unit>>

\* Mutant: no sync at startup.
Start_NoSync ==
  /\ bot = "down"
  /\ Slow \/ (unit = "idle" /\ ~trigger)
  /\ bot' = "up"
  /\ UNCHANGED <<setting, row, file, running, trigger, unit, polls>>

\* index.ts syncs from the rows before it serves anything.
Start ==
  /\ bot = "down"
  /\ Slow \/ (unit = "idle" /\ ~trigger)
  /\ bot' = "up"
  /\ Sync(Boot, row)
  /\ UNCHANGED <<setting, row>>

-----------------------------------------------------------------------------
(* systemd: xray-restart.path and xray-restart.service, or singbox-restart. *)

\* PathExists: checked when the file appears and whenever the service ends.
UnitStart ==
  /\ trigger /\ unit = "idle"
  /\ unit' = "starting"
  /\ UNCHANGED <<setting, row, file, running, trigger, bot, polls>>

\* ExecStart: the new proxy has read the file as it is now.
UnitRestart ==
  /\ unit = "starting"
  /\ running' = file
  /\ unit' = "started"
  /\ UNCHANGED <<setting, row, file, trigger, bot, polls>>

\* ExecStartPost: rm -f of the trigger, whoever wrote it last.
UnitEnd ==
  /\ unit = "started"
  /\ trigger' = FALSE
  /\ unit' = "idle"
  /\ UNCHANGED <<setting, row, file, running, bot, polls>>

Unit == UnitStart \/ UnitRestart \/ UnitEnd

Next ==
  \/ \E p \in Handlers :
       \/ Poll(p)
       \/ \E c \in Clients : Mutate(p, c) \/ SyncThrows(p, c)
  \/ \E c \in Clients : CrashInTurn(c)
  \/ Crash \/ Start \/ Unit

Spec == Init /\ [][Next]_vars

(* Timers fire.  Unless Slow, systemd does its jobs, the one that starts   *)
(* the bot again included.                                                 *)
FairSpec ==
  /\ Spec
  /\ \A p \in Handlers : WF_vars(Poll(p))
  /\ WF_vars(~Slow /\ UnitStart) /\ WF_vars(~Slow /\ UnitRestart)
  /\ WF_vars(~Slow /\ UnitEnd) /\ WF_vars(~Slow /\ Start)

-----------------------------------------------------------------------------
(* "ensures config matches DB state after restarts, restores, or crashes   *)
(* mid-operation" (index.ts): whenever the bot serves, the file admits     *)
(* exactly the active clients, wherever a mutation was cut off before, as  *)
(* long as the file can be written.                                        *)
FileFollowsRows ==
  "file" \notin Faults /\ bot = "up" => file = Active(row)

(* A proxy that does not run the current file is about to be restarted: no *)
(* mutation's restart is lost (restartXray waits until the trigger is      *)
(* removed and takes that for the confirmation).                           *)
RestartPending ==
  file # running => trigger \/ unit = "starting" \/ bot = "down"

(* Mutations take turns, and systemd is within the poll window.            *)
InTurn == setting.handlers \subseteq {Boot} /\ ~Slow

(* Then it is so, wherever the bot dies.                                   *)
RestartPendingInTurn == InTurn => RestartPending

(* A client that is suspended, or deleted, and stays so is refused by the  *)
(* running proxy at last, through crashes and restarts of the bot.         *)
SuspendBites ==
  InTurn /\ "file" \notin Faults =>
    \A c \in Clients :
      row[c] # "active" ~> c \notin running \/ row[c] = "active"

(* "Restart not confirmed within 10s": a handler never waits for systemd   *)
(* for ever, whatever systemd does.                                        *)
PollEnds == \A p \in Handlers : polls[p] > 0 ~> polls[p] = 0

-----------------------------------------------------------------------------
(* The strengthening behind RestartPendingInTurn: while the unit works,    *)
(* the trigger is there and the handler that wrote it, or the next start,  *)
(* still waits for it, so nobody has touched the file since the new proxy  *)
(* read it.                                                                *)
Confirming ==
  /\ unit # "idle" => trigger
  /\ unit = "started" /\ bot = "up" => file = running
  /\ trigger /\ bot = "up" => polls[Boot] > 0
=============================================================================
