----------------------------- MODULE Maintenance -----------------------------
(***************************************************************************)
(* Apt updates and reboots of one server on request.  The row of a job in  *)
(* maintenance_jobs mirrors a file that a root helper writes on the server *)
(* itself; the worker copies one to the other every three seconds, and     *)
(* after a restart of the bot reconcileOnStartup does.  A boot id tells a  *)
(* reboot that happened from one that is still to come.                    *)
(*                                                                         *)
(* Server "b" is the bot's own host: the job is started through a trigger  *)
(* file, a probe is one synchronous turn, and a reboot takes the bot with  *)
(* it.  Server "a" is reached over SSH: arming and probing are awaited,    *)
(* and timer ticks overlap while a probe is out.  A tick goes through the  *)
(* active jobs of both servers in the order they were asked for, with rows *)
(* it read once: behind a job of "a", one of "b" waits for its probe too.  *)
(***************************************************************************)
EXTENDS Naturals, FiniteSets

CONSTANTS
  Jobs,         \* job identities
  Action,       \* what each job asks for
  Ticks,        \* slots for overlapping worker ticks
  Rec,          \* the slot the startup reconcile uses
  None,
  Settings      \* the circumstances to consider, see below

(* A setting says which server the jobs are for, which jobs and how many   *)
(* overlapping ticks there are, how many reboots nobody asked for, whether *)
(* a healthy helper or server may miss the worker's deadlines (late),      *)
(* whether a job of "b" may find itself behind one of "a" (behind), and    *)
(* which of "kill", "crash", "ssh" and "throw" may happen.                 *)
ASSUME MaintenanceAssumption ==
  /\ Action \in [Jobs -> {"update", "update-reboot", "reboot"}]
  /\ Rec \in Ticks
  /\ None \notin Jobs
  /\ IsFiniteSet(Jobs) /\ IsFiniteSet(Ticks)
  /\ Settings \subseteq
       [server : {"a", "b"}, jobs : SUBSET Jobs, ticks : SUBSET Ticks,
        reboots : Nat, late : BOOLEAN, behind : BOOLEAN,
        faults : SUBSET {"kill", "crash", "ssh", "throw"}]

VARIABLES
  setting,      \* never changes
  row,          \* status column of each job, "none" before its insert
  rboot,        \* its boot_id column
  stamped,      \* does it have a reboot_at
  aged,         \* was it created more than STALL_QUEUED_MS ago
  overdue,      \* is its reboot_at older than REBOOT_DEADLINE_MS
  arming,       \* jobs whose startJob awaits systemd-run
  bot,          \* "down", "reconcile", "up"
  dead,         \* deadUnitTicks
  announced,    \* the announced map, "none" where it has no entry
  wpc,          \* a tick's await: "idle", "asked", "answered", "tell"
  wjob, wrow,   \* its job and the row it read
  wprobe,       \* the answer it got
  armed,        \* jobs named by a trigger file
  helper,       \* the root helper of each job
  file, fboot,  \* status and boot id in jobs/<id>.json
  up, boot,     \* is the server up, and its current boot id
  runs, told    \* history: runs past the lock, outcomes announced

rows   == <<row, rboot, stamped>>
clock  == <<aged, overdue, setting>>
memory == <<arming, dead, announced>>
work   == <<wpc, wjob, wrow, wprobe>>
host   == <<armed, helper, file, fboot, up, boot, runs>>
vars   == <<rows, clock, memory, work, bot, host, told>>

Server  == setting.server
Late    == setting.late
Faults  == setting.faults
\* Each job reboots once at most.
MaxBoot == Cardinality(setting.jobs) + setting.reboots

Live     == {"queued", "running", "rebooting"}
Terminal == {"succeeded", "failed", "unknown"}
Alive    == {"eaten", "work", "sleep"}

\* A row as a tick reads it, and what a probe finds out.
Rows   == [status : Live, boot : 0..MaxBoot, stamped : BOOLEAN]
Probes == [reached : BOOLEAN,
           file : {"none", "running", "rebooting", "succeeded", "failed"},
           fboot : 0..MaxBoot, boot : 0..MaxBoot, alive : BOOLEAN]

NoRow   == [status |-> "queued", boot |-> 0, stamped |-> FALSE]
NoProbe == [reached |-> FALSE, file |-> "none", fboot |-> 0, boot |-> 0,
            alive |-> FALSE]

TypeOK ==
  /\ setting \in Settings
  /\ row \in [Jobs -> {"none"} \cup Live \cup Terminal]
  /\ rboot \in [Jobs -> 0..MaxBoot]
  /\ stamped \in [Jobs -> BOOLEAN]
  /\ aged \in [Jobs -> BOOLEAN] /\ overdue \in [Jobs -> BOOLEAN]
  /\ arming \in SUBSET Jobs
  /\ bot \in {"down", "reconcile", "up"}
  /\ dead \in [Jobs -> 0..2]
  /\ announced \in [Jobs -> {"none"} \cup Live \cup Terminal]
  /\ wpc \in [Ticks -> {"idle", "asked", "answered", "tell"}]
  /\ wjob \in [Ticks -> Jobs \cup {None}]
  /\ wrow \in [Ticks -> Rows] /\ wprobe \in [Ticks -> Probes]
  /\ armed \in SUBSET Jobs
  /\ helper \in [Jobs -> {"none", "dead", "done", "rebooted"} \cup Alive]
  /\ file \in [Jobs -> {"none", "running", "rebooting", "succeeded", "failed"}]
  /\ fboot \in [Jobs -> 0..MaxBoot]
  /\ up \in BOOLEAN /\ boot \in 0..MaxBoot
  /\ runs \in [Jobs -> Nat] /\ told \in [Jobs -> 0..2]

Init ==
  /\ setting \in Settings
  /\ row = [j \in Jobs |-> "none"]
  /\ rboot = [j \in Jobs |-> 0]
  /\ stamped = [j \in Jobs |-> FALSE]
  /\ aged = [j \in Jobs |-> FALSE] /\ overdue = [j \in Jobs |-> FALSE]
  /\ arming = {} /\ bot = "down"
  /\ dead = [j \in Jobs |-> 0]
  /\ announced = [j \in Jobs |-> "none"]
  /\ wpc = [w \in Ticks |-> "idle"]
  /\ wjob = [w \in Ticks |-> None]
  /\ wrow = [w \in Ticks |-> NoRow] /\ wprobe = [w \in Ticks |-> NoProbe]
  /\ armed = {}
  /\ helper = [j \in Jobs |-> "none"]
  /\ file = [j \in Jobs |-> "none"] /\ fboot = [j \in Jobs |-> 0]
  /\ up = TRUE /\ boot = 0
  /\ runs = [j \in Jobs |-> 0] /\ told = [j \in Jobs |-> 0]

Active == {j \in Jobs : row[j] \in Live}

-----------------------------------------------------------------------------
(* startJob.                                                               *)

\* Mutant: a job that reboots is not taken for an active one.
StartJob_Rebooting(j) ==
  /\ j \in setting.jobs /\ bot # "down" /\ row[j] = "none"
  /\ \A k \in Jobs : row[k] \notin {"queued", "running"}
  /\ row' = [row EXCEPT ![j] = "queued"]
  /\ IF Server = "b"
     THEN /\ armed' = {k \in armed : Action[k] # Action[j]} \cup {j}
          /\ UNCHANGED arming
     ELSE /\ arming' = arming \cup {j}
          /\ UNCHANGED armed
  /\ UNCHANGED <<rboot, stamped, clock, dead, announced, work, bot,
                 helper, file, fboot, up, boot, runs, told>>

\* The check and the unique index idx_maint_active, then the row; on b the
\* trigger follows in the same turn, one file per action.
StartJob(j) ==
  /\ j \in setting.jobs /\ bot # "down" /\ row[j] = "none"
  /\ Active = {}
  /\ row' = [row EXCEPT ![j] = "queued"]
  /\ IF Server = "b"
     THEN /\ armed' = {k \in armed : Action[k] # Action[j]} \cup {j}
          /\ UNCHANGED arming
     ELSE /\ arming' = arming \cup {j}
          /\ UNCHANGED armed
  /\ UNCHANGED <<rboot, stamped, clock, dead, announced, work, bot,
                 helper, file, fboot, up, boot, runs, told>>

\* systemd-run on a starts the unit ...
ArmRun(j) ==
  /\ j \in arming /\ helper[j] = "none" /\ up
  /\ helper' = [helper EXCEPT ![j] = "eaten"]
  /\ UNCHANGED <<rows, clock, memory, work, bot, armed, file, fboot, up,
                 boot, runs, told>>

\* ... and startJob hears of it, or of a timeout, or of no connection.
ArmOk(j) ==
  /\ j \in arming /\ helper[j] # "none"
  /\ arming' = arming \ {j}
  /\ UNCHANGED <<rows, clock, dead, announced, work, bot, host, told>>

ArmFail(j) ==
  /\ j \in arming
  /\ "ssh" \in Faults \/ (helper[j] = "none" /\ ~up)
  /\ arming' = arming \ {j}
  /\ row' = [row EXCEPT ![j] = "failed"]
  /\ UNCHANGED <<rboot, stamped, clock, dead, announced, work, bot, host,
                 told>>

-----------------------------------------------------------------------------
(* vpn-maintenance, the root helper, on the server.                        *)

\* A helper that holds the lock.
Locked == \E k \in Jobs : helper[k] \in {"work", "sleep"}

WriteState(j, s) ==
  /\ file' = [file EXCEPT ![j] = s]
  /\ fboot' = [fboot EXCEPT ![j] = boot]

HelperOnly == UNCHANGED <<rows, clock, memory, work, bot, up, boot, told>>

\* Mutant: the trigger is removed by whoever cleans up, not first.
HelperStart_KeepTrigger(j) ==
  /\ up /\ j \in armed
  /\ \A k \in Jobs : Action[k] = Action[j] => helper[k] \notin Alive
  /\ helper' = [helper EXCEPT ![j] = "eaten"]
  /\ UNCHANGED <<armed, file, fboot, runs>>
  /\ HelperOnly

\* The path unit of the action fires; the helper reads the id and eats the
\* trigger first.
HelperStart(j) ==
  /\ up /\ j \in armed
  /\ \A k \in Jobs : Action[k] = Action[j] => helper[k] \notin Alive
  /\ armed' = armed \ {j}
  /\ helper' = [helper EXCEPT ![j] = "eaten"]
  /\ UNCHANGED <<file, fboot, runs>>
  /\ HelperOnly

\* flock -n fails: another job is at work.  (The replay guard before it
\* ends a helper whose job already has an outcome.)
HelperBusy(j) ==
  /\ helper[j] = "eaten" /\ file[j] \notin Terminal /\ Locked
  /\ helper' = [helper EXCEPT ![j] = "done"]
  /\ WriteState(j, "failed")
  /\ UNCHANGED <<armed, runs>>
  /\ HelperOnly

HelperLock(j) ==
  /\ helper[j] = "eaten" /\ file[j] \notin Terminal /\ ~Locked
  /\ helper' = [helper EXCEPT ![j] = "work"]
  /\ runs' = [runs EXCEPT ![j] = @ + 1]
  /\ UNCHANGED <<armed, file, fboot>>
  /\ HelperOnly

\* The apt phases write their progress ...
HelperProgress(j) ==
  /\ helper[j] = "work" /\ Action[j] # "reboot" /\ file[j] = "none"
  /\ WriteState(j, "running")
  /\ UNCHANGED <<armed, helper, runs>>
  /\ HelperOnly

\* ... and end the job, unless a reboot is asked for or required.
HelperEnd(j) ==
  /\ helper[j] = "work" /\ file[j] = "running"
  /\ \/ WriteState(j, "failed")
     \/ WriteState(j, "succeeded")
  /\ helper' = [helper EXCEPT ![j] = "done"]
  /\ UNCHANGED <<armed, runs>>
  /\ HelperOnly

HelperSleep(j) ==
  /\ helper[j] = "work"
  /\ \/ Action[j] = "reboot"
     \/ Action[j] = "update-reboot" /\ file[j] = "running"
  /\ WriteState(j, "rebooting")
  /\ helper' = [helper EXCEPT ![j] = "sleep"]
  /\ UNCHANGED <<armed, runs>>
  /\ HelperOnly

-----------------------------------------------------------------------------
(* The server, the process and the clock.                                  *)

\* The server goes down with everything that runs on it; tmpfs is lost, the
\* job files are not.  j is the job that asked for it, if any.
Down(j) ==
  /\ up' = FALSE
  /\ armed' = {}
  /\ helper' = [k \in Jobs |-> CASE k = j -> "rebooted"
                                 [] k # j /\ helper[k] \in Alive -> "dead"
                                 [] OTHER -> helper[k]]
  /\ UNCHANGED <<file, fboot, boot, runs>>

\* The process is gone: nothing of its memory is left.
Forget ==
  /\ bot' = "down"
  /\ arming' = {}
  /\ dead' = [j \in Jobs |-> 0]
  /\ announced' = [j \in Jobs |-> "none"]
  /\ wpc' = [w \in Ticks |-> "idle"]
  /\ wjob' = [w \in Ticks |-> None]
  /\ wrow' = [w \in Ticks |-> NoRow]
  /\ wprobe' = [w \in Ticks |-> NoProbe]

Reboot(j) ==
  /\ up
  /\ Down(j)
  /\ IF Server = "b" THEN Forget ELSE UNCHANGED <<bot, memory, work>>
  /\ UNCHANGED <<rows, clock, told>>

HelperReboot(j) == helper[j] = "sleep" /\ Reboot(j)

\* At most setting.reboots reboots nobody asked for.
UnplannedReboot ==
  /\ boot < setting.reboots + Cardinality({j \in Jobs : helper[j] = "rebooted"})
  /\ Reboot(None)

Boot ==
  /\ ~up
  /\ up' = TRUE /\ boot' = boot + 1
  /\ UNCHANGED <<rows, clock, memory, work, bot, armed, helper, file, fboot,
                 runs, told>>

\* SIGKILL, the systemd timeout or the OOM killer.
Kill(j) ==
  /\ "kill" \in Faults /\ helper[j] \in Alive
  /\ helper' = [helper EXCEPT ![j] = "dead"]
  /\ UNCHANGED <<rows, clock, memory, work, bot, armed, file, fboot, up,
                 boot, runs, told>>

Crash ==
  /\ "crash" \in Faults /\ bot # "down"
  /\ Forget
  /\ UNCHANGED <<rows, clock, host, told>>

\* A minute has passed since the request.  Unless Late, a helper that is
\* going to run has written its file by then, and older answers are judged.
Age(j) ==
  /\ row[j] # "none" /\ ~aged[j]
  /\ ~Late => \/ helper[j] = "dead"
              \/ helper[j] = "none" /\ j \notin arming \cup armed
              \/ /\ file[j] # "none"
                 /\ \A w \in Ticks :
                      wpc[w] = "answered" => wprobe[w].file # "none"
  /\ aged' = [aged EXCEPT ![j] = TRUE]
  /\ UNCHANGED <<rows, overdue, setting, memory, work, bot, host, told>>

\* Ten minutes have passed since the row became rebooting.  Unless Late, a
\* server that is going to come back has done so by then.
Overrun(j) ==
  /\ stamped[j] /\ ~overdue[j]
  /\ ~Late => up /\ helper[j] = "dead"
  /\ overdue' = [overdue EXCEPT ![j] = TRUE]
  /\ UNCHANGED <<rows, aged, setting, memory, work, bot, host, told>>

-----------------------------------------------------------------------------
(* tickJob: what one tick makes of the row it read (r) and of the answer   *)
(* it got (p).  The row may have changed since it was read.                *)

ReadRow(j) == [status |-> row[j], boot |-> rboot[j], stamped |-> stamped[j]]

\* The unit: one per job on a, one per action on b.
UnitAlive(j) ==
  IF Server = "a" THEN helper[j] \in Alive
  ELSE \E k \in Jobs : Action[k] = Action[j] /\ helper[k] \in Alive

Probe(j) == [reached |-> TRUE, file |-> file[j], fboot |-> fboot[j],
             boot |-> boot, alive |-> UnitAlive(j)]

\* The tick ends.
Rest(w) ==
  /\ wpc' = [wpc EXCEPT ![w] = "idle"]
  /\ wjob' = [wjob EXCEPT ![w] = None]
  /\ wrow' = [wrow EXCEPT ![w] = NoRow]
  /\ wprobe' = [wprobe EXCEPT ![w] = NoProbe]

\* Tell the operator of an outcome, which takes a while.  The count stops
\* at twice.
Tell(w, j) ==
  /\ told' = [told EXCEPT ![j] = IF @ = 2 THEN 2 ELSE @ + 1]
  /\ wpc' = [wpc EXCEPT ![w] = "tell"]
  /\ wjob' = [wjob EXCEPT ![w] = j]
  /\ wrow' = [wrow EXCEPT ![w] = NoRow]
  /\ wprobe' = [wprobe EXCEPT ![w] = NoProbe]

\* announceTransition, for a job whose status has become s.
Announce(w, j, s) ==
  IF announced[j] = s THEN Rest(w) /\ UNCHANGED <<announced, told>>
  ELSE /\ announced' = [announced EXCEPT ![j] = s]
       /\ IF s \in Terminal THEN Tell(w, j) ELSE Rest(w) /\ UNCHANGED told

Settle(w, j, s) ==
  /\ row' = [row EXCEPT ![j] = s]
  /\ Announce(w, j, s)

\* Mutant: a server that answers counts as a server that came back.
CameBack_AnyBoot(w, j, r, p) ==
  /\ r.status = "rebooting"
  /\ p.reached
  /\ Settle(w, j, "succeeded")
  /\ UNCHANGED <<rboot, stamped, dead>>

\* The boot id is another one: the reboot succeeded.
CameBack(w, j, r, p) ==
  /\ r.status = "rebooting"
  /\ p.reached /\ p.boot # r.boot
  /\ Settle(w, j, "succeeded")
  /\ UNCHANGED <<rboot, stamped, dead>>

\* Mutant: no deadline, a server that has not come back has failed.
NeverBack_NoDeadline(w, j, r, p) ==
  /\ r.status = "rebooting"
  /\ ~p.reached \/ p.boot = r.boot
  /\ Settle(w, j, "failed")
  /\ UNCHANGED <<rboot, stamped, dead>>

\* "The server did not come back within 10 minutes"
NeverBack(w, j, r, p) ==
  /\ r.status = "rebooting"
  /\ ~p.reached \/ p.boot = r.boot
  /\ r.stamped /\ overdue[j]
  /\ Settle(w, j, "failed")
  /\ UNCHANGED <<rboot, stamped, dead>>

\* "The maintenance helper never started"
NeverStarted(w, j, r, p) ==
  /\ r.status = "queued"
  /\ p.reached /\ p.file = "none" /\ aged[j]
  /\ Settle(w, j, "failed")
  /\ UNCHANGED <<rboot, stamped, dead>>

\* Nothing to judge yet.
NoVerdict(w, j, r, p) ==
  /\ \/ /\ r.status = "rebooting"
        /\ ~p.reached \/ p.boot = r.boot
        /\ ~(r.stamped /\ overdue[j])
     \/ r.status # "rebooting" /\ ~p.reached
     \/ /\ r.status # "rebooting" /\ p.reached /\ p.file = "none"
        /\ ~(r.status = "queued" /\ aged[j])
  /\ Rest(w)
  /\ UNCHANGED <<rows, dead, announced, told>>

Mirrors(r, p) == r.status # "rebooting" /\ p.reached /\ p.file # "none"

\* The unique index refuses to make a job active next to another one.
IndexRefuses(j, s) == s \in Live /\ Active \ {j} # {}

MirrorThrows(w, j, r, p) ==
  /\ Mirrors(r, p) /\ IndexRefuses(j, p.file)
  /\ Rest(w)
  /\ UNCHANGED <<rows, dead, announced, told>>

\* applyAgentState, and the stamp at the first sight of "rebooting".
MirrorRow(j, p) ==
  /\ rboot' = [rboot EXCEPT ![j] = p.fboot]
  /\ stamped' = [stamped EXCEPT ![j] = @ \/ p.file = "rebooting"]

\* Mutant: a frozen state file is taken for progress.
Stalled_Never(p) == FALSE

Stalled(p) == p.file = "running" /\ ~p.alive

Mirror(w, j, r, p) ==
  /\ Mirrors(r, p) /\ ~IndexRefuses(j, p.file)
  /\ MirrorRow(j, p)
  /\ IF ~Stalled(p)
     THEN dead' = [dead EXCEPT ![j] = 0] /\ Settle(w, j, p.file)
     ELSE \/ /\ dead[j] = 0
             /\ dead' = [dead EXCEPT ![j] = 1]
             /\ Settle(w, j, p.file)
          \/ /\ dead[j] > 0
             /\ dead' = [dead EXCEPT ![j] = 2]
             /\ Settle(w, j, "failed")

Verdict(w, j, r, p) ==
  \/ CameBack(w, j, r, p) \/ NeverBack(w, j, r, p)
  \/ NeverStarted(w, j, r, p) \/ NoVerdict(w, j, r, p)
  \/ MirrorThrows(w, j, r, p) \/ Mirror(w, j, r, p)

-----------------------------------------------------------------------------
(* The worker's timer.                                                     *)

\* On b a tick is one turn up to the announcement, if no job of a comes first.
LocalTick(w) ==
  /\ Server = "b" /\ bot = "up" /\ w \in setting.ticks /\ wpc[w] = "idle"
  /\ \E j \in Active : Verdict(w, j, ReadRow(j), Probe(j))
  /\ UNCHANGED <<clock, arming, bot, host>>

Ask(w, j) ==
  /\ wpc' = [wpc EXCEPT ![w] = "asked"]
  /\ wjob' = [wjob EXCEPT ![w] = j]
  /\ wrow' = [wrow EXCEPT ![w] = ReadRow(j)]
  /\ UNCHANGED wprobe

\* An older job of a comes first: its probe is awaited with the row of b's job
\* read before, and then that job has its turn ...
BehindTick(w) ==
  /\ Server = "b" /\ setting.behind
  /\ bot = "up" /\ w \in setting.ticks /\ wpc[w] = "idle"
  /\ \E j \in Active : Ask(w, j)
  /\ UNCHANGED <<rows, clock, memory, bot, host, told>>

BehindJudge(w) ==
  /\ Server = "b" /\ bot = "up" /\ wpc[w] = "asked"
  /\ Verdict(w, wjob[w], wrow[w], Probe(wjob[w]))
  /\ UNCHANGED <<clock, arming, bot, host>>

\* ... or has none: the job before it threw, which ends the tick.
Cut(w) ==
  /\ "throw" \in Faults
  /\ Server = "b" /\ bot = "up" /\ wpc[w] = "asked"
  /\ Rest(w)
  /\ UNCHANGED <<rows, clock, memory, bot, host, told>>

\* Mutant: the tick asks after finished jobs as well.
RemoteTick_All(w) ==
  /\ Server = "a" /\ bot = "up" /\ w \in setting.ticks /\ wpc[w] = "idle"
  /\ \E j \in Jobs : row[j] # "none" /\ Ask(w, j)
  /\ UNCHANGED <<rows, clock, memory, bot, host, told>>

RemoteTick(w) ==
  /\ Server = "a" /\ bot = "up" /\ w \in setting.ticks /\ wpc[w] = "idle"
  /\ \E j \in Active : Ask(w, j)
  /\ UNCHANGED <<rows, clock, memory, bot, host, told>>

\* The probe runs on a, in no particular order with other probes ...
Answer(w) ==
  /\ Server = "a" /\ wpc[w] = "asked" /\ up
  /\ wpc' = [wpc EXCEPT ![w] = "answered"]
  /\ wprobe' = [wprobe EXCEPT ![w] = Probe(wjob[w])]
  /\ UNCHANGED <<rows, clock, memory, wjob, wrow, bot, host, told>>

\* ... or ends in an error.
NoAnswer(w) ==
  /\ Server = "a" /\ wpc[w] = "asked"
  /\ "ssh" \in Faults \/ ~up
  /\ wpc' = [wpc EXCEPT ![w] = "answered"]
  /\ UNCHANGED <<rows, clock, memory, wjob, wrow, wprobe, bot, host, told>>

Judge(w) ==
  /\ bot = "up" /\ wpc[w] = "answered"
  /\ Verdict(w, wjob[w], wrow[w], wprobe[w])
  /\ UNCHANGED <<clock, arming, bot, host>>

\* onTerminal is through: the job's entries are dropped.
Told(w) ==
  /\ bot = "up" /\ wpc[w] = "tell"
  /\ announced' = [announced EXCEPT ![wjob[w]] = "none"]
  /\ dead' = [dead EXCEPT ![wjob[w]] = 0]
  /\ Rest(w)
  /\ UNCHANGED <<rows, clock, arming, bot, host, told>>

-----------------------------------------------------------------------------
(* reconcileOnStartup, before the first tick.                              *)

\* The jobs that are still active count as announced; the timer starts.
Ready ==
  /\ bot' = "up"
  /\ announced' = [j \in Jobs |->
                     IF row[j] \in Live THEN row[j] ELSE announced[j]]

\* Mutant: any reboot interrupts a job that has no outcome yet.
Outcome_Interrupted(j, p) ==
  CASE ~p.reached                                     -> "leave"
    [] p.reached /\ p.file \in Terminal               -> p.file
    [] p.reached /\ p.file \in Live /\ p.boot # p.fboot -> "failed"
    [] p.reached /\ p.file = "none" /\ aged[j]        -> "unknown"
    [] OTHER                                          -> "leave"

\* What the decision table makes of an answer, or "leave".
Outcome(j, p) ==
  CASE ~p.reached                                     -> "leave"
    [] p.reached /\ p.file \in Terminal               -> p.file
    [] p.reached /\ p.file = "rebooting" /\ p.boot # p.fboot -> "succeeded"
    [] p.reached /\ p.file = "running" /\ p.boot # p.fboot   -> "failed"
    [] p.reached /\ p.file = "none" /\ aged[j]        -> "unknown"
    [] OTHER                                          -> "leave"

\* Mutant: the outcome is told, and the row left as it is.
Resolve_RowUnwritten(j, p) ==
  \/ /\ Outcome(j, p) = "leave"
     /\ Rest(Rec) /\ Ready
     /\ UNCHANGED <<rows, told>>
  \/ /\ Outcome(j, p) # "leave"
     /\ announced' = [announced EXCEPT ![j] = Outcome(j, p)]
     /\ Tell(Rec, j)
     /\ bot' = "reconcile"
     /\ UNCHANGED rows

\* The job is left to the worker, or its outcome is recorded and told.
Resolve(j, p) ==
  \/ /\ Outcome(j, p) = "leave"
     /\ Rest(Rec) /\ Ready
     /\ UNCHANGED <<rows, told>>
  \/ /\ Outcome(j, p) # "leave"
     /\ row' = [row EXCEPT ![j] = Outcome(j, p)]
     /\ announced' = [announced EXCEPT ![j] = Outcome(j, p)]
     /\ rboot' = [rboot EXCEPT ![j] =
                    IF p.file \in Terminal THEN p.fboot ELSE @]
     /\ Tell(Rec, j)
     /\ bot' = "reconcile"
     /\ UNCHANGED stamped

BotStart ==
  /\ bot = "down"
  /\ Server = "b" => up
  /\ IF Active = {} THEN Ready /\ UNCHANGED <<rows, work, told>>
     ELSE \E j \in Active :
            \/ Server = "b" /\ Resolve(j, Probe(j))
            \/ /\ Server = "a"
               /\ bot' = "reconcile" /\ Ask(Rec, j)
               /\ UNCHANGED <<rows, announced, told>>
  /\ UNCHANGED <<clock, arming, dead, host>>

Reconcile ==
  /\ bot = "reconcile" /\ wpc[Rec] = "answered"
  /\ Resolve(wjob[Rec], wprobe[Rec])
  /\ UNCHANGED <<clock, arming, dead, host>>

Reconciled ==
  /\ bot = "reconcile" /\ wpc[Rec] = "tell"
  /\ Rest(Rec)
  /\ UNCHANGED rows /\ Ready
  /\ UNCHANGED <<clock, arming, dead, host, told>>

-----------------------------------------------------------------------------
Helper(j) ==
  \/ HelperStart(j) \/ HelperBusy(j) \/ HelperLock(j)
  \/ HelperProgress(j) \/ HelperEnd(j) \/ HelperSleep(j) \/ HelperReboot(j)

Worker(w) ==
  \/ LocalTick(w) \/ BehindTick(w) \/ BehindJudge(w)
  \/ RemoteTick(w) \/ Answer(w) \/ Judge(w) \/ Told(w)

Startup == BotStart \/ Reconcile \/ Reconciled

Next ==
  \/ \E j \in Jobs :
       \/ StartJob(j) \/ ArmRun(j) \/ ArmOk(j) \/ ArmFail(j)
       \/ Helper(j) \/ Kill(j) \/ Age(j) \/ Overrun(j)
  \/ \E w \in Ticks : Worker(w) \/ NoAnswer(w) \/ Cut(w)
  \/ Startup \/ UnplannedReboot \/ Boot \/ Crash

Spec == Init /\ [][Next]_vars

(* The timer ticks, time passes, apt ends, servers and the bot come back.  *)
FairSpec ==
  /\ Spec
  /\ WF_vars(Boot) /\ WF_vars(Startup)
  /\ \A j \in Jobs :
       /\ WF_vars(ArmRun(j)) /\ WF_vars(ArmOk(j) \/ ArmFail(j))
       /\ WF_vars(Helper(j)) /\ WF_vars(Age(j)) /\ WF_vars(Overrun(j))
  /\ \A w \in Ticks : WF_vars(Worker(w) \/ NoAnswer(w))

-----------------------------------------------------------------------------
(* "success" of a reboot job means the machine came back (reconcileOne):   *)
(* the table never says succeeded of a job whose helper did not finish, or *)
(* whose reboot has not happened.                                          *)
NoFalseSuccess ==
  \A j \in Jobs : row[j] = "succeeded" =>
    \/ file[j] = "succeeded"
    \/ file[j] = "rebooting" /\ fboot[j] # boot

(* The worker's own assumptions: deadlines that only strike what is lost,  *)
(* no lost command, and no tick that starts before the last one ended when *)
(* a probe of a may be awaited.                                            *)
Punctual ==
  /\ ~Late /\ "ssh" \notin Faults
  /\ (Server = "b" /\ ~setting.behind) \/ Cardinality(setting.ticks) = 1

(* A reboot that was asked for and carried out is never recorded as a      *)
(* failure, though it kills the helper, its unit and on b the bot, and may *)
(* fall between any two probes.                                            *)
PlannedRebootSucceeds ==
  Punctual => \A j \in Jobs :
    helper[j] = "rebooted" => row[j] \notin {"failed", "unknown"}

(* "A helper crash must never leave a file behind that would re-arm the    *)
(* path unit" (vpn-maintenance): no job gets past the lock twice, whatever *)
(* is killed and rebooted.                                                 *)
RunsOnce == \A j \in Jobs : runs[j] <= 1

(* The table, where the worker can rely on its assumptions.                *)
Entries == IF Punctual THEN row ELSE [j \in Jobs |-> "none"]

Ledger == INSTANCE JobLedger WITH status <- Entries

(* The rows implement the ledger of jobs: one active job, phases in order, *)
(* outcomes final.                                                         *)
LedgerSpec == Ledger!Spec

(* "Announce a status change exactly once per job" (announceTransition):   *)
(* no outcome is told twice ...                                            *)
ToldOnce == \A j \in Jobs : told[j] <= 1

(* ... which holds as long as ticks take turns, through crashes, reboots   *)
(* and the startup reconcile.                                              *)
ToldOnceInTurn == Punctual => ToldOnce

(* Every job ends in the table, though helpers are killed and the server   *)
(* reboots under them: none blocks the next one for ever.  (The bot is     *)
(* assumed to stay up in the end, SSH to answer, and the jobs of the other *)
(* server not to end each tick with an error.)                             *)
JobsEnd ==
  Faults \cap {"ssh", "throw"} = {} /\ <>[](bot # "down") =>
    \A j \in Jobs : row[j] \in Live ~> row[j] \in Terminal
=============================================================================
