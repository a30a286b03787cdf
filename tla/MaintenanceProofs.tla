-------------------------- MODULE MaintenanceProofs --------------------------
(***************************************************************************)
(* Theorems about Maintenance for any jobs, ticks and settings.            *)
(***************************************************************************)
EXTENDS Maintenance, FiniteSetTheorems, TLAPS

\* A job without a row was never armed; a trigger is there only before its
\* helper is, and a helper before the lock has not run.
RunsInv ==
  /\ DOMAIN row = Jobs /\ DOMAIN helper = Jobs /\ runs \in [Jobs -> Nat]
  /\ IF Server = "b" THEN arming = {} ELSE armed = {}
  /\ \A j \in Jobs :
       /\ row[j] = "none" => helper[j] = "none" /\ j \notin armed /\ j \notin arming
       /\ j \in armed => helper[j] = "none"
       /\ helper[j] \in {"none", "eaten"} => runs[j] = 0
       /\ runs[j] <= 1

LEMMA RunsInit == Init => RunsInv
BY DEF Init, RunsInv, Server

\* A step that leaves the server alone and takes no row away.
LEMMA RunsByRows ==
  ASSUME RunsInv, UNCHANGED <<host, setting>>, arming' \subseteq arming,
         DOMAIN row' = Jobs, \A j \in Jobs : row'[j] = "none" => row[j] = "none"
  PROVE  RunsInv'
BY DEF RunsInv, host, Server

\* No verdict on a job takes its row away.
LEMMA VerdictKeepsRows ==
  ASSUME NEW w, NEW j, NEW r, NEW p, DOMAIN row = Jobs, Verdict(w, j, r, p)
  PROVE  DOMAIN row' = Jobs /\ \A k \in Jobs : row'[k] = "none" => row[k] = "none"
<1>1. CASE NoVerdict(w, j, r, p) \/ MirrorThrows(w, j, r, p)
  BY <1>1 DEF NoVerdict, MirrorThrows, rows
<1>2. ASSUME NEW s, s # "none", Settle(w, j, s)
      PROVE  DOMAIN row' = Jobs /\ \A k \in Jobs : row'[k] = "none" => row[k] = "none"
  BY <1>2 DEF Settle
<1>3. CASE CameBack(w, j, r, p)
  BY <1>2, <1>3 DEF CameBack
<1>4. CASE NeverBack(w, j, r, p) \/ NeverStarted(w, j, r, p)
  BY <1>2, <1>4 DEF NeverBack, NeverStarted
<1>5. CASE Mirror(w, j, r, p)
  BY <1>2, <1>5 DEF Mirror, Mirrors
<1> QED BY <1>1, <1>3, <1>4, <1>5 DEF Verdict

\* Nor does the reconciliation of one.
LEMMA ResolveKeepsRows ==
  ASSUME NEW j, NEW p, DOMAIN row = Jobs, Resolve(j, p)
  PROVE  DOMAIN row' = Jobs /\ \A k \in Jobs : row'[k] = "none" => row[k] = "none"
<1>1. Outcome(j, p) # "none"
  BY DEF Outcome, Terminal
<1>2. row' = row \/ row' = [row EXCEPT ![j] = Outcome(j, p)]
  BY DEF Resolve, rows
<1> QED BY <1>1, <1>2

\* A reboot forgets the triggers and ends the helpers.
LEMMA RebootRunsNothing ==
  ASSUME RunsInv, NEW j, j \in Jobs => helper[j] # "none", Reboot(j)
  PROVE  RunsInv'
<1>1. UNCHANGED <<row, runs, setting>> /\ armed' = {}
  BY DEF Reboot, Down, rows, clock
<1>2. arming' = arming \/ arming' = {}
  BY DEF Reboot, Forget, memory
<1>3. /\ DOMAIN helper' = Jobs
      /\ \A k \in Jobs : helper'[k] \in {"rebooted", "dead", helper[k]}
      /\ \A k \in Jobs : helper[k] = "none" /\ k # j => helper'[k] = "none"
  BY DEF Reboot, Down, Alive
<1> QED BY <1>1, <1>2, <1>3 DEF RunsInv, Server

LEMMA RunsNext == RunsInv /\ [Next]_vars => RunsInv'
<1> SUFFICES ASSUME RunsInv, [Next]_vars PROVE RunsInv'
  OBVIOUS
<1>0. DOMAIN row = Jobs
  BY DEF RunsInv
<1>1. ASSUME NEW j \in Jobs, StartJob(j) PROVE RunsInv'
  BY <1>1 DEF StartJob, RunsInv, clock, Server
<1>2. ASSUME NEW j \in Jobs, ArmRun(j) PROVE RunsInv'
  BY <1>2 DEF ArmRun, RunsInv, rows, clock, memory, Server
<1>3. ASSUME NEW j \in Jobs, ArmOk(j) \/ ArmFail(j) PROVE RunsInv'
  <2>1. /\ UNCHANGED <<host, setting>> /\ arming' \subseteq arming
        /\ row' = row \/ row' = [row EXCEPT ![j] = "failed"]
    BY <1>3 DEF ArmOk, ArmFail, rows, clock
  <2> QED BY <1>0, <2>1, RunsByRows
<1>4. ASSUME NEW j \in Jobs, Helper(j) PROVE RunsInv'
  <2>1. CASE HelperStart(j)
    BY <2>1 DEF HelperStart, HelperOnly, RunsInv, rows, clock, memory, Server
  <2>2. CASE HelperBusy(j) \/ HelperProgress(j) \/ HelperEnd(j) \/ HelperSleep(j)
    BY <2>2 DEF HelperBusy, HelperProgress, HelperEnd, HelperSleep, HelperOnly,
       RunsInv,
                rows, clock, memory, Server
  <2>3. CASE HelperLock(j)
    BY <2>3 DEF HelperLock, HelperOnly, RunsInv, rows, clock, memory, Server
  <2>4. CASE HelperReboot(j)
    BY <2>4, RebootRunsNothing DEF HelperReboot
  <2> QED BY <1>4, <2>1, <2>2, <2>3, <2>4 DEF Helper
<1>5. ASSUME NEW j \in Jobs, Kill(j) PROVE RunsInv'
  BY <1>5 DEF Kill, RunsInv, rows, clock, memory, Server, Alive
<1>6. ASSUME NEW j \in Jobs, Age(j) \/ Overrun(j) PROVE RunsInv'
  BY <1>0, <1>6, RunsByRows DEF Age, Overrun, rows, memory
<1>7. ASSUME NEW w \in Ticks, LocalTick(w) \/ BehindJudge(w) \/ Judge(w) PROVE RunsInv'
  <2>1. PICK j, r, p : Verdict(w, j, r, p)
    BY <1>7 DEF LocalTick, BehindJudge, Judge
  <2>2. UNCHANGED <<host, setting, arming>>
    BY <1>7 DEF LocalTick, BehindJudge, Judge, clock
  <2> QED BY <1>0, <2>1, <2>2, VerdictKeepsRows, RunsByRows
<1>8. ASSUME NEW w \in Ticks, RemoteTick(w) \/ BehindTick(w) \/ Answer(w) \/ NoAnswer(w)
               \/ Told(w) \/ Cut(w)
      PROVE  RunsInv'
  BY <1>0, <1>8, RunsByRows DEF RemoteTick, BehindTick, Answer, NoAnswer, Told, Cut, rows, clock,
     memory
<1>9. CASE BotStart \/ Reconcile
  <2>1. UNCHANGED <<host, setting, arming>>
    BY <1>9 DEF BotStart, Reconcile, clock
  <2>2. row' = row \/ \E j, p : Resolve(j, p)
    BY <1>9 DEF BotStart, Reconcile, rows
  <2> QED BY <1>0, <2>1, <2>2, ResolveKeepsRows, RunsByRows
<1>10. CASE Reconciled
  BY <1>0, <1>10, RunsByRows DEF Reconciled, rows, clock
<1>11. CASE UnplannedReboot
  BY <1>11, RebootRunsNothing, MaintenanceAssumption DEF UnplannedReboot
<1>12. CASE Boot
  BY <1>12 DEF Boot, RunsInv, rows, clock, memory, Server
<1>13. CASE Crash
  BY <1>0, <1>13, RunsByRows DEF Crash, Forget, rows, clock
<1>14. CASE UNCHANGED vars
  BY <1>0, <1>14, RunsByRows DEF vars, rows, clock, memory
<1> QED
  BY <1>1, <1>2, <1>3, <1>4, <1>5, <1>6, <1>7, <1>8, <1>9, <1>10, <1>11, <1>12,
     <1>13, <1>14
  DEF Next, Worker, Startup

\* No job gets past the helper's lock twice, for any number of jobs and
\* overlapping ticks, whatever is killed, crashes and reboots.
THEOREM HelperRunsOnce == Spec => []RunsOnce
<1>1. RunsInv => RunsOnce
  BY DEF RunsInv, RunsOnce
<1> QED BY <1>1, RunsInit, RunsNext, PTL DEF Spec

-----------------------------------------------------------------------------

Final == {"succeeded", "failed", "rebooting"}

\* What an answer p about job j proves of the server, now and later.
Proves(j, p) ==
  p.reached =>
    /\ p.fboot \in Nat /\ p.boot \in Nat /\ p.fboot <= p.boot /\ p.boot <= boot
    /\ p.file \in {"succeeded", "rebooting"} => file[j] = p.file /\ fboot[j] = p.fboot

\* A row that says rebooting was read from a file that says so for good.
Rebooting(j, status, b) == status = "rebooting" => file[j] = "rebooting" /\ b = fboot[j]

\* The state of the host: a helper's last file is not written again.
HostInv ==
  /\ DOMAIN file = Jobs /\ fboot \in [Jobs -> Nat] /\ boot \in Nat
  /\ \A j \in Jobs :
       /\ fboot[j] <= boot
       /\ file[j] \in Final => helper[j] \notin {"none", "eaten", "work"}

\* A tick may judge by the row r that it read and the answer p.
Sound(j, r, p) ==
  /\ Rebooting(j, r.status, r.boot) /\ Proves(j, p)
  /\ p.reached /\ r.status = "rebooting" => p.file = "rebooting"

\* What the table and the ticks under way hold is true of the host.
TableInv ==
  /\ DOMAIN rboot = Jobs
  /\ \A j \in Jobs : Rebooting(j, row[j], rboot[j])
  /\ NoFalseSuccess

TicksInv ==
  /\ DOMAIN wpc = Ticks /\ DOMAIN wjob = Ticks /\ DOMAIN wrow = Ticks /\ DOMAIN wprobe = Ticks
  /\ \A w \in Ticks :
       /\ bot = "down" => wpc[w] = "idle"
       /\ wpc[w] # "answered" => ~wprobe[w].reached
       /\ wpc[w] \in {"asked", "answered"} =>
            wjob[w] \in Jobs /\ Sound(wjob[w], wrow[w], wprobe[w])

LEMMA TruthInit == Init => HostInv /\ TableInv /\ TicksInv
BY DEF Init, HostInv, TableInv, TicksInv, NoFalseSuccess, Rebooting, Final, NoProbe

\* The host: files that are final stay, and boot ids only grow.
LEMMA HostNext ==
  ASSUME RunsInv, HostInv, [Next]_vars
  PROVE  /\ HostInv'
         /\ boot' >= boot
         /\ \A j \in Jobs : file[j] \in Final => file'[j] = file[j] /\ fboot'[j] = fboot[j]
<1> DEFINE Goal == /\ HostInv'
                   /\ boot' >= boot
                   /\ \A j \in Jobs : file[j] \in Final =>
                        file'[j] = file[j] /\ fboot'[j] = fboot[j]
<1>1. ASSUME UNCHANGED host PROVE Goal
  BY <1>1 DEF host, HostInv
<1>2. ASSUME UNCHANGED <<file, fboot, boot>>, DOMAIN helper' = Jobs,
             \A j \in Jobs : helper'[j] \in {"none", "eaten", "work"} =>
                               helper[j] \in {"none", "eaten", "work"}
      PROVE  Goal
  BY <1>2 DEF HostInv
<1>3. ASSUME NEW j \in Jobs, ArmRun(j) \/ Kill(j) PROVE Goal
  BY <1>2, <1>3 DEF ArmRun, Kill, RunsInv, Alive
<1>4. ASSUME NEW j \in Jobs, HelperStart(j) \/ HelperLock(j) PROVE Goal
  <2>1. UNCHANGED <<file, fboot, boot>>
    BY <1>4 DEF HelperStart, HelperLock, HelperOnly
  <2>2. helper' = [helper EXCEPT ![j] = "eaten"] \/ helper' = [helper EXCEPT ![j] = "work"]
    BY <1>4 DEF HelperStart, HelperLock
  <2>3. helper[j] \in {"none", "eaten"}
    BY <1>4 DEF HelperStart, HelperLock, RunsInv
  <2> QED BY <1>2, <2>1, <2>2, <2>3 DEF RunsInv
<1>5. ASSUME NEW j \in Jobs,
             HelperBusy(j) \/ HelperProgress(j) \/ HelperEnd(j) \/ HelperSleep(j)
      PROVE  Goal
  <2>1. PICK s \in {"running", "failed", "succeeded", "rebooting"} :
          /\ file' = [file EXCEPT ![j] = s] /\ fboot' = [fboot EXCEPT ![j] = boot]
          /\ s # "running" => helper'[j] \in {"done", "sleep"}
    BY <1>5 DEF HelperBusy, HelperProgress, HelperEnd, HelperSleep, WriteState,
       RunsInv
  <2>2. boot' = boot
    BY <1>5 DEF HelperBusy, HelperProgress, HelperEnd, HelperSleep, HelperOnly
  <2>3. helper[j] \in {"eaten", "work"}
    BY <1>5 DEF HelperBusy, HelperProgress, HelperEnd, HelperSleep
  <2>4. \A k \in Jobs : k # j => helper'[k] = helper[k]
    BY <1>5 DEF HelperBusy, HelperProgress, HelperEnd, HelperSleep, RunsInv
  <2> QED BY <2>1, <2>2, <2>3, <2>4 DEF HostInv, Final
<1>6. ASSUME NEW j, Reboot(j) PROVE Goal
  BY <1>2, <1>6 DEF Reboot, Down, Alive
<1>7. CASE Boot
  BY <1>7 DEF Boot, HostInv
<1>8. ASSUME NEW j \in Jobs, StartJob(j) PROVE Goal
  BY <1>2, <1>8 DEF StartJob, RunsInv
<1>9. ASSUME NEW j \in Jobs, ArmOk(j) \/ ArmFail(j) \/ Age(j) \/ Overrun(j) PROVE Goal
  BY <1>1, <1>9 DEF ArmOk, ArmFail, Age, Overrun
<1>10. ASSUME NEW w \in Ticks, Worker(w) \/ NoAnswer(w) \/ Cut(w) PROVE Goal
  BY <1>1, <1>10 DEF Worker, NoAnswer, Cut, LocalTick, BehindTick, BehindJudge,
     RemoteTick, Answer, Judge, Told
<1>11. CASE Startup \/ Crash \/ UNCHANGED vars
  BY <1>1, <1>11 DEF Startup, BotStart, Reconcile, Reconciled, Crash, vars
<1>12. ASSUME NEW j \in Jobs, Helper(j) PROVE Goal
  BY <1>4, <1>5, <1>6, <1>12 DEF Helper, HelperReboot
<1> QED
  BY <1>3, <1>6, <1>7, <1>8, <1>9, <1>10, <1>11, <1>12 DEF Next, UnplannedReboot

\* Hence what was proved of the host once stays proved.
LEMMA TruthStays ==
  ASSUME RunsInv, HostInv, [Next]_vars, NEW j \in Jobs
  PROVE  /\ \A s, b : Rebooting(j, s, b) => Rebooting(j, s, b)'
         /\ \A r, p : Sound(j, r, p) => Sound(j, r, p)'
         /\ row'[j] = row[j] /\ NoFalseSuccess /\ row[j] = "succeeded" =>
              \/ file'[j] = "succeeded"
              \/ file'[j] = "rebooting" /\ fboot'[j] # boot'
<1>1. /\ HostInv' /\ boot' >= boot
      /\ file[j] \in Final => file'[j] = file[j] /\ fboot'[j] = fboot[j]
  BY HostNext
<1>2. fboot[j] \in Nat /\ fboot[j] <= boot /\ boot \in Nat /\ boot' \in Nat
  BY <1>1 DEF HostInv
<1>3. \A s, b : Rebooting(j, s, b) => Rebooting(j, s, b)'
  BY <1>1 DEF Rebooting, Final
<1>4. \A p : Proves(j, p) => Proves(j, p)'
  BY <1>1, <1>2 DEF Proves, Final
<1>5. \A r, p : Sound(j, r, p) => Sound(j, r, p)'
  BY <1>3, <1>4 DEF Sound
<1>6. NoFalseSuccess /\ row[j] = "succeeded" =>
        \/ file'[j] = "succeeded"
        \/ file'[j] = "rebooting" /\ fboot'[j] # boot'
  BY <1>1, <1>2 DEF NoFalseSuccess, Final
<1> QED BY <1>3, <1>5, <1>6

\* The table follows when no row newly claims a reboot or a success.
LEMMA TableByRows ==
  ASSUME RunsInv, HostInv, TableInv, [Next]_vars, rboot' = rboot,
         \A j \in Jobs : row'[j] \in {"rebooting", "succeeded"} => row'[j] = row[j]
  PROVE  TableInv'
<1>1. ASSUME NEW j \in Jobs PROVE Rebooting(j, row[j], rboot[j])'
  <2>1. Rebooting(j, row[j], rboot[j])
    BY DEF TableInv
  <2>2. row'[j] = "rebooting" => row[j] = "rebooting" /\ rboot'[j] = rboot[j]
    OBVIOUS
  <2> QED BY <2>1, <2>2, TruthStays DEF Rebooting
<1>2. ASSUME NEW j \in Jobs, row'[j] = "succeeded"
      PROVE  \/ file'[j] = "succeeded"
             \/ file'[j] = "rebooting" /\ fboot'[j] # boot'
  BY <1>2, TruthStays DEF TableInv
<1>3. DOMAIN rboot' = Jobs
  BY DEF TableInv
<1> QED BY <1>1, <1>2, <1>3 DEF TableInv, NoFalseSuccess

\* A verdict that rests on sound answers keeps the table true.
LEMMA TableByVerdict ==
  ASSUME RunsInv, HostInv, TableInv, [Next]_vars, UNCHANGED host,
         NEW w, NEW j \in Jobs, NEW r, NEW p, Sound(j, r, p), Verdict(w, j, r, p)
  PROVE  TableInv'
<1>0. DOMAIN row = Jobs /\ DOMAIN rboot = Jobs
  BY DEF RunsInv, TableInv
<1>1. ASSUME NEW s, s \notin {"rebooting", "succeeded"}, rboot' = rboot,
             row' = row \/ row' = [row EXCEPT ![j] = s]
      PROVE  TableInv'
  BY <1>0, <1>1, TableByRows
<1>2. CASE NoVerdict(w, j, r, p) \/ MirrorThrows(w, j, r, p)
  BY <1>1, <1>2 DEF NoVerdict, MirrorThrows, rows
<1>3. CASE NeverBack(w, j, r, p) \/ NeverStarted(w, j, r, p)
  BY <1>1, <1>3 DEF NeverBack, NeverStarted, Settle
<1>4. CASE CameBack(w, j, r, p)
  <2>1. file[j] = "rebooting" /\ fboot[j] # boot
    <3>1. p.reached /\ p.boot # r.boot /\ r.status = "rebooting"
      BY <1>4 DEF CameBack
    <3>2. file[j] = "rebooting" /\ r.boot = fboot[j] /\ p.file = "rebooting"
      BY <3>1 DEF Sound, Rebooting
    <3>3. /\ p.boot \in Nat /\ p.boot <= boot /\ boot \in Nat
          /\ p.fboot \in Nat /\ p.fboot <= p.boot /\ fboot[j] = p.fboot
      BY <3>1, <3>2 DEF Sound, Proves, HostInv
    <3> QED BY <3>1, <3>2, <3>3
  <2>2. row' = [row EXCEPT ![j] = "succeeded"] /\ rboot' = rboot
    BY <1>4 DEF CameBack, Settle
  <2> QED BY <1>0, <2>1, <2>2 DEF host, TableInv, NoFalseSuccess, Rebooting
<1>5. CASE Mirror(w, j, r, p)
  <2>1. p.file \in {"succeeded", "rebooting"} => file[j] = p.file /\ fboot[j] = p.fboot
    BY <1>5 DEF Mirror, Mirrors, Sound, Proves
  <2>2. rboot' = [rboot EXCEPT ![j] = p.fboot]
    BY <1>5 DEF Mirror, MirrorRow
  <2>3. row' = [row EXCEPT ![j] = p.file] \/ row' = [row EXCEPT ![j] = "failed"]
    BY <1>5 DEF Mirror, Settle
  <2> QED BY <1>0, <2>1, <2>2, <2>3 DEF host, TableInv, NoFalseSuccess, Rebooting
<1> QED BY <1>2, <1>3, <1>4, <1>5 DEF Verdict

LEMMA TableByResolve ==
  ASSUME RunsInv, HostInv, TableInv, [Next]_vars, UNCHANGED host,
         NEW j \in Jobs, NEW p, Proves(j, p), Resolve(j, p)
  PROVE  TableInv'
<1>0. DOMAIN row = Jobs /\ DOMAIN rboot = Jobs
  BY DEF RunsInv, TableInv
<1>1. CASE UNCHANGED rows
  BY <1>0, <1>1, TableByRows DEF rows
<1>2. CASE row' = [row EXCEPT ![j] = Outcome(j, p)]
           /\ \E b : rboot' = [rboot EXCEPT ![j] = b]
  <2>1. Outcome(j, p) # "rebooting"
    BY DEF Outcome, Terminal
  <2>2. Outcome(j, p) = "succeeded" =>
          \/ file[j] = "succeeded"
          \/ file[j] = "rebooting" /\ fboot[j] # boot
    BY DEF Outcome, Terminal, Proves, HostInv
  <2> QED BY <1>0, <1>2, <2>1, <2>2 DEF host, TableInv, NoFalseSuccess, Rebooting
<1> QED BY <1>1, <1>2 DEF Resolve

\* What a probe reads now proves what it says.
LEMMA ProbeSound ==
  ASSUME HostInv, TableInv, NEW j \in Jobs
  PROVE  Sound(j, ReadRow(j), Probe(j)) /\ Rebooting(j, ReadRow(j).status, ReadRow(j).boot)
BY DEF HostInv, TableInv, Sound, Rebooting, Proves, ReadRow, Probe

\* And it is sound of a row that was read before it.
LEMMA LaterSound ==
  ASSUME HostInv, TicksInv, NEW w \in Ticks, wpc[w] = "asked"
  PROVE  wjob[w] \in Jobs /\ Sound(wjob[w], wrow[w], Probe(wjob[w]))
<1>1. wjob[w] \in Jobs /\ Rebooting(wjob[w], wrow[w].status, wrow[w].boot)
  BY DEF TicksInv, Sound
<1> QED BY <1>1 DEF Sound, Proves, Rebooting, Probe, HostInv

\* A tick that judges has a sound answer.
LEMMA TableNext ==
  ASSUME RunsInv, HostInv, TableInv, TicksInv, [Next]_vars
  PROVE  TableInv'
<1>0. DOMAIN row = Jobs
  BY DEF RunsInv
<1>1. ASSUME rboot' = rboot,
             \/ row' = row
             \/ \E j, s : row' = [row EXCEPT ![j] = s] /\ s \notin {"rebooting", "succeeded"}
      PROVE  TableInv'
  BY <1>0, <1>1, TableByRows
<1>2. ASSUME NEW j \in Jobs, StartJob(j) \/ ArmFail(j) PROVE TableInv'
  BY <1>1, <1>2 DEF StartJob, ArmFail
<1>3. ASSUME NEW j \in Jobs, ArmRun(j) \/ ArmOk(j) \/ Kill(j) \/ Age(j) \/ Overrun(j)
      PROVE  TableInv'
  BY <1>1, <1>3 DEF ArmRun, ArmOk, Kill, Age, Overrun, rows
<1>4. ASSUME NEW j \in Jobs, Helper(j) PROVE TableInv'
  BY <1>1, <1>4 DEF Helper, HelperStart, HelperBusy, HelperLock, HelperProgress,
     HelperEnd,
     HelperSleep, HelperReboot, HelperOnly, Reboot, rows
<1>5. ASSUME NEW w \in Ticks, LocalTick(w) PROVE TableInv'
  <2>1. PICK j \in Active : Verdict(w, j, ReadRow(j), Probe(j))
    BY <1>5 DEF LocalTick
  <2>2. UNCHANGED host
    BY <1>5 DEF LocalTick
  <2> QED BY <2>1, <2>2, ProbeSound, TableByVerdict DEF Active
<1>6. ASSUME NEW w \in Ticks, Judge(w) PROVE TableInv'
  <2>1. wjob[w] \in Jobs /\ Sound(wjob[w], wrow[w], wprobe[w])
    BY <1>6 DEF Judge, TicksInv
  <2>2. UNCHANGED host /\ Verdict(w, wjob[w], wrow[w], wprobe[w])
    BY <1>6 DEF Judge
  <2> QED BY <2>1, <2>2, TableByVerdict
<1>11. ASSUME NEW w \in Ticks, BehindJudge(w) PROVE TableInv'
  <2>1. wjob[w] \in Jobs /\ Sound(wjob[w], wrow[w], Probe(wjob[w]))
    BY <1>11, LaterSound DEF BehindJudge
  <2>2. UNCHANGED host /\ Verdict(w, wjob[w], wrow[w], Probe(wjob[w]))
    BY <1>11 DEF BehindJudge
  <2> QED BY <2>1, <2>2, TableByVerdict
<1>7. ASSUME NEW w \in Ticks, RemoteTick(w) \/ BehindTick(w) \/ Answer(w) \/ NoAnswer(w)
               \/ Told(w) \/ Cut(w)
      PROVE  TableInv'
  BY <1>1, <1>7 DEF RemoteTick, BehindTick, Answer, NoAnswer, Told, Cut, rows
<1>8. CASE BotStart
  <2>1. CASE UNCHANGED rows
    BY <1>1, <2>1 DEF rows
  <2>2. ASSUME NEW j \in Active, Resolve(j, Probe(j)) PROVE TableInv'
    BY <1>8, <2>2, ProbeSound, TableByResolve DEF BotStart, Active, Sound
  <2> QED BY <1>8, <2>1, <2>2 DEF BotStart
<1>9. CASE Reconcile
  <2>1. wjob[Rec] \in Jobs /\ Proves(wjob[Rec], wprobe[Rec])
    BY <1>9, MaintenanceAssumption DEF Reconcile, TicksInv, Sound
  <2>2. UNCHANGED host /\ Resolve(wjob[Rec], wprobe[Rec])
    BY <1>9 DEF Reconcile
  <2> QED BY <2>1, <2>2, TableByResolve
<1>10. CASE Reconciled \/ UnplannedReboot \/ Boot \/ Crash \/ UNCHANGED vars
  BY <1>1, <1>10 DEF Reconciled, UnplannedReboot, Reboot, Boot, Crash, vars, rows
<1> QED
  BY <1>2, <1>3, <1>4, <1>5, <1>6, <1>7, <1>8, <1>9, <1>10, <1>11
  DEF Next, Worker, Startup

-----------------------------------------------------------------------------

\* The ticks follow when each rests, tells or keeps what it holds.
LEMMA TicksByRest ==
  ASSUME RunsInv, HostInv, TicksInv, [Next]_vars,
         UNCHANGED work \/ \E w \in Ticks :
           /\ \/ Rest(w)
              \/ \E j : Tell(w, j)
           /\ bot' # "down",
         bot' = "down" => bot = "down"
  PROVE  TicksInv'
<1>1. ASSUME NEW v \in Ticks, wpc'[v] \in {"asked", "answered"}
      PROVE  /\ wpc'[v] = wpc[v] /\ wjob'[v] = wjob[v]
             /\ wrow'[v] = wrow[v] /\ wprobe'[v] = wprobe[v]
  BY <1>1 DEF work, Rest, Tell, TicksInv
<1>2. ASSUME NEW v \in Ticks, wpc'[v] \in {"asked", "answered"}
      PROVE  wjob'[v] \in Jobs /\ Sound(wjob[v], wrow[v], wprobe[v])'
  <2>1. PICK j, r, p : j = wjob[v] /\ r = wrow[v] /\ p = wprobe[v]
    OBVIOUS
  <2>2. j \in Jobs /\ Sound(j, r, p)
    BY <1>1, <1>2, <2>1 DEF TicksInv
  <2>3. Sound(j, r, p)'
    BY <2>2, TruthStays
  <2>4. j = wjob'[v] /\ r = wrow'[v] /\ p = wprobe'[v]
    BY <1>1, <1>2, <2>1
  <2> QED BY <2>2, <2>3, <2>4 DEF Sound, Proves, Rebooting
<1>3. ASSUME NEW v \in Ticks
      PROVE  /\ bot' = "down" => wpc'[v] = "idle"
             /\ wpc'[v] # "answered" => ~wprobe'[v].reached
  BY DEF work, Rest, Tell, TicksInv, NoProbe
<1>4. DOMAIN wpc' = Ticks /\ DOMAIN wjob' = Ticks /\ DOMAIN wrow' = Ticks /\ DOMAIN wprobe' = Ticks
  BY DEF work, Rest, Tell, TicksInv
<1> QED BY <1>2, <1>3, <1>4 DEF TicksInv

\* A process that is gone holds nothing.
LEMMA TicksByForget == ASSUME Forget PROVE TicksInv'
BY DEF Forget, TicksInv, NoProbe

\* A tick that asks holds a row that is true, and no answer yet.
LEMMA TicksByAsk ==
  ASSUME RunsInv, HostInv, TableInv, TicksInv, [Next]_vars, UNCHANGED <<host, rows>>,
         NEW w \in Ticks, wpc[w] # "answered", NEW j \in Jobs, Ask(w, j),
         bot' # "down"
  PROVE  TicksInv'
<1>1. /\ wpc' = [wpc EXCEPT ![w] = "asked"] /\ wjob' = [wjob EXCEPT ![w] = j]
      /\ wrow' = [wrow EXCEPT ![w] = ReadRow(j)] /\ wprobe' = wprobe
  BY DEF Ask
<1>2. ~wprobe[w].reached /\ Rebooting(j, ReadRow(j).status, ReadRow(j).boot)
  BY ProbeSound DEF TicksInv
<1>3. ASSUME NEW v \in Ticks, wpc'[v] \in {"asked", "answered"}
      PROVE  wjob'[v] \in Jobs /\ Sound(wjob[v], wrow[v], wprobe[v])'
  <2>1. CASE v = w
    BY <1>1, <1>2, <2>1 DEF TicksInv, Sound, Proves, Rebooting, host
  <2>2. CASE v # w
    BY <1>1, <1>3, <2>2 DEF TicksInv, Sound, Proves, Rebooting, host
  <2> QED BY <2>1, <2>2
<1>4. ASSUME NEW v \in Ticks PROVE wpc'[v] # "answered" => ~wprobe'[v].reached
  BY <1>1, <1>2 DEF TicksInv
<1> QED BY <1>1, <1>3, <1>4 DEF TicksInv

\* An answer is sound of the row that was read before it.
LEMMA TicksByAnswer ==
  ASSUME HostInv, TicksInv, UNCHANGED <<host, wjob, wrow, bot>>,
         NEW w \in Ticks, wpc[w] = "asked", wpc' = [wpc EXCEPT ![w] = "answered"],
         wprobe' = wprobe \/ wprobe' = [wprobe EXCEPT ![w] = Probe(wjob[w])]
  PROVE  TicksInv'
<1>1. wjob[w] \in Jobs /\ Sound(wjob[w], wrow[w], wprobe[w])
      /\ Sound(wjob[w], wrow[w], Probe(wjob[w]))
  BY LaterSound DEF TicksInv
<1>3. Sound(wjob[w], wrow[w], wprobe'[w])
  BY <1>1 DEF TicksInv
<1>4. ASSUME NEW v \in Ticks, wpc'[v] \in {"asked", "answered"}
      PROVE  wjob'[v] \in Jobs /\ Sound(wjob[v], wrow[v], wprobe[v])'
  <2>1. CASE v = w
    BY <1>1, <1>3, <2>1 DEF Sound, Proves, Rebooting, host
  <2>2. CASE v # w
    BY <1>4, <2>2 DEF TicksInv, Sound, Proves, Rebooting, host
  <2> QED BY <2>1, <2>2
<1>5. ASSUME NEW v \in Ticks
      PROVE  /\ bot' = "down" => wpc'[v] = "idle"
             /\ wpc'[v] # "answered" => ~wprobe'[v].reached
  BY DEF TicksInv
<1> QED BY <1>4, <1>5 DEF TicksInv

LEMMA TicksNext ==
  ASSUME RunsInv, HostInv, TableInv, TicksInv, [Next]_vars
  PROVE  TicksInv'
<1>1. ASSUME UNCHANGED work, bot' = "down" => bot = "down" PROVE TicksInv'
  BY <1>1, TicksByRest
<1>2. ASSUME NEW w \in Ticks, bot' # "down",
             Rest(w) \/ \E j : Tell(w, j)
      PROVE  TicksInv'
  BY <1>2, TicksByRest
<1>3. ASSUME NEW j \in Jobs,
             StartJob(j) \/ ArmRun(j) \/ ArmOk(j) \/ ArmFail(j) \/ Kill(j) \/ Age(j) \/ Overrun(j)
      PROVE  TicksInv'
  BY <1>1, <1>3 DEF StartJob, ArmRun, ArmOk, ArmFail, Kill, Age, Overrun
<1>4. ASSUME NEW j, Reboot(j) PROVE TicksInv'
  BY <1>1, <1>4, TicksByForget DEF Reboot
<1>5. ASSUME NEW j \in Jobs, Helper(j) PROVE TicksInv'
  BY <1>1, <1>4, <1>5 DEF Helper, HelperStart, HelperBusy, HelperLock, HelperProgress,
     HelperEnd, HelperSleep, HelperReboot, HelperOnly
<1>6. ASSUME NEW w, NEW j, NEW r, NEW p, Verdict(w, j, r, p)
      PROVE  Rest(w) \/ \E k : Tell(w, k)
  BY <1>6 DEF Verdict, CameBack, NeverBack, NeverStarted, NoVerdict, MirrorThrows,
     Mirror,
     Settle, Announce
<1>7. ASSUME NEW w \in Ticks, LocalTick(w) \/ BehindJudge(w) \/ Judge(w) PROVE TicksInv'
  BY <1>2, <1>6, <1>7 DEF LocalTick, BehindJudge, Judge
<1>8. ASSUME NEW w \in Ticks, RemoteTick(w) \/ BehindTick(w) PROVE TicksInv'
  BY <1>8, TicksByAsk DEF RemoteTick, BehindTick, Active
<1>9. ASSUME NEW w \in Ticks, Answer(w) \/ NoAnswer(w) PROVE TicksInv'
  BY <1>9, TicksByAnswer DEF Answer, NoAnswer
<1>10. ASSUME NEW w \in Ticks, Told(w) \/ Cut(w) PROVE TicksInv'
  BY <1>2, <1>10 DEF Told, Cut
<1>11. ASSUME NEW j, NEW p, Resolve(j, p) PROVE TicksInv'
  BY <1>2, <1>11, MaintenanceAssumption DEF Resolve, Ready
<1>12. CASE BotStart
  <2>1. CASE Ready /\ UNCHANGED work
    BY <1>1, <2>1 DEF Ready
  <2>2. CASE \E j \in Active : Ask(Rec, j) /\ bot' = "reconcile" /\ UNCHANGED rows
    <3>1. Rec \in Ticks /\ wpc[Rec] # "answered" /\ UNCHANGED host
      BY <1>12, MaintenanceAssumption DEF BotStart, TicksInv
    <3> QED BY <2>2, <3>1, TicksByAsk DEF Active
  <2> QED BY <1>11, <1>12, <2>1, <2>2 DEF BotStart
<1>13. CASE Reconcile
  BY <1>11, <1>13 DEF Reconcile
<1>14. CASE Reconciled
  BY <1>2, <1>14, MaintenanceAssumption DEF Reconciled, Ready
<1>15. CASE UnplannedReboot
  BY <1>4, <1>15 DEF UnplannedReboot
<1>16. CASE Boot \/ UNCHANGED vars
  BY <1>1, <1>16 DEF Boot, vars
<1>17. CASE Crash
  BY <1>17, TicksByForget DEF Crash
<1> QED
  BY <1>3, <1>5, <1>7, <1>8, <1>9, <1>10, <1>12, <1>13, <1>14, <1>15, <1>16, <1>17
  DEF Next, Worker, Startup

\* Whatever overlaps, fails, crashes and reboots, a job recorded as succeeded
\* has a helper that finished, or a reboot that has happened.
THEOREM SuccessIsReal == Spec => []NoFalseSuccess
<1> DEFINE Inv == RunsInv /\ HostInv /\ TableInv /\ TicksInv
<1>1. Init => Inv
  BY RunsInit, TruthInit
<1>2. Inv /\ [Next]_vars => Inv'
  BY RunsNext, HostNext, TableNext, TicksNext
<1>3. Inv => NoFalseSuccess
  BY DEF TableInv
<1> QED BY <1>1, <1>2, <1>3, PTL DEF Spec

-----------------------------------------------------------------------------
(* What any step does to a row and to a tick.                              *)

\* No step takes a row away.
LEMMA RowsStay ==
  ASSUME RunsInv, [Next]_vars
  PROVE  \A k \in Jobs : row'[k] = "none" => row[k] = "none"
<1> DEFINE Kept == \A k \in Jobs : row'[k] = "none" => row[k] = "none"
<1>0. DOMAIN row = Jobs
  BY DEF RunsInv
<1>1. ASSUME UNCHANGED rows PROVE Kept
  BY <1>1 DEF rows
<1>2. ASSUME NEW j \in Jobs, StartJob(j) \/ ArmFail(j) PROVE Kept
  BY <1>0, <1>2 DEF StartJob, ArmFail
<1>3. ASSUME NEW j \in Jobs,
             ArmRun(j) \/ ArmOk(j) \/ Kill(j) \/ Age(j) \/ Overrun(j) PROVE Kept
  BY <1>1, <1>3 DEF ArmRun, ArmOk, Kill, Age, Overrun
<1>4. ASSUME NEW j \in Jobs, Helper(j) PROVE Kept
  BY <1>1, <1>4 DEF Helper, HelperStart, HelperBusy, HelperLock, HelperProgress,
     HelperEnd,
     HelperSleep, HelperReboot, Reboot, HelperOnly
<1>5. ASSUME NEW w \in Ticks, LocalTick(w) \/ BehindJudge(w) \/ Judge(w) PROVE Kept
  <2>1. PICK j, r, p : Verdict(w, j, r, p)
    BY <1>5 DEF LocalTick, BehindJudge, Judge
  <2> QED BY <1>0, <2>1, VerdictKeepsRows
<1>6. ASSUME NEW w \in Ticks,
             RemoteTick(w) \/ BehindTick(w) \/ Answer(w) \/ NoAnswer(w)
               \/ Told(w) \/ Cut(w) PROVE Kept
  BY <1>1, <1>6 DEF RemoteTick, BehindTick, Answer, NoAnswer, Told, Cut
<1>7. CASE BotStart \/ Reconcile
  <2>1. UNCHANGED rows \/ \E j, p : Resolve(j, p)
    BY <1>7 DEF BotStart, Reconcile
  <2> QED BY <1>0, <1>1, <2>1, ResolveKeepsRows
<1>8. CASE Reconciled \/ UnplannedReboot \/ Boot \/ Crash \/ UNCHANGED vars
  BY <1>1, <1>8 DEF Reconciled, UnplannedReboot, Reboot, Boot, Crash, vars
<1> QED
  BY <1>2, <1>3, <1>4, <1>5, <1>6, <1>7, <1>8 DEF Next, Worker, Startup

Keeps(w) ==
  wpc'[w] = wpc[w] /\ wjob'[w] = wjob[w] /\ wrow'[w] = wrow[w] /\ wprobe'[w] = wprobe[w]

Asks(w) ==
  /\ wpc'[w] = "asked" /\ wjob'[w] \in Active /\ wrow'[w] = ReadRow(wjob'[w])
  /\ wprobe'[w] = wprobe[w] /\ wpc[w] # "answered"
  /\ bot' # "down" /\ UNCHANGED <<rows, clock, arming, dead, host, told>>
  /\ \/ /\ w \in setting.ticks /\ bot = "up" /\ bot' = bot
        /\ Server = "b" => setting.behind
     \/ /\ w = Rec /\ bot = "down" /\ bot' = "reconcile"
        /\ Server = "a"

Hears(w) ==
  /\ wpc[w] = "asked" /\ wpc'[w] = "answered" /\ wjob'[w] = wjob[w] /\ wrow'[w] = wrow[w]
  /\ wprobe'[w] = wprobe[w] \/ wprobe'[w] = Probe(wjob[w])
  /\ UNCHANGED <<rows, clock, memory, bot, host, told>>

Ends(w) == wpc'[w] \in {"idle", "tell"} /\ ~ wprobe'[w].reached

\* A tick keeps what it holds, asks, hears or ends.
LEMMA TickSteps ==
  ASSUME TicksInv, [Next]_vars, NEW v \in Ticks
  PROVE  Keeps(v) \/ Asks(v) \/ Hears(v) \/ Ends(v)
<1> DEFINE Goal == Keeps(v) \/ Asks(v) \/ Hears(v) \/ Ends(v)
<1>0. DOMAIN wpc = Ticks /\ DOMAIN wjob = Ticks /\ DOMAIN wrow = Ticks /\ DOMAIN wprobe = Ticks
  BY DEF TicksInv
<1>1. ASSUME UNCHANGED work PROVE Goal
  BY <1>1 DEF work, Keeps
<1>2. ASSUME NEW w \in Ticks, Rest(w) \/ \E j : Tell(w, j) PROVE Goal
  BY <1>0, <1>2 DEF Rest, Tell, Keeps, Ends, NoProbe
<1>3. ASSUME NEW j \in Jobs,
             StartJob(j) \/ ArmRun(j) \/ ArmOk(j) \/ ArmFail(j) \/ Kill(j) \/ Age(j) \/ Overrun(j)
      PROVE  Goal
  BY <1>1, <1>3 DEF StartJob, ArmRun, ArmOk, ArmFail, Kill, Age, Overrun
<1>4. ASSUME Forget PROVE Goal
  BY <1>4 DEF Forget, Ends, NoProbe
<1>5. ASSUME NEW j, Reboot(j) PROVE Goal
  BY <1>1, <1>4, <1>5 DEF Reboot
<1>6. ASSUME NEW j \in Jobs, Helper(j) PROVE Goal
  BY <1>1, <1>5, <1>6 DEF Helper, HelperStart, HelperBusy, HelperLock, HelperProgress,
     HelperEnd, HelperSleep, HelperReboot, HelperOnly
<1>7. ASSUME NEW w \in Ticks, LocalTick(w) \/ BehindJudge(w) \/ Judge(w) PROVE Goal
  <2>1. PICK j, r, p : Verdict(w, j, r, p)
    BY <1>7 DEF LocalTick, BehindJudge, Judge
  <2>2. Rest(w) \/ \E k : Tell(w, k)
    BY <2>1 DEF Verdict, CameBack, NeverBack, NeverStarted, NoVerdict, MirrorThrows,
       Mirror,
       Settle, Announce
  <2> QED BY <1>2, <2>2
<1>8. ASSUME NEW w \in Ticks, NEW j \in Active, Ask(w, j), bot' # "down",
             UNCHANGED <<rows, clock, arming, dead, host, told>>, wpc[w] # "answered",
             \/ /\ w \in setting.ticks /\ bot = "up" /\ bot' = bot
                /\ Server = "b" => setting.behind
             \/ /\ w = Rec /\ bot = "down" /\ bot' = "reconcile"
                /\ Server = "a"
      PROVE  Goal
  BY <1>0, <1>8 DEF Ask, Asks, Keeps
<1>9. ASSUME NEW w \in Ticks, RemoteTick(w) \/ BehindTick(w) PROVE Goal
  BY <1>8, <1>9 DEF RemoteTick, BehindTick, memory
<1>10. ASSUME NEW w \in Ticks, Answer(w) \/ NoAnswer(w) PROVE Goal
  BY <1>0, <1>10 DEF Answer, NoAnswer, Hears, Keeps
<1>11. ASSUME NEW w \in Ticks, Told(w) \/ Cut(w) PROVE Goal
  BY <1>2, <1>11 DEF Told, Cut
<1>12. ASSUME NEW j, NEW p, Resolve(j, p) PROVE Goal
  BY <1>2, <1>12, MaintenanceAssumption DEF Resolve
<1>13. CASE BotStart
  <2>1. CASE UNCHANGED work
    BY <1>1, <2>1
  <2>2. CASE \E j \in Active : Ask(Rec, j) /\ bot' = "reconcile" /\ Server = "a"
                              /\ UNCHANGED <<rows, announced, told>>
    <3>1. Rec \in Ticks /\ wpc[Rec] # "answered" /\ UNCHANGED <<clock, arming, dead, host>> /\ bot = "down"
      BY <1>13, MaintenanceAssumption DEF BotStart, TicksInv
    <3> QED BY <1>8, <2>2, <3>1
  <2> QED BY <1>12, <1>13, <2>1, <2>2 DEF BotStart
<1>14. CASE Reconcile
  BY <1>12, <1>14 DEF Reconcile
<1>15. CASE Reconciled
  BY <1>2, <1>15, MaintenanceAssumption DEF Reconciled
<1>16. CASE UnplannedReboot
  BY <1>5, <1>16 DEF UnplannedReboot
<1>17. CASE Boot \/ UNCHANGED vars
  BY <1>1, <1>17 DEF Boot, vars
<1>18. CASE Crash
  BY <1>4, <1>18 DEF Crash
<1> QED
  BY <1>3, <1>6, <1>7, <1>9, <1>10, <1>11, <1>13, <1>14, <1>15, <1>16, <1>17, <1>18
  DEF Next, Worker, Startup

-----------------------------------------------------------------------------
(* Types.                                                                  *)

Gone == {j \in Jobs : helper[j] = "rebooted"}

HeldRows == \A w \in Ticks : wpc[w] \in {"asked", "answered"} => row[wjob[w]] # "none"

\* Only jobs of the setting are asked for, ticks are about jobs asked for, and
\* each boot has its cause.
BootsInv ==
  /\ \A j \in Jobs : row[j] # "none" => j \in setting.jobs
  /\ HeldRows
  /\ boot + (IF up THEN 0 ELSE 1) <= setting.reboots + Cardinality(Gone)

RowsTyped ==
  /\ row \in [Jobs -> {"none"} \cup Live \cup Terminal] /\ rboot \in [Jobs -> 0..MaxBoot]
  /\ stamped \in [Jobs -> BOOLEAN]

ClockTyped ==
  setting \in Settings /\ aged \in [Jobs -> BOOLEAN] /\ overdue \in [Jobs -> BOOLEAN]

MemoryTyped ==
  /\ arming \in SUBSET Jobs /\ bot \in {"down", "reconcile", "up"}
  /\ dead \in [Jobs -> 0..2] /\ announced \in [Jobs -> {"none"} \cup Live \cup Terminal]

WorkTyped ==
  /\ wpc \in [Ticks -> {"idle", "asked", "answered", "tell"}]
  /\ wjob \in [Ticks -> Jobs \cup {None}]
  /\ wrow \in [Ticks -> Rows] /\ wprobe \in [Ticks -> Probes]

HostTyped ==
  /\ armed \in SUBSET Jobs
  /\ helper \in [Jobs -> {"none", "dead", "done", "rebooted"} \cup Alive]
  /\ file \in [Jobs -> {"none", "running", "rebooting", "succeeded", "failed"}]
  /\ fboot \in [Jobs -> 0..MaxBoot]
  /\ up \in BOOLEAN /\ boot \in 0..MaxBoot /\ runs \in [Jobs -> Nat]

LEMMA TypeParts ==
  TypeOK <=> /\ RowsTyped /\ ClockTyped /\ MemoryTyped /\ WorkTyped /\ HostTyped
             /\ told \in [Jobs -> 0..2]
BY DEF TypeOK, RowsTyped, ClockTyped, MemoryTyped, WorkTyped, HostTyped

LEMMA SettingStays == [Next]_vars => setting' = setting
<1> USE DEF clock, HelperOnly
<1> SUFFICES ASSUME [Next]_vars PROVE setting' = setting
  OBVIOUS
<1>1. ASSUME NEW j \in Jobs,
             StartJob(j) \/ ArmRun(j) \/ ArmOk(j) \/ ArmFail(j) \/ Kill(j)
                             \/ Age(j) \/ Overrun(j)
      PROVE  setting' = setting
  BY <1>1 DEF StartJob, ArmRun, ArmOk, ArmFail, Kill, Age, Overrun
<1>2. ASSUME NEW j \in Jobs, Helper(j) PROVE setting' = setting
  BY <1>2 DEF Helper, HelperStart, HelperBusy, HelperLock, HelperProgress, HelperEnd,
     HelperSleep, HelperReboot, Reboot
<1>3. ASSUME NEW w \in Ticks, Worker(w) \/ NoAnswer(w) \/ Cut(w) PROVE setting' = setting
  BY <1>3 DEF Worker, NoAnswer, Cut, LocalTick, BehindTick, BehindJudge,
     RemoteTick, Answer, Judge, Told
<1>4. CASE Startup \/ UnplannedReboot \/ Boot \/ Crash \/ UNCHANGED vars
  BY <1>4 DEF Startup, BotStart, Reconcile, Reconciled, UnplannedReboot, Reboot,
     Boot, Crash, vars
<1> QED BY <1>1, <1>2, <1>3, <1>4 DEF Next

LEMMA SettingIs ==
  ASSUME setting \in Settings
  PROVE  /\ setting.server \in {"a", "b"} /\ setting.jobs \subseteq Jobs
         /\ setting.ticks \subseteq Ticks /\ setting.reboots \in Nat
         /\ IsFiniteSet(setting.jobs) /\ Cardinality(setting.jobs) \in Nat /\ MaxBoot \in Nat
<1>1. /\ setting.server \in {"a", "b"} /\ setting.jobs \subseteq Jobs
      /\ setting.ticks \subseteq Ticks /\ setting.reboots \in Nat
  BY MaintenanceAssumption
<1>2. IsFiniteSet(setting.jobs)
  BY <1>1, FS_Subset, MaintenanceAssumption
<1>3. Cardinality(setting.jobs) \in Nat
  BY <1>2, FS_CardinalityType
<1> QED BY <1>1, <1>2, <1>3 DEF MaxBoot

LEMMA BootsBound ==
  ASSUME RunsInv, BootsInv, setting \in Settings, boot \in Nat
  PROVE  /\ boot \in 0..MaxBoot
         /\ ~ up => boot + 1 \in 0..MaxBoot
<1>1. Gone \subseteq setting.jobs
  BY DEF Gone, RunsInv, BootsInv
<1>2. IsFiniteSet(setting.jobs) /\ Cardinality(setting.jobs) \in Nat /\ setting.reboots \in Nat
  BY SettingIs
<1>3. Cardinality(Gone) \in Nat /\ Cardinality(Gone) <= Cardinality(setting.jobs)
  BY <1>1, <1>2, FS_Subset, FS_CardinalityType
<1>4. MaxBoot = Cardinality(setting.jobs) + setting.reboots
  BY DEF MaxBoot
<1> QED BY <1>2, <1>3, <1>4 DEF BootsInv

\* The count of boots follows where no helper is rebooted.
LEMMA BootsByHelpers ==
  ASSUME BootsInv, setting' = setting, UNCHANGED <<up, boot>>,
         \A k \in Jobs : helper'[k] = "rebooted" <=> helper[k] = "rebooted",
         \A k \in Jobs : row'[k] # "none" => row[k] # "none" \/ k \in setting.jobs,
         HeldRows'
  PROVE  BootsInv'
<1>1. Gone' = Gone
  BY DEF Gone
<1> QED BY <1>1 DEF BootsInv

LEMMA BootsReboot ==
  ASSUME RunsInv, BootsInv, setting \in Settings, boot \in Nat, NEW j, Reboot(j),
         HeldRows',
         \/ j \in Jobs /\ helper[j] = "sleep"
         \/ j \notin Jobs /\ boot < setting.reboots + Cardinality(Gone)
  PROVE  BootsInv'
<1>0. /\ setting' = setting /\ row' = row /\ boot' = boot /\ up /\ ~ up'
      /\ \A k \in Jobs : helper'[k] = "rebooted" <=> k = j \/ helper[k] = "rebooted"
  BY DEF Reboot, Down, rows, clock, Alive
<1>1. IsFiniteSet(Gone) /\ Cardinality(Gone) \in Nat /\ setting.reboots \in Nat
  BY FS_Subset, FS_CardinalityType, MaintenanceAssumption, SettingIs DEF Gone
<1>2. CASE j \in Jobs /\ helper[j] = "sleep"
  <2>1. Gone' = Gone \cup {j} /\ j \notin Gone
    BY <1>0, <1>2 DEF Gone
  <2>2. Cardinality(Gone') = Cardinality(Gone) + 1
    BY <1>1, <2>1, FS_AddElement
  <2> QED BY <1>0, <1>1, <2>2 DEF BootsInv
<1>3. CASE j \notin Jobs /\ boot < setting.reboots + Cardinality(Gone)
  <2>1. Gone' = Gone
    BY <1>0, <1>3 DEF Gone
  <2> QED BY <1>0, <1>1, <1>3, <2>1 DEF BootsInv
<1> QED BY <1>2, <1>3

LEMMA HeldNext ==
  ASSUME RunsInv, TicksInv, HeldRows, [Next]_vars
  PROVE  HeldRows'
<1> SUFFICES ASSUME NEW w \in Ticks, wpc'[w] \in {"asked", "answered"}
             PROVE  row'[wjob'[w]] # "none"
  BY DEF HeldRows
<1>1. CASE Asks(w)
  BY <1>1, RowsStay DEF Asks, Active, Live
<1>2. CASE Keeps(w) \/ Hears(w)
  <2>1. wjob'[w] = wjob[w] /\ wpc[w] \in {"asked", "answered"}
    BY <1>2 DEF Keeps, Hears
  <2>2. wjob[w] \in Jobs /\ row[wjob[w]] # "none"
    BY <2>1 DEF TicksInv, HeldRows
  <2> QED BY <2>1, <2>2, RowsStay
<1> QED BY <1>1, <1>2, TickSteps DEF Ends

LEMMA BootsNext ==
  ASSUME RunsInv, TicksInv, BootsInv, setting \in Settings, boot \in Nat, [Next]_vars
  PROVE  BootsInv'
<1> USE SettingStays
<1>20. HeldRows'
  BY HeldNext DEF BootsInv
<1> USE <1>20
<1>0. DOMAIN row = Jobs /\ DOMAIN helper = Jobs /\ boot + 0 = boot
  BY DEF RunsInv
<1>1. ASSUME UNCHANGED host,
             \A k \in Jobs : row'[k] = "none" \/ row[k] # "none" PROVE BootsInv'
  BY <1>1, BootsByHelpers DEF host
<1>2. ASSUME NEW j \in Jobs, StartJob(j) PROVE BootsInv'
  <2>1. /\ UNCHANGED <<helper, up, boot>> /\ row' = [row EXCEPT ![j] = "queued"]
        /\ j \in setting.jobs
    BY <1>2 DEF StartJob
  <2> QED BY <1>0, <2>1, BootsByHelpers
<1>3. ASSUME NEW j \in Jobs, NEW h \in {"eaten", "done", "work", "sleep", "dead"},
             helper[j] # "rebooted", helper' = [helper EXCEPT ![j] = h],
             UNCHANGED <<row, up, boot>>
      PROVE  BootsInv'
  BY <1>0, <1>3, BootsByHelpers
<1>4. ASSUME NEW j \in Jobs, ArmRun(j) \/ Kill(j) PROVE BootsInv'
  <2>1. UNCHANGED <<row, up, boot>> /\ helper[j] # "rebooted"
        /\ \E h \in {"eaten", "dead"} : helper' = [helper EXCEPT ![j] = h]
    BY <1>4 DEF ArmRun, Kill, Alive, rows
  <2> QED BY <1>3, <2>1
<1>5. ASSUME NEW j \in Jobs, ArmOk(j) \/ ArmFail(j) PROVE BootsInv'
  <2>1. row[j] # "none"
    BY <1>5 DEF ArmOk, ArmFail, RunsInv
  <2> QED BY <1>0, <1>1, <1>5, <2>1 DEF ArmOk, ArmFail, rows
<1>6. ASSUME NEW j \in Jobs, Helper(j) PROVE BootsInv'
  <2>1. CASE HelperReboot(j)
    BY <2>1, BootsReboot DEF HelperReboot
  <2>2. CASE HelperProgress(j)
    BY <2>2, BootsByHelpers DEF HelperProgress, HelperOnly, rows
  <2>3. CASE HelperStart(j) \/ HelperBusy(j) \/ HelperLock(j) \/ HelperEnd(j) \/ HelperSleep(j)
    <3>1. UNCHANGED <<row, up, boot>> /\ helper[j] # "rebooted"
          /\ \E h \in {"eaten", "done", "work", "sleep"} : helper' = [helper EXCEPT ![j] = h]
      BY <2>3 DEF HelperStart, HelperBusy, HelperLock, HelperEnd, HelperSleep,
         HelperOnly, rows,
         RunsInv
    <3> QED BY <1>3, <3>1
  <2> QED BY <1>6, <2>1, <2>2, <2>3 DEF Helper
<1>7. ASSUME NEW j \in Jobs, Age(j) \/ Overrun(j) PROVE BootsInv'
  BY <1>1, <1>7 DEF Age, Overrun, rows
<1>8. ASSUME NEW w \in Ticks, LocalTick(w) \/ BehindJudge(w) \/ Judge(w) PROVE BootsInv'
  <2>1. PICK j \in Jobs : row[j] # "none" /\ \E r, p : Verdict(w, j, r, p)
    BY <1>8 DEF LocalTick, BehindJudge, Judge, Active, Live, TicksInv, BootsInv, HeldRows
  <2>2. row' = row \/ \E s : row' = [row EXCEPT ![j] = s]
    BY <2>1 DEF Verdict, CameBack, NeverBack, NeverStarted, NoVerdict, MirrorThrows,
       Mirror,
       Settle, rows
  <2>3. UNCHANGED host
    BY <1>8 DEF LocalTick, BehindJudge, Judge
  <2> QED BY <1>0, <1>1, <2>1, <2>2, <2>3
<1>9. ASSUME NEW w \in Ticks,
             RemoteTick(w) \/ BehindTick(w) \/ Answer(w) \/ NoAnswer(w)
               \/ Told(w) \/ Cut(w) PROVE BootsInv'
  BY <1>1, <1>9 DEF RemoteTick, BehindTick, Answer, NoAnswer, Told, Cut, rows
<1>10. CASE BotStart \/ Reconcile \/ Reconciled
  <2>1. row' = row \/ \E j \in Jobs : row[j] # "none" /\ \E s : row' = [row EXCEPT ![j] = s]
    BY <1>10, MaintenanceAssumption
    DEF BotStart, Reconcile, Reconciled, Resolve, Active, Live, TicksInv, BootsInv,
    HeldRows, rows
  <2>2. UNCHANGED host
    BY <1>10 DEF BotStart, Reconcile, Reconciled
  <2> QED BY <1>0, <1>1, <2>1, <2>2
<1>11. CASE UnplannedReboot
  BY <1>11, BootsReboot, MaintenanceAssumption DEF UnplannedReboot, Gone
<1>12. CASE Boot
  <2>1. Gone' = Gone /\ row' = row /\ boot' = boot + 1 /\ up' /\ ~ up
    BY <1>12 DEF Boot, Gone, rows
  <2> QED BY <2>1 DEF BootsInv
<1>13. CASE Crash \/ UNCHANGED vars
  BY <1>1, <1>13 DEF Crash, vars, rows
<1> QED
  BY <1>2, <1>4, <1>5, <1>6, <1>7, <1>8, <1>9, <1>10, <1>11, <1>12, <1>13
  DEF Next, Worker, Startup

LEMMA HostTypes ==
  ASSUME RunsInv, HostInv, TicksInv, BootsInv, TypeOK, [Next]_vars
  PROVE  HostTyped'
<1> USE DEF HostTyped
<1>0. HostTyped /\ setting \in Settings /\ setting' = setting
  BY TypeParts, SettingStays DEF ClockTyped
<1>1. MaxBoot' = MaxBoot /\ MaxBoot \in Nat
  BY <1>0, SettingIs DEF MaxBoot
<1>2. boot' \in 0..MaxBoot
  <2>1. BootsInv' /\ RunsInv' /\ HostInv'
    BY <1>0, BootsNext, RunsNext, HostNext DEF HostInv
  <2>2. boot + 0 = boot /\ boot \in 0..MaxBoot /\ (~ up => boot + 1 \in 0..MaxBoot)
    BY <1>0, BootsBound DEF HostInv
  <2>3. boot' = boot \/ (~ up /\ boot' = boot + 1)
    <3>1. ASSUME NEW j \in Jobs,
                 StartJob(j) \/ ArmRun(j) \/ ArmOk(j) \/ ArmFail(j) \/ Kill(j)
                                 \/ Age(j) \/ Overrun(j)
          PROVE  boot' = boot
      BY <3>1 DEF StartJob, ArmRun, ArmOk, ArmFail, Kill, Age, Overrun, host
    <3>2. ASSUME NEW j \in Jobs, Helper(j) PROVE boot' = boot
      BY <3>2 DEF Helper, HelperStart, HelperBusy, HelperLock, HelperProgress,
         HelperEnd,
         HelperSleep, HelperReboot, Reboot, Down, HelperOnly
    <3>3. ASSUME NEW w \in Ticks, Worker(w) \/ NoAnswer(w) \/ Cut(w) PROVE boot' = boot
      BY <3>3 DEF Worker, NoAnswer, Cut, LocalTick, BehindTick, BehindJudge,
     RemoteTick, Answer, Judge, Told, host
    <3>4. CASE Startup \/ Crash \/ UNCHANGED vars
      BY <3>4 DEF Startup, BotStart, Reconcile, Reconciled, Crash, vars, host
    <3>5. CASE UnplannedReboot
      BY <3>5 DEF UnplannedReboot, Reboot, Down
    <3>6. CASE Boot
      BY <3>6 DEF Boot
    <3> QED BY <3>1, <3>2, <3>3, <3>4, <3>5, <3>6 DEF Next
  <2> QED BY <2>2, <2>3
<1> HIDE DEF MaxBoot
<1>3. ASSUME UNCHANGED host PROVE HostTyped'
  BY <1>0, <1>1, <1>3 DEF host
<1>4. ASSUME NEW j \in Jobs, StartJob(j) PROVE HostTyped'
  <2>1. armed' \in SUBSET Jobs /\ UNCHANGED <<helper, file, fboot, up, boot, runs>>
    BY <1>0, <1>4 DEF StartJob
  <2> QED BY <1>0, <1>1, <2>1
<1>5. ASSUME NEW j \in Jobs,
             NEW h \in {"none", "dead", "done", "rebooted"} \cup Alive,
             helper' = [helper EXCEPT ![j] = h], UNCHANGED <<up, boot>>,
             armed' \subseteq armed,
             \/ UNCHANGED <<file, fboot, runs>>
             \/ UNCHANGED <<file, fboot>> /\ runs' = [runs EXCEPT ![j] = @ + 1]
             \/ UNCHANGED runs /\ \E s \in {"running", "rebooting", "succeeded", "failed"} : WriteState(j, s)
      PROVE  HostTyped'
  <2>1. /\ helper' \in [Jobs -> {"none", "dead", "done", "rebooted"} \cup Alive]
        /\ armed' \in SUBSET Jobs /\ UNCHANGED <<up, boot>>
    BY <1>0, <1>5
  <2>2. /\ file' \in [Jobs -> {"none", "running", "rebooting", "succeeded", "failed"}]
        /\ fboot' \in [Jobs -> 0..MaxBoot]
    BY <1>0, <1>5 DEF WriteState
  <2>3. runs' \in [Jobs -> Nat]
    BY <1>0, <1>5
  <2> QED BY <1>0, <1>1, <2>1, <2>2, <2>3
<1>6. ASSUME NEW j \in Jobs, ArmRun(j) \/ Kill(j) PROVE HostTyped'
  BY <1>5, <1>6 DEF ArmRun, Kill, Alive
<1>7. ASSUME NEW j \in Jobs,
             ArmOk(j) \/ ArmFail(j) \/ Age(j) \/ Overrun(j) PROVE HostTyped'
  BY <1>3, <1>7 DEF ArmOk, ArmFail, Age, Overrun
<1>8. ASSUME NEW j, Reboot(j) PROVE HostTyped'
  <2>1. helper' \in [Jobs -> {"none", "dead", "done", "rebooted"} \cup Alive]
    BY <1>0, <1>8 DEF Reboot, Down
  <2>2. armed' = {} /\ UNCHANGED <<file, fboot, boot, runs>>
    BY <1>8 DEF Reboot, Down
  <2>3. up' \in BOOLEAN
    BY <1>8 DEF Reboot, Down
  <2> QED BY <1>0, <1>1, <2>1, <2>2, <2>3
<1>9. ASSUME NEW j \in Jobs, Helper(j) PROVE HostTyped'
  <2>1. CASE HelperStart(j)
    BY <1>5, <2>1 DEF HelperStart, HelperOnly, Alive
  <2>2. CASE HelperBusy(j)
    BY <1>5, <2>2 DEF HelperBusy, HelperOnly, Alive
  <2>3. CASE HelperLock(j)
    BY <1>5, <2>3 DEF HelperLock, HelperOnly, Alive
  <2>4. CASE HelperProgress(j)
    <3>1. helper[j] = "work" /\ helper' = [helper EXCEPT ![j] = "work"] /\ "work" \in Alive
      BY <1>0, <2>4 DEF HelperProgress, Alive
    <3> QED BY <1>5, <2>4, <3>1 DEF HelperProgress, HelperOnly
  <2>5. CASE HelperEnd(j)
    BY <1>5, <2>5 DEF HelperEnd, HelperOnly, Alive
  <2>6. CASE HelperSleep(j)
    BY <1>5, <2>6 DEF HelperSleep, HelperOnly, Alive
  <2>7. CASE HelperReboot(j)
    BY <1>8, <2>7 DEF HelperReboot
  <2> QED BY <1>9, <2>1, <2>2, <2>3, <2>4, <2>5, <2>6, <2>7 DEF Helper
<1>10. ASSUME NEW w \in Ticks, Worker(w) \/ NoAnswer(w) \/ Cut(w) PROVE HostTyped'
  BY <1>3, <1>10 DEF Worker, NoAnswer, Cut, LocalTick, BehindTick, BehindJudge,
     RemoteTick, Answer, Judge, Told
<1>11. CASE Startup \/ Crash \/ UNCHANGED vars
  BY <1>3, <1>11 DEF Startup, BotStart, Reconcile, Reconciled, Crash, vars
<1>12. CASE UnplannedReboot
  BY <1>8, <1>12 DEF UnplannedReboot
<1>13. CASE Boot
  <2>1. up' \in BOOLEAN /\ UNCHANGED <<armed, helper, file, fboot, runs>>
    BY <1>13 DEF Boot
  <2> QED BY <1>0, <1>1, <1>2, <2>1
<1> QED
  BY <1>4, <1>6, <1>7, <1>9, <1>10, <1>11, <1>12, <1>13 DEF Next

\* What a probe or a row read now looks like.
LEMMA ProbeTyped ==
  ASSUME RowsTyped, HostTyped, NEW j \in Jobs
  PROVE  Probe(j) \in Probes /\ (j \in Active => ReadRow(j) \in Rows)
<1>1. UnitAlive(j) \in BOOLEAN
  <2>1. CASE Server = "a"
    BY <2>1 DEF UnitAlive
  <2>2. CASE Server # "a"
    BY <2>2 DEF UnitAlive
  <2> QED BY <2>1, <2>2
<1>2. Probe(j) \in Probes
  BY <1>1 DEF Probe, Probes, HostTyped
<1>3. ASSUME j \in Active PROVE ReadRow(j) \in Rows
  BY <1>3 DEF ReadRow, Rows, RowsTyped, Active
<1> QED BY <1>2, <1>3

LEMMA WorkTypes ==
  ASSUME RunsInv, TicksInv, BootsInv, TypeOK, MaxBoot' = MaxBoot, [Next]_vars
  PROVE  WorkTyped'
<1>0. WorkTyped /\ RowsTyped /\ HostTyped /\ Rec \in Ticks
  BY TypeParts, MaintenanceAssumption
<1>1. NoRow \in Rows /\ NoProbe \in Probes
  <2>1. 0 \in 0..MaxBoot
    BY TypeParts, SettingIs DEF ClockTyped
  <2> QED BY <2>1 DEF NoRow, NoProbe, Rows, Probes, Live
<1>2. Rows' = Rows /\ Probes' = Probes
  BY DEF Rows, Probes
<1> HIDE DEF Rows, Probes, NoRow, NoProbe, MaxBoot
<1>3. ASSUME UNCHANGED work PROVE WorkTyped'
  BY <1>0, <1>2, <1>3 DEF work, WorkTyped
<1>4. ASSUME NEW w \in Ticks, Rest(w) \/ \E j \in Jobs : Tell(w, j) PROVE WorkTyped'
  <2>1. /\ wrow' = [wrow EXCEPT ![w] = NoRow] /\ wprobe' = [wprobe EXCEPT ![w] = NoProbe]
        /\ \E s \in {"idle", "tell"} : wpc' = [wpc EXCEPT ![w] = s]
        /\ \E j \in Jobs \cup {None} : wjob' = [wjob EXCEPT ![w] = j]
    BY <1>4 DEF Rest, Tell
  <2> QED BY <1>0, <1>1, <1>2, <2>1 DEF WorkTyped
<1>5. ASSUME Forget PROVE WorkTyped'
  BY <1>1, <1>2, <1>5 DEF Forget, WorkTyped
<1>6. ASSUME NEW w \in Ticks, NEW j \in Active, Ask(w, j) PROVE WorkTyped'
  <2>1. ReadRow(j) \in Rows /\ j \in Jobs
    BY <1>0, ProbeTyped DEF Active
  <2> QED BY <1>0, <1>2, <1>6, <2>1 DEF Ask, WorkTyped
<1>7. ASSUME NEW w \in Ticks, Answer(w) \/ NoAnswer(w) PROVE WorkTyped'
  <2>1. Probe(wjob[w]) \in Probes
    BY <1>0, <1>7, ProbeTyped DEF Answer, NoAnswer, TicksInv
  <2> QED BY <1>0, <1>2, <1>7, <2>1 DEF Answer, NoAnswer, WorkTyped
<1>8. ASSUME NEW j \in Jobs,
             StartJob(j) \/ ArmRun(j) \/ ArmOk(j) \/ ArmFail(j) \/ Kill(j) \/ Age(j) \/ Overrun(j)
      PROVE  WorkTyped'
  BY <1>3, <1>8 DEF StartJob, ArmRun, ArmOk, ArmFail, Kill, Age, Overrun
<1>9. ASSUME NEW j, Reboot(j) PROVE WorkTyped'
  BY <1>3, <1>5, <1>9 DEF Reboot
<1>10. ASSUME NEW j \in Jobs, Helper(j) PROVE WorkTyped'
  BY <1>3, <1>9, <1>10 DEF Helper, HelperStart, HelperBusy, HelperLock,
     HelperProgress,
     HelperEnd, HelperSleep, HelperReboot, HelperOnly
<1>11. ASSUME NEW w \in Ticks, LocalTick(w) \/ BehindJudge(w) \/ Judge(w) PROVE WorkTyped'
  <2>1. PICK j \in Jobs : \E r, p : Verdict(w, j, r, p)
    BY <1>11 DEF LocalTick, BehindJudge, Judge, Active, TicksInv
  <2>2. Rest(w) \/ Tell(w, j)
    BY <2>1 DEF Verdict, CameBack, NeverBack, NeverStarted, NoVerdict, MirrorThrows,
       Mirror,
       Settle, Announce
  <2> QED BY <1>4, <2>2
<1>12. ASSUME NEW w \in Ticks, RemoteTick(w) \/ BehindTick(w) PROVE WorkTyped'
  BY <1>6, <1>12 DEF RemoteTick, BehindTick
<1>13. ASSUME NEW w \in Ticks, Told(w) \/ Cut(w) PROVE WorkTyped'
  BY <1>4, <1>13 DEF Told, Cut
<1>14. ASSUME NEW j \in Jobs, NEW p, Resolve(j, p) PROVE WorkTyped'
  BY <1>0, <1>4, <1>14 DEF Resolve
<1>15. CASE BotStart
  BY <1>0, <1>3, <1>6, <1>14, <1>15 DEF BotStart, Active
<1>16. CASE Reconcile
  BY <1>0, <1>14, <1>16 DEF Reconcile, TicksInv
<1>17. CASE Reconciled
  BY <1>0, <1>4, <1>17 DEF Reconciled
<1>18. CASE UnplannedReboot
  BY <1>9, <1>18 DEF UnplannedReboot
<1>19. CASE Boot \/ UNCHANGED vars
  BY <1>3, <1>19 DEF Boot, vars
<1>20. CASE Crash
  BY <1>5, <1>20 DEF Crash
<1> QED
  BY <1>7, <1>8, <1>10, <1>11, <1>12, <1>13, <1>15, <1>16, <1>17, <1>18, <1>19, <1>20
  DEF Next, Worker, Startup

\* The answers and rows that verdicts work with.
LEMMA VerdictTypes ==
  ASSUME RowsTyped, ClockTyped, MemoryTyped, told \in [Jobs -> 0..2],
         MaxBoot' = MaxBoot,
         UNCHANGED <<clock, arming, bot>>,
         NEW w, NEW j \in Jobs, NEW r, NEW p \in Probes, Verdict(w, j, r, p)
  PROVE  RowsTyped' /\ ClockTyped' /\ MemoryTyped' /\ told' \in [Jobs -> 0..2]
<1> DEFINE Statuses == {"none"} \cup Live \cup Terminal
<1>0. /\ p.file \in {"none", "running", "rebooting", "succeeded", "failed"}
      /\ p.fboot \in 0..MaxBoot
  BY DEF Probes
<1>1. ClockTyped'
  BY DEF ClockTyped, clock
<1>2. \E s \in Statuses : row' = row \/ row' = [row EXCEPT ![j] = s]
  BY <1>0 DEF Verdict, CameBack, NeverBack, NeverStarted, NoVerdict, MirrorThrows,
     Mirror,
     Settle, rows, Live, Terminal
<1>3. /\ rboot' = rboot \/ rboot' = [rboot EXCEPT ![j] = p.fboot]
      /\ stamped' = stamped \/ stamped' = [stamped EXCEPT ![j] = @ \/ p.file = "rebooting"]
  BY DEF Verdict, CameBack, NeverBack, NeverStarted, NoVerdict, MirrorThrows, Mirror,
     MirrorRow,
     rows
<1>4. RowsTyped'
  <2>1. row' \in [Jobs -> Statuses]
    BY <1>2 DEF RowsTyped
  <2>2. rboot' \in [Jobs -> 0..MaxBoot]
    BY <1>0, <1>3 DEF RowsTyped
  <2>3. stamped' \in [Jobs -> BOOLEAN]
    BY <1>3 DEF RowsTyped
  <2> QED BY <2>1, <2>2, <2>3 DEF RowsTyped
<1>5. \E n \in 0..2 : dead' = dead \/ dead' = [dead EXCEPT ![j] = n]
  BY DEF Verdict, CameBack, NeverBack, NeverStarted, NoVerdict, MirrorThrows, Mirror
<1>6. \E s \in Statuses : announced' = announced \/ announced' = [announced EXCEPT ![j] = s]
  BY <1>0 DEF Verdict, CameBack, NeverBack, NeverStarted, NoVerdict, MirrorThrows,
     Mirror,
     Settle, Announce, Live, Terminal
<1>7. MemoryTyped'
  <2>1. dead' \in [Jobs -> 0..2]
    BY <1>5 DEF MemoryTyped
  <2>2. announced' \in [Jobs -> Statuses]
    BY <1>6 DEF MemoryTyped
  <2> QED BY <2>1, <2>2 DEF MemoryTyped
<1>8. told' = told \/ told' = [told EXCEPT ![j] = IF @ = 2 THEN 2 ELSE @ + 1]
  BY DEF Verdict, CameBack, NeverBack, NeverStarted, NoVerdict, MirrorThrows, Mirror,
     Settle, Announce, Tell
<1>9. told' \in [Jobs -> 0..2]
  BY <1>8
<1> QED BY <1>1, <1>4, <1>7, <1>9

LEMMA ReadyTypes ==
  ASSUME RowsTyped, MemoryTyped, Ready, UNCHANGED <<arming, dead>>
  PROVE  MemoryTyped'
<1>1. bot' = "up"
  BY DEF Ready
<1>2. announced' \in [Jobs -> {"none"} \cup Live \cup Terminal]
  BY DEF Ready, RowsTyped, MemoryTyped
<1> QED BY <1>1, <1>2 DEF MemoryTyped

LEMMA ResolveTypes ==
  ASSUME RowsTyped, ClockTyped, MemoryTyped, told \in [Jobs -> 0..2],
         MaxBoot' = MaxBoot,
         UNCHANGED <<clock, arming, dead>>, NEW j \in Jobs, NEW p \in Probes,
         Resolve(j, p)
  PROVE  RowsTyped' /\ ClockTyped' /\ MemoryTyped' /\ told' \in [Jobs -> 0..2]
<1>0. p.fboot \in 0..MaxBoot
  BY DEF Probes
<1>1. ClockTyped'
  BY DEF ClockTyped, clock
<1>2. CASE Ready /\ UNCHANGED <<rows, told>>
  BY <1>1, <1>2, ReadyTypes DEF RowsTyped, rows
<1>3. CASE /\ Outcome(j, p) # "leave"
           /\ row' = [row EXCEPT ![j] = Outcome(j, p)]
           /\ announced' = [announced EXCEPT ![j] = Outcome(j, p)]
           /\ rboot' = [rboot EXCEPT ![j] = IF p.file \in Terminal THEN p.fboot ELSE @]
           /\ Tell(Rec, j) /\ bot' = "reconcile" /\ UNCHANGED stamped
  <2>1. Outcome(j, p) \in Terminal
    BY <1>3 DEF Outcome, Terminal
  <2>2. RowsTyped'
    <3>1. row' \in [Jobs -> {"none"} \cup Live \cup Terminal]
      BY <1>3, <2>1 DEF RowsTyped
    <3>2. rboot' \in [Jobs -> 0..MaxBoot]
      BY <1>0, <1>3 DEF RowsTyped
    <3> QED BY <1>3, <3>1, <3>2 DEF RowsTyped
  <2>3. MemoryTyped'
    BY <1>3, <2>1 DEF MemoryTyped
  <2>4. told' \in [Jobs -> 0..2]
    BY <1>3 DEF Tell
  <2> QED BY <1>1, <2>2, <2>3, <2>4
<1> QED BY <1>2, <1>3 DEF Resolve

\* The table and the process's memory.
MindTyped == RowsTyped /\ ClockTyped /\ MemoryTyped /\ told \in [Jobs -> 0..2]

LEMMA MindTypes ==
  ASSUME RunsInv, TicksInv, BootsInv, TypeOK, MaxBoot' = MaxBoot, [Next]_vars
  PROVE  MindTyped'
<1>0. MindTyped /\ WorkTyped /\ HostTyped /\ Rec \in Ticks
  BY TypeParts, MaintenanceAssumption DEF MindTyped
<1> HIDE DEF MaxBoot
<1>1. ASSUME UNCHANGED <<rows, clock, memory, bot, told>> PROVE MindTyped'
  BY <1>0, <1>1 DEF MindTyped, RowsTyped, ClockTyped, MemoryTyped, rows, clock, memory
<1>2. ASSUME Forget, UNCHANGED <<rows, clock, told>> PROVE MindTyped'
  <2>1. MemoryTyped'
    BY <1>2 DEF Forget, MemoryTyped
  <2> QED BY <1>0, <1>2, <2>1 DEF MindTyped, RowsTyped, ClockTyped, rows, clock
<1>3. ASSUME NEW j \in Jobs, StartJob(j) PROVE MindTyped'
  <2>1. /\ row' = [row EXCEPT ![j] = "queued"] /\ arming' \in {arming, arming \cup {j}}
        /\ UNCHANGED <<rboot, stamped, clock, dead, announced, bot, told>>
    BY <1>3 DEF StartJob
  <2> QED BY <1>0, <2>1 DEF MindTyped, RowsTyped, ClockTyped, MemoryTyped, clock, Live
<1>4. ASSUME NEW j \in Jobs, ArmOk(j) \/ ArmFail(j) PROVE MindTyped'
  <2>1. /\ row' = row \/ row' = [row EXCEPT ![j] = "failed"]
        /\ arming' = arming \ {j} /\ UNCHANGED <<rboot, stamped, clock, dead, announced, bot, told>>
    BY <1>4 DEF ArmOk, ArmFail, rows
  <2> QED BY <1>0, <2>1 DEF MindTyped, RowsTyped, ClockTyped, MemoryTyped, clock,
             Terminal
<1>5. ASSUME NEW j \in Jobs, ArmRun(j) \/ Kill(j) PROVE MindTyped'
  BY <1>1, <1>5 DEF ArmRun, Kill
<1>6. ASSUME NEW j, Reboot(j) PROVE MindTyped'
  BY <1>1, <1>2, <1>6 DEF Reboot
<1>7. ASSUME NEW j \in Jobs, Helper(j) PROVE MindTyped'
  BY <1>1, <1>6, <1>7 DEF Helper, HelperStart, HelperBusy, HelperLock, HelperProgress,
     HelperEnd, HelperSleep, HelperReboot, HelperOnly
<1>8. ASSUME NEW j \in Jobs, Age(j) PROVE MindTyped'
  <2>1. aged' \in [Jobs -> BOOLEAN] /\ UNCHANGED <<rows, overdue, setting, memory, bot, told>>
    BY <1>0, <1>8 DEF Age, MindTyped, ClockTyped
  <2> QED BY <1>0, <2>1 DEF MindTyped, RowsTyped, ClockTyped, MemoryTyped, rows,
             memory
<1>9. ASSUME NEW j \in Jobs, Overrun(j) PROVE MindTyped'
  <2>1. overdue' \in [Jobs -> BOOLEAN] /\ UNCHANGED <<rows, aged, setting, memory, bot, told>>
    BY <1>0, <1>9 DEF Overrun, MindTyped, ClockTyped
  <2> QED BY <1>0, <2>1 DEF MindTyped, RowsTyped, ClockTyped, MemoryTyped, rows,
             memory
<1>10. ASSUME NEW w \in Ticks, LocalTick(w) \/ BehindJudge(w) \/ Judge(w) PROVE MindTyped'
  <2>1. PICK j \in Jobs : \E r : \E p \in Probes : Verdict(w, j, r, p)
    BY <1>0, <1>10, ProbeTyped DEF LocalTick, BehindJudge, Judge, Active, TicksInv, MindTyped,
       WorkTyped
  <2>2. UNCHANGED <<clock, arming, bot>>
    BY <1>10 DEF LocalTick, BehindJudge, Judge
  <2> QED BY <1>0, <2>1, <2>2, VerdictTypes DEF MindTyped
<1>11. ASSUME NEW w \in Ticks,
              RemoteTick(w) \/ BehindTick(w) \/ Answer(w) \/ NoAnswer(w) \/ Cut(w)
       PROVE  MindTyped'
  BY <1>1, <1>11 DEF RemoteTick, BehindTick, Answer, NoAnswer, Cut
<1>12. ASSUME NEW w \in Ticks, Told(w) PROVE MindTyped'
  <2>1. /\ announced' = [announced EXCEPT ![wjob[w]] = "none"]
        /\ dead' = [dead EXCEPT ![wjob[w]] = 0] /\ UNCHANGED <<rows, clock, arming, bot, told>>
    BY <1>12 DEF Told
  <2>3. announced' \in [Jobs -> {"none"} \cup Live \cup Terminal]
    BY <1>0, <2>1 DEF MindTyped, MemoryTyped
  <2>4. dead' \in [Jobs -> 0..2]
    <3>1. dead \in [Jobs -> 0..2] /\ 0 \in 0..2
      BY <1>0 DEF MindTyped, MemoryTyped
    <3>2. dead' = [dead EXCEPT ![wjob[w]] = 0]
      BY <2>1
    <3> QED BY <3>1, <3>2
  <2>2. MemoryTyped'
    BY <1>0, <2>1, <2>3, <2>4 DEF MindTyped, MemoryTyped
  <2> QED BY <1>0, <2>1, <2>2 DEF MindTyped, RowsTyped, ClockTyped, rows, clock
<1>13. ASSUME Ready, UNCHANGED <<rows, clock, told, arming, dead>> PROVE MindTyped'
  <2>1. MemoryTyped'
    BY <1>0, <1>13, ReadyTypes DEF MindTyped
  <2> QED BY <1>0, <1>13, <2>1 DEF MindTyped, RowsTyped, ClockTyped, rows, clock
<1>14. ASSUME NEW j \in Jobs, NEW p \in Probes, Resolve(j, p),
              UNCHANGED <<clock, arming, dead>>
       PROVE  MindTyped'
  BY <1>0, <1>14, ResolveTypes DEF MindTyped
<1>15. CASE BotStart
  <2>0. UNCHANGED <<clock, arming, dead>>
    BY <1>15 DEF BotStart
  <2>1. CASE Ready /\ UNCHANGED <<rows, work, told>>
    BY <1>13, <2>0, <2>1
  <2>2. ASSUME NEW j \in Active, Resolve(j, Probe(j)) PROVE MindTyped'
    BY <1>0, <1>14, <2>0, <2>2, ProbeTyped DEF Active, MindTyped
  <2>3. CASE bot' = "reconcile" /\ UNCHANGED <<rows, announced, told>>
    BY <1>0, <2>0, <2>3 DEF MindTyped, RowsTyped, ClockTyped, MemoryTyped, rows, clock
  <2> QED BY <1>15, <2>1, <2>2, <2>3 DEF BotStart
<1>16. CASE Reconcile
  <2>1. wjob[Rec] \in Jobs /\ wprobe[Rec] \in Probes
    BY <1>0, <1>16 DEF Reconcile, TicksInv, WorkTyped
  <2> QED BY <1>14, <1>16, <2>1 DEF Reconcile
<1>17. CASE Reconciled
  BY <1>13, <1>17 DEF Reconciled
<1>18. CASE UnplannedReboot
  BY <1>6, <1>18 DEF UnplannedReboot
<1>19. CASE Boot \/ UNCHANGED vars
  BY <1>1, <1>19 DEF Boot, vars
<1>20. CASE Crash
  BY <1>2, <1>20 DEF Crash
<1> QED
  BY <1>3, <1>4, <1>5, <1>7, <1>8, <1>9, <1>10, <1>11, <1>12, <1>15, <1>16, <1>17,
     <1>18,
     <1>19, <1>20
  DEF Next, Worker, Startup

\* What is true of the jobs, the host, the table and the ticks on every run.
JobsInv == RunsInv /\ HostInv /\ TableInv /\ TicksInv /\ BootsInv /\ TypeOK

LEMMA JobsInit == Init => JobsInv
<1> SUFFICES ASSUME Init PROVE JobsInv
  OBVIOUS
<1>1. RunsInv /\ HostInv /\ TableInv /\ TicksInv
  BY RunsInit, TruthInit
<1>2. setting \in Settings /\ boot = 0 /\ up
  BY DEF Init
<1>3. Gone = {} /\ setting.reboots \in Nat
  BY <1>2, SettingIs DEF Init, Gone
<1>4. BootsInv
  <2>1. Cardinality(Gone) = 0
    BY <1>3, FS_EmptySet
  <2>2. HeldRows /\ \A j \in Jobs : row[j] = "none"
    BY DEF Init, HeldRows
  <2> QED BY <1>2, <1>3, <2>1, <2>2 DEF BootsInv
<1>5. 0 \in 0..MaxBoot
  BY <1>2, SettingIs
<1> HIDE DEF MaxBoot
<1>6. RowsTyped /\ ClockTyped /\ MemoryTyped
  BY <1>5 DEF Init, RowsTyped, ClockTyped, MemoryTyped
<1>7. WorkTyped
  BY <1>5 DEF Init, WorkTyped, NoRow, NoProbe, Rows, Probes, Live
<1>8. HostTyped
  BY <1>5 DEF Init, HostTyped
<1>9. told \in [Jobs -> 0..2]
  BY DEF Init
<1> QED BY <1>1, <1>4, <1>6, <1>7, <1>8, <1>9, TypeParts DEF JobsInv

LEMMA JobsNext == JobsInv /\ [Next]_vars => JobsInv'
<1> SUFFICES ASSUME JobsInv, [Next]_vars PROVE JobsInv'
  OBVIOUS
<1> USE DEF JobsInv
<1>1. RunsInv' /\ HostInv' /\ TableInv' /\ TicksInv'
  BY RunsNext, HostNext, TableNext, TicksNext
<1>2. setting \in Settings /\ boot \in Nat
  BY TypeParts DEF ClockTyped, HostInv
<1>3. BootsInv'
  BY <1>2, BootsNext
<1>4. MaxBoot' = MaxBoot
  BY SettingStays DEF MaxBoot
<1>5. HostTyped' /\ WorkTyped' /\ MindTyped'
  BY <1>4, HostTypes, WorkTypes, MindTypes
<1>6. (RowsTyped /\ ClockTyped /\ MemoryTyped /\ WorkTyped /\ HostTyped /\ told \in [Jobs -> 0..2])'
  BY <1>5 DEF MindTyped
<1>7. TypeOK'
  BY <1>6 DEF TypeOK, RowsTyped, ClockTyped, MemoryTyped, WorkTyped, HostTyped
<1> QED BY <1>1, <1>3, <1>7

LEMMA JobsHold == Spec => []JobsInv
BY JobsInit, JobsNext, PTL DEF Spec

\* Type correctness, which bounds the boots by the jobs that ask for one and
\* those nobody asked for.
THEOREM MaintenanceTypes == Spec => []TypeOK
<1>1. JobsInv => TypeOK
  BY DEF JobsInv
<1> QED BY <1>1, JobsHold, PTL

-----------------------------------------------------------------------------
(* Helpers and their files, and what speaks against a job.                 *)
\* A helper's stage shows in its file, and it lives while its server is up.
FilesInv ==
  \A j \in Jobs :
    /\ helper[j] \in {"none", "eaten"} => file[j] = "none"
    /\ file[j] = "running" => helper[j] \in {"work", "dead"}
    /\ file[j] = "running" /\ helper[j] = "work" => fboot[j] = boot
    /\ file[j] \in {"succeeded", "failed"} => helper[j] = "done"
    /\ file[j] = "rebooting" => helper[j] \in {"sleep", "rebooted", "dead"}
    /\ helper[j] \in {"sleep", "rebooted"} => file[j] = "rebooting"
    /\ helper[j] \in Alive => up

\* Deadlines only strike what is lost, and no command is lost.
Serene == ~ Late /\ "ssh" \notin Faults

\* The job's reboot will not happen any more.
Doomed(j) ==
  \/ helper[j] \in {"dead", "done"}
  \/ helper[j] = "none" /\ row[j] # "none" /\ j \notin arming \cup armed

\* What in an answer speaks against a job is so.
Fair(j, p) ==
  /\ p.file = "running" /\ (~ p.alive \/ p.boot # p.fboot) => helper[j] = "dead"
  /\ p.file = "failed" => helper[j] = "done"
  /\ p.file = "none" /\ aged[j] => Doomed(j)
  /\ p.file # "none" => file[j] # "none"

\* Whatever counts against a job, or ends it badly, is of a job that is doomed.
DoomInv ==
  /\ \A j \in Jobs :
       /\ row[j] \in {"failed", "unknown"} => Doomed(j)
       /\ overdue[j] => helper[j] = "dead"
       /\ dead[j] > 0 => helper[j] = "dead"
       /\ aged[j] => Doomed(j) \/ file[j] # "none"
  /\ \A w \in Ticks : wpc[w] = "answered" /\ wprobe[w].reached => Fair(wjob[w], wprobe[w])

LEMMA FilesNext ==
  ASSUME RunsInv, HostInv, FilesInv, [Next]_vars
  PROVE  FilesInv'
<1>0. DOMAIN helper = Jobs /\ DOMAIN file = Jobs /\ fboot \in [Jobs -> Nat]
  BY DEF RunsInv, HostInv
<1>1. ASSUME UNCHANGED <<helper, file, fboot, up, boot>> PROVE FilesInv'
  BY <1>1 DEF FilesInv
<1>2. ASSUME UNCHANGED host PROVE FilesInv'
  BY <1>1, <1>2 DEF host
<1>3. ASSUME NEW j \in Jobs, UNCHANGED <<file, fboot, up, boot>>,
             up \/ helper'[j] \notin Alive,
             NEW h, helper' = [helper EXCEPT ![j] = h],
             \/ helper[j] = "none" /\ h = "eaten"
             \/ helper[j] = "eaten" /\ h = "work"
             \/ helper[j] \in Alive /\ h = "dead"
      PROVE  FilesInv'
  BY <1>0, <1>3 DEF FilesInv, Alive
<1>4. ASSUME NEW j \in Jobs, StartJob(j) PROVE FilesInv'
  BY <1>1, <1>4 DEF StartJob
<1>5. ASSUME NEW j \in Jobs, ArmRun(j) \/ Kill(j) PROVE FilesInv'
  BY <1>0, <1>3, <1>5 DEF ArmRun, Kill, Alive
<1>6. ASSUME NEW j \in Jobs, HelperStart(j) \/ HelperLock(j) PROVE FilesInv'
  BY <1>3, <1>6 DEF HelperStart, HelperLock, HelperOnly, RunsInv, FilesInv, Alive
<1>7. ASSUME NEW j \in Jobs, NEW s, NEW h, WriteState(j, s),
             helper' = [helper EXCEPT ![j] = h],
             UNCHANGED <<up, boot>>, helper[j] \in Alive,
             \/ h = "done" /\ s \in {"succeeded", "failed"}
             \/ h = "sleep" /\ s = "rebooting"
             \/ h = "work" /\ s = "running"
      PROVE  FilesInv'
  BY <1>0, <1>7 DEF FilesInv, WriteState, Alive
<1>8. ASSUME NEW j \in Jobs,
             HelperBusy(j) \/ HelperEnd(j) \/ HelperSleep(j) PROVE FilesInv'
  BY <1>7, <1>8 DEF HelperBusy, HelperEnd, HelperSleep, HelperOnly, Alive
<1>9. ASSUME NEW j \in Jobs, HelperProgress(j) PROVE FilesInv'
  <2>1. WriteState(j, "running") /\ UNCHANGED <<helper, up, boot>> /\ helper[j] = "work"
    BY <1>9 DEF HelperProgress, HelperOnly
  <2> QED BY <1>0, <2>1 DEF FilesInv, WriteState, Alive
<1>10. ASSUME NEW j, Reboot(j), j \in Jobs => helper[j] = "sleep" PROVE FilesInv'
  <2>1. /\ \A k \in Jobs : helper'[k] = IF k = j THEN "rebooted"
                                        ELSE IF helper[k] \in Alive THEN "dead" ELSE helper[k]
        /\ UNCHANGED <<file, fboot, boot>>
    BY <1>10 DEF Reboot, Down
  <2> QED BY <1>10, <2>1 DEF FilesInv, Alive
<1>11. ASSUME NEW j \in Jobs, Helper(j) PROVE FilesInv'
  BY <1>6, <1>8, <1>9, <1>10, <1>11 DEF Helper, HelperReboot
<1>12. ASSUME NEW j \in Jobs,
              ArmOk(j) \/ ArmFail(j) \/ Age(j) \/ Overrun(j) PROVE FilesInv'
  BY <1>2, <1>12 DEF ArmOk, ArmFail, Age, Overrun
<1>13. ASSUME NEW w \in Ticks, Worker(w) \/ NoAnswer(w) \/ Cut(w) PROVE FilesInv'
  BY <1>2, <1>13 DEF Worker, NoAnswer, Cut, LocalTick, BehindTick, BehindJudge,
     RemoteTick, Answer, Judge, Told
<1>14. CASE Startup \/ Crash \/ UNCHANGED vars
  BY <1>2, <1>14 DEF Startup, BotStart, Reconcile, Reconciled, Crash, vars
<1>15. CASE UnplannedReboot
  BY <1>10, <1>15, MaintenanceAssumption DEF UnplannedReboot
<1>16. CASE Boot
  BY <1>16 DEF Boot, FilesInv, Alive
<1> QED
  BY <1>4, <1>5, <1>11, <1>12, <1>13, <1>14, <1>15, <1>16 DEF Next

\* A helper that ended stays so, one that was never armed too, and files stay.
LEMMA HelpersStay ==
  ASSUME RunsInv, HostInv, [Next]_vars, NEW j \in Jobs
  PROVE  /\ helper[j] \in {"dead", "done"} => helper'[j] = helper[j]
         /\ helper[j] = "none" /\ j \notin arming \cup armed => helper'[j] = "none"
         /\ row[j] # "none" /\ j \notin arming \cup armed => j \notin arming' \cup armed'
         /\ file[j] # "none" => file'[j] # "none"
<1> DEFINE Goal == /\ helper[j] \in {"dead", "done"} => helper'[j] = helper[j]
                   /\ helper[j] = "none" /\ j \notin arming \cup armed => helper'[j] = "none"
                   /\ row[j] # "none" /\ j \notin arming \cup armed => j \notin arming' \cup armed'
                   /\ file[j] # "none" => file'[j] # "none"
<1>0. DOMAIN helper = Jobs /\ DOMAIN file = Jobs
  BY DEF RunsInv, HostInv
<1>1. ASSUME UNCHANGED <<host>>, arming' \subseteq arming PROVE Goal
  BY <1>1 DEF host
<1>2. ASSUME NEW k \in Jobs, StartJob(k) PROVE Goal
  <2>1. /\ UNCHANGED <<helper, file>> /\ row[k] = "none"
        /\ armed' \subseteq armed \cup {k} /\ arming' \subseteq arming \cup {k}
    BY <1>2 DEF StartJob
  <2> QED BY <2>1
<1>3. ASSUME NEW k \in Jobs, ArmRun(k) PROVE Goal
  BY <1>0, <1>3 DEF ArmRun, memory
<1>4. ASSUME NEW k \in Jobs, Kill(k) PROVE Goal
  BY <1>0, <1>4 DEF Kill, memory, Alive
<1>5. ASSUME NEW k \in Jobs, NEW h, helper' = [helper EXCEPT ![k] = h],
             helper[k] \in Alive \/ k \in armed, helper[k] \notin {"dead", "done"},
             armed' \subseteq armed, HelperOnly,
             UNCHANGED file \/ \E s : s # "none" /\ WriteState(k, s)
      PROVE  Goal
  BY <1>0, <1>5 DEF HelperOnly, memory, WriteState, Alive
<1>6. ASSUME NEW k \in Jobs,
             HelperStart(k) \/ HelperBusy(k) \/ HelperLock(k) \/ HelperEnd(k) \/ HelperSleep(k)
      PROVE  Goal
  BY <1>5, <1>6 DEF HelperStart, HelperBusy, HelperLock, HelperEnd, HelperSleep,
     RunsInv, Alive
<1>7. ASSUME NEW k \in Jobs, HelperProgress(k) PROVE Goal
  BY <1>0, <1>7 DEF HelperProgress, HelperOnly, memory, WriteState
<1>8. ASSUME NEW k, k \in Jobs => helper[k] = "sleep", Reboot(k) PROVE Goal
  <2>1. /\ armed' = {} /\ UNCHANGED file /\ arming' \in {arming, {}}
        /\ \A i \in Jobs : helper'[i] = IF i = k THEN "rebooted"
                                        ELSE IF helper[i] \in Alive THEN "dead" ELSE helper[i]
    BY <1>8 DEF Reboot, Down, Forget, memory
  <2> QED BY <1>8, <2>1 DEF Alive
<1>9. ASSUME NEW k \in Jobs, Helper(k) PROVE Goal
  BY <1>6, <1>7, <1>8, <1>9 DEF Helper, HelperReboot
<1>10. ASSUME NEW k \in Jobs,
              ArmOk(k) \/ ArmFail(k) \/ Age(k) \/ Overrun(k) PROVE Goal
  BY <1>1, <1>10 DEF ArmOk, ArmFail, Age, Overrun, memory
<1>11. ASSUME NEW w \in Ticks, Worker(w) \/ NoAnswer(w) \/ Cut(w) PROVE Goal
  BY <1>1, <1>11 DEF Worker, NoAnswer, Cut, LocalTick, BehindTick, BehindJudge,
     RemoteTick, Answer, Judge, Told,
     memory
<1>12. CASE Startup \/ Crash \/ UNCHANGED vars
  BY <1>1, <1>12 DEF Startup, BotStart, Reconcile, Reconciled, Crash, Forget, vars,
     memory
<1>13. CASE UnplannedReboot
  BY <1>8, <1>13, MaintenanceAssumption DEF UnplannedReboot
<1>14. CASE Boot
  BY <1>14 DEF Boot, memory
<1> QED
  BY <1>2, <1>3, <1>4, <1>9, <1>10, <1>11, <1>12, <1>13, <1>14 DEF Next

LEMMA DoomStays ==
  ASSUME RunsInv, HostInv, [Next]_vars, NEW j \in Jobs, Doomed(j)
  PROVE  Doomed(j)'
BY HelpersStay, RowsStay DEF Doomed

LEMMA FairStays ==
  ASSUME RunsInv, HostInv, [Next]_vars, NEW j \in Jobs, NEW p, Fair(j, p),
         aged'[j] => aged[j] \/ Doomed(j) \/ p.file # "none"
  PROVE  Fair(j, p)'
<1>1. Doomed(j) => Doomed(j)'
  BY DoomStays
<1>2. /\ helper[j] \in {"dead", "done"} => helper'[j] = helper[j]
      /\ file[j] # "none" => file'[j] # "none"
  BY HelpersStay
<1> QED BY <1>1, <1>2 DEF Fair

LEMMA ProbeFair ==
  ASSUME FilesInv, DoomInv, HostTyped, NEW j \in Jobs
  PROVE  Fair(j, Probe(j))
<1>1. /\ Probe(j).file = file[j] /\ Probe(j).fboot = fboot[j] /\ Probe(j).boot = boot
      /\ Probe(j).alive = UnitAlive(j)
  BY DEF Probe
<1>2. ~ UnitAlive(j) => helper[j] \notin Alive
  BY DEF UnitAlive
<1>3. file[j] = "running" /\ (~ UnitAlive(j) \/ boot # fboot[j]) => helper[j] = "dead"
  BY <1>2 DEF FilesInv, Alive
<1>4. file[j] = "failed" => helper[j] = "done"
  BY DEF FilesInv
<1>5. file[j] = "none" /\ aged[j] => Doomed(j)
  BY DEF DoomInv
<1> QED BY <1>1, <1>3, <1>4, <1>5 DEF Fair

\* The invariant follows from what a step adds to rows, deadlines and counts.
LEMMA DoomBy ==
  ASSUME RunsInv, HostInv, TicksInv, FilesInv, HostTyped, DoomInv, [Next]_vars,
         \A j \in Jobs :
           /\ row'[j] \in {"failed", "unknown"} => row'[j] = row[j] \/ Doomed(j) \/ Doomed(j)'
           /\ overdue'[j] => overdue[j] \/ helper[j] = "dead"
           /\ dead'[j] > 0 => dead'[j] = dead[j] \/ helper[j] = "dead"
           /\ aged'[j] => \/ aged[j] \/ Doomed(j)
                          \/ /\ file[j] # "none"
                             /\ \A w \in Ticks : wpc[w] = "answered" => wprobe[w].file # "none"
  PROVE  DoomInv'
<1>1. ASSUME NEW j \in Jobs
      PROVE  /\ row'[j] \in {"failed", "unknown"} => Doomed(j)'
             /\ aged'[j] => Doomed(j)' \/ file'[j] # "none"
  BY DoomStays, HelpersStay DEF DoomInv
<1>2. ASSUME NEW j \in Jobs
      PROVE  /\ overdue'[j] => helper'[j] = "dead"
             /\ dead'[j] > 0 => helper'[j] = "dead"
  BY HelpersStay DEF DoomInv
<1>3. ASSUME NEW w \in Ticks, wpc'[w] = "answered", wprobe'[w].reached
      PROVE  Fair(wjob[w], wprobe[w])'
  <2>0. PICK j, p : j = wjob'[w] /\ p = wprobe'[w]
    OBVIOUS
  <2>1. CASE Keeps(w)
    <3>1. j \in Jobs /\ Fair(j, p) /\ p = wprobe[w] /\ wpc[w] = "answered"
      BY <1>3, <2>0, <2>1 DEF Keeps, DoomInv, TicksInv
    <3>2. aged'[j] => aged[j] \/ Doomed(j) \/ p.file # "none"
      BY <3>1
    <3>3. Fair(j, p)'
      BY <3>1, <3>2, FairStays
    <3> QED BY <2>0, <3>3 DEF Fair, Doomed
  <2>2. CASE Hears(w)
    <3>1. p = Probe(j) /\ j \in Jobs
      BY <1>3, <2>0, <2>2 DEF Hears, TicksInv
    <3>2. Fair(j, p) /\ UNCHANGED <<rows, clock, memory, host>>
      BY <2>2, <3>1, ProbeFair DEF Hears
    <3>3. Fair(j, p)'
      BY <3>2 DEF Fair, Doomed, rows, clock, memory, host
    <3> QED BY <2>0, <3>3 DEF Fair, Doomed
  <2> QED BY <1>3, <2>1, <2>2, TickSteps DEF Asks, Ends
<1> QED BY <1>1, <1>2, <1>3 DEF DoomInv

\* A verdict, or the reconcile's, is only against a job that is doomed.
LEMMA VerdictDoom ==
  ASSUME DoomInv, RowsTyped, MemoryTyped, NEW w, NEW j \in Jobs, NEW r,
         NEW p \in Probes,
         p.reached => Fair(j, p), Verdict(w, j, r, p), NEW k \in Jobs
  PROVE  /\ row'[k] \in {"failed", "unknown"} => row'[k] = row[k] \/ Doomed(k)
         /\ dead'[k] > 0 => dead'[k] = dead[k] \/ helper[k] = "dead"
<1>0. DOMAIN row = Jobs /\ DOMAIN dead = Jobs
  BY DEF RowsTyped, MemoryTyped
<1>1. CASE NoVerdict(w, j, r, p) \/ MirrorThrows(w, j, r, p)
  BY <1>1 DEF NoVerdict, MirrorThrows, rows
<1>2. CASE CameBack(w, j, r, p)
  BY <1>0, <1>2 DEF CameBack, Settle
<1>3. CASE NeverBack(w, j, r, p)
  <2>1. overdue[j] /\ row' = [row EXCEPT ![j] = "failed"] /\ dead' = dead
    BY <1>3 DEF NeverBack, Settle
  <2>2. helper[j] = "dead"
    BY <2>1 DEF DoomInv
  <2> QED BY <1>0, <2>1, <2>2 DEF Doomed
<1>4. CASE NeverStarted(w, j, r, p)
  <2>1. /\ p.reached /\ p.file = "none" /\ aged[j]
        /\ row' = [row EXCEPT ![j] = "failed"] /\ dead' = dead
    BY <1>4 DEF NeverStarted, Settle
  <2>2. Doomed(j)
    BY <2>1 DEF Fair
  <2> QED BY <1>0, <2>1, <2>2
<1>5. CASE Mirror(w, j, r, p)
  <2>1. p.reached /\ Fair(j, p)
    BY <1>5 DEF Mirror, Mirrors
  <2>2. Stalled(p) => helper[j] = "dead"
    BY <2>1 DEF Stalled, Fair
  <2>3. p.file = "failed" => helper[j] = "done"
    BY <2>1 DEF Fair
  <2>4. p.file # "unknown"
    BY DEF Probes
  <2>5. CASE ~ Stalled(p)
    BY <1>0, <1>5, <2>3, <2>4, <2>5 DEF Mirror, Settle, Doomed
  <2>6. CASE Stalled(p)
    <3>1. /\ row' = [row EXCEPT ![j] = p.file] \/ row' = [row EXCEPT ![j] = "failed"]
          /\ dead' = [dead EXCEPT ![j] = 1] \/ dead' = [dead EXCEPT ![j] = 2]
      BY <1>5, <2>6 DEF Mirror, Settle
    <3> QED BY <1>0, <2>2, <2>6, <3>1 DEF Doomed
  <2> QED BY <2>5, <2>6
<1> QED BY <1>1, <1>2, <1>3, <1>4, <1>5 DEF Verdict

LEMMA ResolveDoom ==
  ASSUME RowsTyped, NEW j \in Jobs, NEW p \in Probes,
         p.reached => Fair(j, p), Resolve(j, p), NEW k \in Jobs
  PROVE  row'[k] \in {"failed", "unknown"} => row'[k] = row[k] \/ Doomed(k)
<1>0. DOMAIN row = Jobs
  BY DEF RowsTyped
<1>1. ASSUME Outcome(j, p) \in {"failed", "unknown"} PROVE Doomed(j)
  <2>1. p.reached /\ Fair(j, p)
    BY <1>1 DEF Outcome
  <2>2. \/ p.file = "failed"
        \/ p.file = "unknown"
        \/ p.file = "running" /\ p.boot # p.fboot
        \/ p.file = "none" /\ aged[j]
    BY <1>1, <2>1 DEF Outcome, Terminal
  <2>3. p.file # "unknown"
    BY DEF Probes
  <2> QED BY <2>1, <2>2, <2>3 DEF Fair, Doomed
<1>2. row' = row \/ row' = [row EXCEPT ![j] = Outcome(j, p)]
  BY DEF Resolve, rows
<1> QED BY <1>0, <1>1, <1>2

LEMMA DoomNext ==
  ASSUME JobsInv, FilesInv, Serene, DoomInv, [Next]_vars
  PROVE  DoomInv'
<1> DEFINE Added(j) ==
             /\ row'[j] \in {"failed", "unknown"} => row'[j] = row[j] \/ Doomed(j) \/ Doomed(j)'
             /\ overdue'[j] => overdue[j] \/ helper[j] = "dead"
             /\ dead'[j] > 0 => dead'[j] = dead[j] \/ helper[j] = "dead"
             /\ aged'[j] => \/ aged[j] \/ Doomed(j)
                            \/ /\ file[j] # "none"
                               /\ \A w \in Ticks : wpc[w] = "answered" => wprobe[w].file # "none"
<1>0. /\ RunsInv /\ HostInv /\ TicksInv /\ BootsInv
      /\ RowsTyped /\ ClockTyped /\ MemoryTyped /\ WorkTyped /\ HostTyped
  BY TypeParts DEF JobsInv
<1> SUFFICES \A j \in Jobs : Added(j)
  BY <1>0, DoomBy
<1>1. ASSUME UNCHANGED <<rows, clock, dead>> PROVE \A j \in Jobs : Added(j)
  BY <1>1 DEF rows, clock
<1>2. ASSUME Forget, UNCHANGED <<rows, clock>> PROVE \A j \in Jobs : Added(j)
  BY <1>2 DEF Forget, rows, clock
<1>3. ASSUME NEW k \in Jobs, StartJob(k) PROVE \A j \in Jobs : Added(j)
  <2>1. row' = [row EXCEPT ![k] = "queued"] /\ UNCHANGED <<clock, dead>>
    BY <1>3 DEF StartJob
  <2> QED BY <1>0, <2>1 DEF clock, RowsTyped
<1>4. ASSUME NEW k \in Jobs,
             ArmRun(k) \/ ArmOk(k) \/ Kill(k) PROVE \A j \in Jobs : Added(j)
  BY <1>1, <1>4 DEF ArmRun, ArmOk, Kill, memory
<1>5. ASSUME NEW k \in Jobs, ArmFail(k) PROVE \A j \in Jobs : Added(j)
  <2>1. /\ helper[k] = "none" /\ k \in arming /\ k \notin arming' /\ row' = [row EXCEPT ![k] = "failed"]
        /\ UNCHANGED <<host, clock, dead>>
    BY <1>5 DEF ArmFail, Serene
  <2>2. k \notin armed
    BY <1>0, <2>1 DEF RunsInv
  <2>3. Doomed(k)'
    BY <1>0, <2>1, <2>2 DEF Doomed, host, RowsTyped
  <2> QED BY <1>0, <2>1, <2>3 DEF clock, RowsTyped
<1>6. ASSUME NEW k, Reboot(k) PROVE \A j \in Jobs : Added(j)
  BY <1>1, <1>2, <1>6 DEF Reboot, memory
<1>7. ASSUME NEW k \in Jobs, Helper(k) PROVE \A j \in Jobs : Added(j)
  BY <1>1, <1>6, <1>7 DEF Helper, HelperStart, HelperBusy, HelperLock, HelperProgress,
     HelperEnd, HelperSleep, HelperReboot, HelperOnly, memory
<1>8. ASSUME NEW k \in Jobs, Age(k) PROVE \A j \in Jobs : Added(j)
  <2>1. UNCHANGED <<row, overdue, dead>> /\ aged' = [aged EXCEPT ![k] = TRUE] /\ row[k] # "none"
    BY <1>8 DEF Age, rows, memory
  <2>2. \/ helper[k] = "dead"
        \/ helper[k] = "none" /\ k \notin arming \cup armed
        \/ /\ file[k] # "none"
           /\ \A w \in Ticks : wpc[w] = "answered" => wprobe[w].file # "none"
    BY <1>8 DEF Age, Serene
  <2> QED BY <1>0, <2>1, <2>2 DEF Doomed, ClockTyped
<1>9. ASSUME NEW k \in Jobs, Overrun(k) PROVE \A j \in Jobs : Added(j)
  <2>1. /\ UNCHANGED <<row, aged, dead>> /\ overdue' = [overdue EXCEPT ![k] = TRUE]
        /\ helper[k] = "dead"
    BY <1>9 DEF Overrun, rows, memory, Serene
  <2> QED BY <1>0, <2>1 DEF ClockTyped
<1>10. ASSUME NEW w \in Ticks, LocalTick(w) \/ BehindJudge(w) \/ Judge(w)
       PROVE  \A j \in Jobs : Added(j)
  <2>1. PICK k \in Jobs : \E r : \E p \in Probes : (p.reached => Fair(k, p)) /\ Verdict(w, k, r, p)
    <3>1. CASE LocalTick(w)
      BY <1>0, <3>1, ProbeFair, ProbeTyped DEF LocalTick, Active
    <3>2. CASE Judge(w)
      BY <1>0, <3>2 DEF Judge, TicksInv, WorkTyped, DoomInv
    <3>3. CASE BehindJudge(w)
      BY <1>0, <3>3, LaterSound, ProbeFair, ProbeTyped DEF BehindJudge
    <3> QED BY <1>10, <3>1, <3>2, <3>3
  <2>2. UNCHANGED clock
    BY <1>10 DEF LocalTick, BehindJudge, Judge
  <2> QED BY <1>0, <2>1, <2>2, VerdictDoom DEF clock
<1>11. ASSUME NEW w \in Ticks,
              RemoteTick(w) \/ BehindTick(w) \/ Answer(w) \/ NoAnswer(w) \/ Cut(w)
       PROVE  \A j \in Jobs : Added(j)
  BY <1>1, <1>11 DEF RemoteTick, BehindTick, Answer, NoAnswer, Cut, memory
<1>12. ASSUME NEW w \in Ticks, Told(w) PROVE \A j \in Jobs : Added(j)
  <2>1. UNCHANGED <<rows, clock>> /\ dead' = [dead EXCEPT ![wjob[w]] = 0]
    BY <1>12 DEF Told
  <2> QED BY <1>0, <2>1 DEF rows, clock, MemoryTyped
<1>13. ASSUME NEW k \in Jobs, NEW p \in Probes, p.reached => Fair(k, p),
              Resolve(k, p),
              UNCHANGED <<clock, dead>>
       PROVE  \A j \in Jobs : Added(j)
  BY <1>0, <1>13, ResolveDoom DEF clock
<1>14. CASE BotStart
  <2>1. UNCHANGED <<clock, dead>>
    BY <1>14 DEF BotStart
  <2>2. UNCHANGED rows \/ \E k \in Active : Resolve(k, Probe(k))
    BY <1>14 DEF BotStart
  <2> QED BY <1>0, <1>1, <1>13, <2>1, <2>2, ProbeFair, ProbeTyped DEF Active
<1>15. CASE Reconcile
  <2>1. /\ wjob[Rec] \in Jobs /\ wprobe[Rec] \in Probes
        /\ wprobe[Rec].reached => Fair(wjob[Rec], wprobe[Rec])
    BY <1>0, <1>15, MaintenanceAssumption DEF Reconcile, TicksInv, WorkTyped, DoomInv
  <2> QED BY <1>13, <1>15, <2>1 DEF Reconcile
<1>16. CASE Reconciled \/ Boot \/ UNCHANGED vars
  BY <1>1, <1>16 DEF Reconciled, Boot, memory, vars
<1>17. CASE UnplannedReboot
  BY <1>6, <1>17 DEF UnplannedReboot
<1>18. CASE Crash
  BY <1>2, <1>18 DEF Crash
<1> QED
  BY <1>3, <1>4, <1>5, <1>7, <1>8, <1>9, <1>10, <1>11, <1>12, <1>14, <1>15, <1>16,
     <1>17, <1>18
  DEF Next, Worker, Startup

-----------------------------------------------------------------------------
(* Where ticks take turns.                                                 *)

Busy(w) == wpc[w] \in {"asked", "answered"}

\* Who may hold a tick: the reconcile before the worker, on b a tick that waits
\* behind a job of a.
InTurn ==
  /\ bot = "down" => arming = {}
  /\ bot = "up" => \A w \in Ticks : wpc[w] # "idle" => w \in setting.ticks
  /\ bot = "reconcile" => \A w \in Ticks : wpc[w] # "idle" => w = Rec
  /\ Server = "b" => \A w \in Ticks : Busy(w) => setting.behind /\ bot = "up"

\* Punctual ticks that wait for a are ticks of one slot.
LEMMA OneTick ==
  ASSUME TypeOK, Punctual, Server = "b" => setting.behind
  PROVE  \E t : setting.ticks = {t}
<1>1. IsFiniteSet(setting.ticks)
  BY FS_Subset, SettingIs, MaintenanceAssumption, TypeParts DEF ClockTyped
<1> QED BY <1>1, FS_Singleton DEF Punctual

\* Where the bot takes up a tick, the others rest.
LEMMA AloneInTurn ==
  ASSUME TypeOK, TicksInv, InTurn, Punctual, NEW w \in Ticks, Busy(w)
  PROVE  \A v \in Ticks : v # w => wpc[v] = "idle"
<1>1. (Server = "b" => setting.behind) /\ wpc[w] # "idle"
  BY DEF InTurn, Busy
<1>2. \E t : setting.ticks = {t}
  BY <1>1, OneTick
<1>3. bot \in {"down", "reconcile", "up"}
  BY TypeParts DEF MemoryTyped
<1> QED BY <1>1, <1>2, <1>3 DEF InTurn, TicksInv, Busy

\* Who holds a tick stays so; the bot's own state changes only between ticks.
LEMMA TurnsNext ==
  ASSUME RunsInv, TicksInv, TypeOK, InTurn, [Next]_vars
  PROVE  /\ InTurn'
         /\ bot' = bot \/ \A w \in Ticks : Busy(w)' => wpc[w] = "idle"
<1> DEFINE Goal == /\ InTurn'
                   /\ bot' = bot \/ \A w \in Ticks : Busy(w)' => wpc[w] = "idle"
<1> USE DEF Server, Busy
<1>0. /\ DOMAIN wpc = Ticks /\ Rec \in Ticks /\ setting' = setting
      /\ bot = "down" => \A w \in Ticks : wpc[w] = "idle"
  BY SettingStays, MaintenanceAssumption DEF TicksInv
<1>1. ASSUME UNCHANGED <<bot, wpc>>,
             arming' \subseteq arming \/ bot # "down" PROVE Goal
  BY <1>0, <1>1 DEF InTurn
<1>2. ASSUME Forget PROVE Goal
  BY <1>2 DEF Forget, InTurn
<1>3. ASSUME NEW w \in Ticks, w \in setting.ticks, bot = "up", bot' = bot, NEW x,
             wpc' = [wpc EXCEPT ![w] = x],
             Server = "b" /\ ~ setting.behind => x \in {"idle", "tell"}
      PROVE  Goal
  BY <1>0, <1>3 DEF InTurn
<1>4. ASSUME NEW x, wpc' = [wpc EXCEPT ![Rec] = x], bot # "up", bot' # "down",
             bot' = "up" => x = "idle", Server = "b" => x \in {"idle", "tell"},
             bot = "reconcile" => x \in {"idle", "tell"}
      PROVE  Goal
  <2>1. bot \in {"down", "reconcile"}
    BY <1>4, TypeParts DEF MemoryTyped
  <2>2. \A w \in Ticks : w # Rec => wpc[w] = "idle"
    BY <1>0, <2>1 DEF InTurn
  <2> QED BY <1>0, <1>4, <2>1, <2>2 DEF InTurn
<1>5. ASSUME NEW w, Rest(w) \/ \E j : Tell(w, j)
      PROVE  \E x \in {"idle", "tell"} : wpc' = [wpc EXCEPT ![w] = x]
  BY <1>5 DEF Rest, Tell
<1>6. ASSUME NEW j \in Jobs,
             StartJob(j) \/ ArmRun(j) \/ ArmOk(j) \/ ArmFail(j) \/ Kill(j) \/ Age(j) \/ Overrun(j)
      PROVE  Goal
  BY <1>1, <1>6 DEF StartJob, ArmRun, ArmOk, ArmFail, Kill, Age, Overrun, memory, work
<1>7. ASSUME NEW j, Reboot(j) PROVE Goal
  BY <1>1, <1>2, <1>7 DEF Reboot, memory, work
<1>8. ASSUME NEW j \in Jobs, Helper(j) PROVE Goal
  BY <1>1, <1>7, <1>8 DEF Helper, HelperStart, HelperBusy, HelperLock, HelperProgress,
     HelperEnd, HelperSleep, HelperReboot, HelperOnly, memory, work
<1>9. ASSUME NEW w \in Ticks, LocalTick(w) \/ BehindJudge(w) \/ Judge(w) PROVE Goal
  <2>1. PICK j, r, p : Verdict(w, j, r, p)
    BY <1>9 DEF LocalTick, BehindJudge, Judge
  <2>2. Rest(w) \/ \E k : Tell(w, k)
    BY <2>1 DEF Verdict, CameBack, NeverBack, NeverStarted, NoVerdict, MirrorThrows,
       Mirror,
       Settle, Announce
  <2>3. bot = "up" /\ bot' = bot /\ w \in setting.ticks
    BY <1>9 DEF LocalTick, BehindJudge, Judge, InTurn
  <2> QED BY <1>3, <1>5, <2>2, <2>3
<1>10. ASSUME NEW w \in Ticks, RemoteTick(w) \/ BehindTick(w) PROVE Goal
  BY <1>3, <1>10 DEF RemoteTick, BehindTick, Ask
<1>11. ASSUME NEW w \in Ticks, Answer(w) \/ NoAnswer(w) PROVE Goal
  <2>1. /\ wpc[w] = "asked" /\ wpc' = [wpc EXCEPT ![w] = "answered"] /\ UNCHANGED <<bot, arming>>
    BY <1>11 DEF Answer, NoAnswer, memory
  <2> QED BY <1>0, <2>1 DEF InTurn
<1>12. ASSUME NEW w \in Ticks, Told(w) \/ Cut(w) PROVE Goal
  <2>1. bot = "up" /\ bot' = bot /\ w \in setting.ticks /\ Rest(w)
    BY <1>12 DEF Told, Cut, InTurn
  <2> QED BY <1>3, <1>5, <2>1
<1>13. ASSUME NEW j, NEW p, Resolve(j, p), bot # "up" PROVE Goal
  <2>1. CASE Rest(Rec) /\ Ready
    BY <1>4, <1>13, <2>1 DEF Rest, Ready
  <2>2. CASE Tell(Rec, j) /\ bot' = "reconcile"
    BY <1>4, <1>13, <2>2 DEF Tell
  <2> QED BY <1>13, <2>1, <2>2 DEF Resolve
<1>14. CASE BotStart
  <2>0. bot = "down" /\ arming' = arming
    BY <1>14 DEF BotStart
  <2>1. CASE Ready /\ UNCHANGED work
    BY <1>0, <2>0, <2>1 DEF Ready, work, InTurn
  <2>2. CASE \E j \in Active : Ask(Rec, j) /\ bot' = "reconcile" /\ Server = "a"
    BY <1>4, <2>0, <2>2 DEF Ask
  <2> QED BY <1>13, <1>14, <2>0, <2>1, <2>2 DEF BotStart
<1>15. CASE Reconcile
  BY <1>13, <1>15 DEF Reconcile
<1>16. CASE Reconciled
  BY <1>4, <1>16 DEF Reconciled, Rest, Ready
<1>17. CASE UnplannedReboot
  BY <1>7, <1>17 DEF UnplannedReboot
<1>18. CASE Boot \/ UNCHANGED vars
  BY <1>1, <1>18 DEF Boot, vars, memory, work
<1>19. CASE Crash
  BY <1>2, <1>19 DEF Crash
<1> QED
  BY <1>6, <1>8, <1>9, <1>10, <1>11, <1>12, <1>14, <1>15, <1>16, <1>17, <1>18, <1>19
  DEF Next, Worker, Startup

\* A tick's job has not been told, and its row is as the tick read it, unless
\* the job's start has failed meanwhile.
Current(j, s) ==
  /\ told[j] = 0
  /\ bot = "reconcile" => j \notin arming
  /\ \/ row[j] = s
     \/ /\ row[j] = "failed" /\ helper[j] = "none" /\ bot = "up"
        /\ j \notin arming /\ Server = "a"

\* A job that was told is over, one that is being armed waits.
RowsInTurn ==
  /\ \A j \in Jobs : told[j] # 0 => told[j] = 1 /\ row[j] \in Terminal
  /\ \A j \in arming : helper[j] = "none" => row[j] = "queued"
  /\ \A w \in Ticks : Busy(w) => Current(wjob[w], wrow[w].status)

Forward == {<<"queued", "running">>, <<"queued", "rebooting">>, <<"running", "rebooting">>}

\* The row of a job moves on to s, and its outcome is told.
Moves(j, s) ==
  /\ row' = [row EXCEPT ![j] = s]
  /\ told' = told \/ (s \in Terminal /\ told[j] = 0 /\ told' = [told EXCEPT ![j] = 1])
  /\ \/ row[j] \in Live /\ (s = row[j] \/ s \in Terminal \/ <<row[j], s>> \in Forward)
     \/ row[j] = s
  /\ j \in arming => helper[j] # "none"

LEMMA SettleTells ==
  ASSUME NEW w, NEW j \in Jobs, NEW s, told \in [Jobs -> 0..2], told[j] = 0,
         Settle(w, j, s)
  PROVE  /\ row' = [row EXCEPT ![j] = s]
         /\ told' = told \/ (s \in Terminal /\ told[j] = 0 /\ told' = [told EXCEPT ![j] = 1])
<1>1. CASE announced[j] = s
  BY <1>1 DEF Settle, Announce
<1>2. CASE announced[j] # s /\ s \notin Terminal
  BY <1>2 DEF Settle, Announce
<1>3. CASE announced[j] # s /\ s \in Terminal
  <2>1. told' = [told EXCEPT ![j] = IF told[j] = 2 THEN 2 ELSE told[j] + 1]
    BY <1>3 DEF Settle, Announce, Tell
  <2> QED BY <1>3, <2>1 DEF Settle
<1> QED BY <1>1, <1>2, <1>3

\* A verdict on a current answer moves the row on.
LEMMA VerdictMoves ==
  ASSUME FilesInv, RowsTyped, told \in [Jobs -> 0..2],
         NEW w, NEW j \in Jobs, NEW r \in Rows, NEW p \in Probes,
         Sound(j, r, p), p.reached => Fair(j, p), told[j] = 0,
         row[j] = r.status \/ (row[j] = "failed" /\ helper[j] = "none"),
         Verdict(w, j, r, p)
  PROVE  UNCHANGED <<row, told>> \/ \E s : Moves(j, s)
<1>0. /\ r.status \in Live
      /\ p.file \in {"none", "running", "rebooting", "succeeded", "failed"}
  BY DEF Rows, Probes
<1>1. CASE NoVerdict(w, j, r, p) \/ MirrorThrows(w, j, r, p)
  BY <1>1 DEF NoVerdict, MirrorThrows, rows
<1>2. CASE CameBack(w, j, r, p) \/ NeverBack(w, j, r, p)
  <2>1. r.status = "rebooting"
    BY <1>2 DEF CameBack, NeverBack
  <2>2. file[j] = "rebooting"
    BY <2>1 DEF Sound, Rebooting
  <2>3. helper[j] # "none"
    BY <2>2 DEF FilesInv
  <2>4. row[j] \in Live
    BY <1>0, <2>3
  <2>5. PICK s \in {"succeeded", "failed"} : Settle(w, j, s)
    BY <1>2 DEF CameBack, NeverBack
  <2>6. Moves(j, s)
    BY <2>3, <2>4, <2>5, SettleTells DEF Moves, Terminal
  <2> QED BY <2>6
<1>3. CASE NeverStarted(w, j, r, p)
  <2>1. /\ Settle(w, j, "failed") /\ r.status = "queued"
        /\ p.reached /\ p.file = "none" /\ aged[j]
    BY <1>3 DEF NeverStarted
  <2>2. j \in arming => helper[j] # "none"
    BY <2>1 DEF Fair, Doomed
  <2>3. row[j] \in Live \/ row[j] = "failed"
    BY <1>0
  <2>4. Moves(j, "failed")
    BY <2>1, <2>2, <2>3, SettleTells DEF Moves, Terminal
  <2> QED BY <2>4
<1>4. CASE Mirror(w, j, r, p)
  <2>1. p.reached /\ p.file # "none" /\ r.status # "rebooting"
    BY <1>4 DEF Mirror, Mirrors
  <2>2. helper[j] # "none"
    BY <2>1 DEF Fair, FilesInv
  <2>3. row[j] \in {"queued", "running"}
    BY <1>0, <2>1, <2>2 DEF Live
  <2>4. PICK s \in {p.file, "failed"} : Settle(w, j, s)
    BY <1>4 DEF Mirror
  <2>5. s \in {"running", "rebooting", "succeeded", "failed"}
    BY <1>0, <2>1
  <2>6. row[j] \in Live /\ (s = row[j] \/ s \in Terminal \/ <<row[j], s>> \in Forward)
    BY <2>3, <2>5 DEF Live, Terminal, Forward
  <2>7. Moves(j, s)
    BY <2>2, <2>4, <2>6, SettleTells DEF Moves
  <2> QED BY <2>7
<1> QED BY <1>1, <1>2, <1>3, <1>4 DEF Verdict

LEMMA ResolveMoves ==
  ASSUME told \in [Jobs -> 0..2], NEW j \in Jobs, NEW p, told[j] = 0, row[j] \in Live,
         j \notin arming, Resolve(j, p)
  PROVE  UNCHANGED <<row, told>> \/ \E s : Moves(j, s)
<1>1. CASE UNCHANGED <<rows, told>>
  BY <1>1 DEF rows
<1>2. CASE /\ Outcome(j, p) # "leave"
           /\ row' = [row EXCEPT ![j] = Outcome(j, p)]
           /\ Tell(Rec, j)
  <2>1. Outcome(j, p) \in Terminal
    BY <1>2 DEF Outcome, Terminal
  <2>2. told' = [told EXCEPT ![j] = IF told[j] = 2 THEN 2 ELSE told[j] + 1]
    BY <1>2 DEF Tell
  <2>3. Moves(j, Outcome(j, p))
    BY <1>2, <2>1, <2>2 DEF Moves
  <2> QED BY <2>3
<1> QED BY <1>1, <1>2 DEF Resolve

\* The four ways in which a step changes the table, or leaves it.
LEMMA TableMoves ==
  ASSUME JobsInv, FilesInv, Serene, DoomInv, Punctual, InTurn, RowsInTurn, [Next]_vars
  PROVE  \/ UNCHANGED <<row, told>>
         \/ \E j \in Jobs : StartJob(j)
         \/ \E j \in Jobs : ArmFail(j) /\ helper[j] = "none"
         \/ \E j \in Jobs : \E s : Moves(j, s) /\ \A w \in Ticks : ~ Busy(w)'
<1> DEFINE Goal == \/ UNCHANGED <<row, told>>
                   \/ \E j \in Jobs : StartJob(j)
                   \/ \E j \in Jobs : ArmFail(j) /\ helper[j] = "none"
                   \/ \E j \in Jobs : \E s : Moves(j, s) /\ \A w \in Ticks : ~ Busy(w)'
<1>0. /\ RunsInv /\ HostInv /\ TicksInv /\ BootsInv /\ TypeOK
      /\ RowsTyped /\ ClockTyped /\ MemoryTyped /\ WorkTyped /\ HostTyped
      /\ told \in [Jobs -> 0..2]
  BY TypeParts DEF JobsInv
<1>1. ASSUME UNCHANGED <<rows, told>> PROVE Goal
  BY <1>1 DEF rows
<1>2. ASSUME NEW j \in Jobs,
             StartJob(j) \/ ArmRun(j) \/ ArmOk(j) \/ ArmFail(j) \/ Kill(j) \/ Age(j) \/ Overrun(j)
      PROVE  Goal
  <2>1. ArmFail(j) => helper[j] = "none"
    BY DEF ArmFail, Serene
  <2> QED BY <1>1, <1>2, <2>1 DEF ArmRun, ArmOk, Kill, Age, Overrun
<1>3. ASSUME NEW j \in Jobs, Helper(j) PROVE Goal
  BY <1>1, <1>3 DEF Helper, HelperStart, HelperBusy, HelperLock, HelperProgress,
     HelperEnd, HelperSleep, HelperReboot, Reboot, HelperOnly
<1>4. ASSUME NEW w \in Ticks, Rest(w) \/ \E j : Tell(w, j),
             \A v \in Ticks : v # w => ~ Busy(v)
      PROVE  \A v \in Ticks : ~ Busy(v)'
  BY <1>0, <1>4 DEF Rest, Tell, Busy, TicksInv
<1>5. ASSUME NEW w \in Ticks, LocalTick(w) PROVE Goal
  <2>1. PICK j \in Active : Verdict(w, j, ReadRow(j), Probe(j))
    BY <1>5 DEF LocalTick
  <2>2. Rest(w) \/ \E k : Tell(w, k)
    BY <2>1 DEF Verdict, CameBack, NeverBack, NeverStarted, NoVerdict, MirrorThrows,
       Mirror,
       Settle, Announce
  <2>3. \A v \in Ticks : v # w => ~ Busy(v)
    <3>1. Server = "b" /\ bot = "up" /\ w \in setting.ticks
      BY <1>5 DEF LocalTick
    <3> SUFFICES ASSUME NEW v \in Ticks, v # w, Busy(v) PROVE FALSE
      OBVIOUS
    <3>2. setting.behind /\ v \in setting.ticks
      BY <3>1 DEF InTurn, Busy
    <3> QED BY <1>0, <3>1, <3>2, OneTick
  <2>4. /\ j \in Jobs /\ ReadRow(j) \in Rows /\ Probe(j) \in Probes
        /\ Sound(j, ReadRow(j), Probe(j)) /\ Fair(j, Probe(j))
    BY <1>0, ProbeTyped, ProbeSound, ProbeFair DEF Active, JobsInv
  <2>5. told[j] = 0 /\ row[j] = ReadRow(j).status
    BY DEF RowsInTurn, Active, Live, Terminal, ReadRow
  <2>6. UNCHANGED <<row, told>> \/ \E s : Moves(j, s)
    BY <1>0, <2>1, <2>4, <2>5, VerdictMoves
  <2> QED BY <1>4, <2>2, <2>3, <2>4, <2>6
<1>6. ASSUME NEW w \in Ticks, Judge(w) \/ BehindJudge(w) PROVE Goal
  <2> DEFINE j == wjob[w]
             r == wrow[w]
  <2>8. PICK p : /\ Verdict(w, j, r, p)
                 /\ \/ p = wprobe[w] /\ wpc[w] = "answered"
                    \/ p = Probe(j) /\ wpc[w] = "asked"
    BY <1>6 DEF Judge, BehindJudge
  <2>1. Verdict(w, j, r, p) /\ wpc[w] \in {"asked", "answered"}
    BY <2>8
  <2>2. Rest(w) \/ \E k : Tell(w, k)
    BY <2>1 DEF Verdict, CameBack, NeverBack, NeverStarted, NoVerdict, MirrorThrows,
       Mirror,
       Settle, Announce
  <2>3. \A v \in Ticks : v # w => ~ Busy(v)
    BY <1>0, <2>1, AloneInTurn DEF Busy
  <2>4. j \in Jobs /\ r \in Rows /\ p \in Probes /\ Sound(j, r, p) /\ (p.reached => Fair(j, p))
    <3>1. CASE p = wprobe[w] /\ wpc[w] = "answered"
      BY <1>0, <3>1 DEF TicksInv, WorkTyped, DoomInv
    <3>2. CASE p = Probe(j) /\ wpc[w] = "asked"
      <4>1. j \in Jobs /\ Sound(j, r, Probe(j))
        BY <1>0, <3>2, LaterSound
      <4> QED BY <1>0, <3>2, <4>1, ProbeTyped, ProbeFair DEF WorkTyped
    <3> QED BY <2>8, <3>1, <3>2
  <2>5. Current(j, r.status)
    BY <2>1 DEF RowsInTurn, Busy
  <2>6. told[j] = 0 /\ (row[j] = r.status \/ (row[j] = "failed" /\ helper[j] = "none"))
    BY <2>5 DEF Current
  <2> HIDE DEF j, r
  <2>7. UNCHANGED <<row, told>> \/ \E s : Moves(j, s)
    BY <1>0, <2>1, <2>4, <2>6, VerdictMoves
  <2> QED BY <1>4, <2>2, <2>3, <2>4, <2>7
<1>7. ASSUME NEW w \in Ticks,
             RemoteTick(w) \/ BehindTick(w) \/ Answer(w) \/ NoAnswer(w)
               \/ Told(w) \/ Cut(w) PROVE Goal
  BY <1>1, <1>7 DEF RemoteTick, BehindTick, Answer, NoAnswer, Told, Cut
<1>8. ASSUME NEW j \in Active, NEW p, Resolve(j, p), told[j] = 0, j \notin arming,
             \A v \in Ticks : v # Rec => ~ Busy(v)
      PROVE  Goal
  <2>1. j \in Jobs /\ row[j] \in Live /\ Rec \in Ticks
    BY MaintenanceAssumption DEF Active
  <2>2. \A v \in Ticks : ~ Busy(v)'
    BY <1>4, <1>8, <2>1 DEF Resolve
  <2>3. UNCHANGED <<row, told>> \/ \E s : Moves(j, s)
    BY <1>0, <1>8, <2>1, ResolveMoves
  <2> QED BY <2>1, <2>2, <2>3
<1>9. CASE BotStart
  <2>1. bot = "down" /\ arming = {} /\ \A v \in Ticks : ~ Busy(v)
    BY <1>0, <1>9 DEF BotStart, InTurn, TicksInv, Busy
  <2>2. \A j \in Active : told[j] = 0
    BY DEF Active, RowsInTurn, Live, Terminal
  <2>3. UNCHANGED <<rows, told>> \/ \E j \in Active : Resolve(j, Probe(j))
    BY <1>9 DEF BotStart
  <2> QED BY <1>1, <1>8, <2>1, <2>2, <2>3
<1>10. CASE Reconcile
  <2>1. /\ bot = "reconcile" /\ Busy(Rec) /\ Rec \in Ticks
        /\ Resolve(wjob[Rec], wprobe[Rec])
    BY <1>10, MaintenanceAssumption DEF Reconcile, Busy
  <2>2. Current(wjob[Rec], wrow[Rec].status)
    BY <2>1 DEF RowsInTurn
  <2>3. wjob[Rec] \in Jobs /\ wrow[Rec].status \in Live
    BY <1>0, <2>1 DEF TicksInv, WorkTyped, Rows, Busy
  <2>4. wjob[Rec] \in Active /\ told[wjob[Rec]] = 0 /\ wjob[Rec] \notin arming
    BY <2>1, <2>2, <2>3 DEF Current, Active
  <2>5. \A v \in Ticks : v # Rec => ~ Busy(v)
    BY <1>0, <2>1, AloneInTurn DEF Busy
  <2> QED BY <1>8, <2>1, <2>4, <2>5
<1>11. CASE Reconciled \/ UnplannedReboot \/ Boot \/ Crash \/ UNCHANGED vars
  BY <1>1, <1>11 DEF Reconciled, UnplannedReboot, Reboot, Boot, Crash, vars
<1> QED
  BY <1>2, <1>3, <1>5, <1>6, <1>7, <1>9, <1>10, <1>11 DEF Next, Worker, Startup

\* Jobs are armed by their start, and a helper that was there was never none.
LEMMA ArmingNext ==
  ASSUME RunsInv, [Next]_vars
  PROVE  /\ (\E k \in Jobs : StartJob(k)) \/ arming' \subseteq arming
         /\ \A j \in Jobs : helper'[j] = "none" => helper[j] = "none"
<1> DEFINE Goal == /\ (\E k \in Jobs : StartJob(k)) \/ arming' \subseteq arming
                   /\ \A j \in Jobs : helper'[j] = "none" => helper[j] = "none"
<1>0. DOMAIN helper = Jobs
  BY DEF RunsInv
<1>1. ASSUME UNCHANGED host, arming' \subseteq arming PROVE Goal
  BY <1>1 DEF host
<1>2. ASSUME NEW j \in Jobs, NEW h, h # "none", helper' = [helper EXCEPT ![j] = h],
             arming' = arming
      PROVE  Goal
  BY <1>0, <1>2
<1>3. ASSUME NEW j \in Jobs,
             StartJob(j) \/ ArmOk(j) \/ ArmFail(j) \/ Age(j) \/ Overrun(j) PROVE Goal
  BY <1>1, <1>3 DEF StartJob, ArmOk, ArmFail, Age, Overrun, memory
<1>4. ASSUME NEW j \in Jobs, ArmRun(j) \/ Kill(j) PROVE Goal
  BY <1>2, <1>4 DEF ArmRun, Kill, memory
<1>5. ASSUME NEW j, Reboot(j) PROVE Goal
  <2>1. \A k \in Jobs : helper'[k] \in {"rebooted", "dead", helper[k]}
    BY <1>5 DEF Reboot, Down
  <2> QED BY <1>5, <2>1 DEF Reboot, Forget, memory
<1>6. ASSUME NEW j \in Jobs, Helper(j) PROVE Goal
  <2>1. CASE HelperProgress(j)
    BY <2>1 DEF HelperProgress, HelperOnly, memory
  <2>2. CASE HelperStart(j) \/ HelperBusy(j) \/ HelperLock(j) \/ HelperEnd(j) \/ HelperSleep(j)
    BY <1>2, <2>2 DEF HelperStart, HelperBusy, HelperLock, HelperEnd, HelperSleep,
       HelperOnly, memory
  <2> QED BY <1>5, <1>6, <2>1, <2>2 DEF Helper, HelperReboot
<1>7. ASSUME NEW w \in Ticks, Worker(w) \/ NoAnswer(w) \/ Cut(w) PROVE Goal
  BY <1>1, <1>7 DEF Worker, NoAnswer, Cut, LocalTick, BehindTick, BehindJudge,
     RemoteTick, Answer, Judge, Told,
     memory
<1>8. CASE Startup \/ Crash \/ UNCHANGED vars
  BY <1>1, <1>8 DEF Startup, BotStart, Reconcile, Reconciled, Crash, Forget, vars,
     memory
<1>9. CASE UnplannedReboot
  BY <1>5, <1>9 DEF UnplannedReboot
<1>10. CASE Boot
  BY <1>10 DEF Boot, memory
<1> QED BY <1>3, <1>4, <1>6, <1>7, <1>8, <1>9, <1>10 DEF Next

LEMMA RowsInTurnNext ==
  ASSUME JobsInv, FilesInv, Serene, DoomInv, Punctual, InTurn, RowsInTurn, [Next]_vars
  PROVE  RowsInTurn'
<1>0. /\ RunsInv /\ HostInv /\ TicksInv /\ BootsInv /\ TypeOK
      /\ RowsTyped /\ MemoryTyped /\ told \in [Jobs -> 0..2] /\ DOMAIN row = Jobs
  BY TypeParts DEF JobsInv, RunsInv
<1>1. ASSUME NEW j \in Jobs, told'[j] # 0
      PROVE  told'[j] = 1 /\ row'[j] \in Terminal
  <2>1. told[j] # 0 => told[j] = 1 /\ row[j] \in Terminal
    BY DEF RowsInTurn
  <2>2. CASE UNCHANGED <<row, told>>
    BY <1>1, <2>1, <2>2
  <2>3. ASSUME NEW k \in Jobs, StartJob(k) PROVE told'[j] = 1 /\ row'[j] \in Terminal
    BY <1>0, <1>1, <2>1, <2>3 DEF StartJob, Terminal
  <2>4. ASSUME NEW k \in Jobs, ArmFail(k) PROVE told'[j] = 1 /\ row'[j] \in Terminal
    BY <1>0, <1>1, <2>1, <2>4 DEF ArmFail, Terminal
  <2>5. ASSUME NEW k \in Jobs, NEW s,
               Moves(k, s) PROVE told'[j] = 1 /\ row'[j] \in Terminal
    <3>1. CASE j # k
      BY <1>0, <1>1, <2>1, <2>5, <3>1 DEF Moves
    <3>2. CASE j = k /\ told' = told
      BY <1>0, <1>1, <2>1, <2>5, <3>2 DEF Moves, Live, Terminal
    <3>3. CASE j = k /\ told' # told
      BY <1>0, <1>1, <2>5, <3>3 DEF Moves
    <3> QED BY <3>1, <3>2, <3>3
  <2> QED BY <2>2, <2>3, <2>4, <2>5, TableMoves
<1>2. ASSUME NEW j \in arming', helper'[j] = "none" PROVE row'[j] = "queued"
  <2>1. ASSUME NEW k \in Jobs, StartJob(k) PROVE row'[j] = "queued"
    <3>1. j \in arming \cup {k} /\ helper[j] = "none" /\ row' = [row EXCEPT ![k] = "queued"]
      BY <1>2, <2>1 DEF StartJob
    <3> QED BY <1>0, <3>1 DEF RowsInTurn, MemoryTyped
  <2>2. ASSUME \A k \in Jobs : ~ StartJob(k) PROVE j \in arming /\ helper[j] = "none" /\ row[j] = "queued"
    BY <1>0, <1>2, <2>2, ArmingNext DEF RowsInTurn, MemoryTyped
  <2>3. CASE UNCHANGED <<row, told>>
    BY <2>1, <2>2, <2>3
  <2>4. ASSUME NEW k \in Jobs, ArmFail(k) PROVE row'[j] = "queued"
    <3>1. j # k /\ row' = [row EXCEPT ![k] = "failed"]
      BY <1>2, <2>4 DEF ArmFail
    <3> QED BY <1>0, <2>1, <2>2, <3>1
  <2>5. ASSUME NEW k \in Jobs, NEW s, Moves(k, s) PROVE row'[j] = "queued"
    BY <1>0, <2>1, <2>2, <2>5 DEF Moves
  <2> QED BY <2>1, <2>3, <2>4, <2>5, TableMoves
<1>3. ASSUME NEW w \in Ticks, Busy(w)' PROVE Current(wjob[w], wrow[w].status)'
  <2> DEFINE j == wjob'[w]
             s == wrow'[w].status
  <2>0. /\ told'[j] = 0
        /\ bot' = "reconcile" => j \notin arming'
        /\ \/ row'[j] = s
           \/ /\ row'[j] = "failed" /\ helper'[j] = "none" /\ bot' = "up"
              /\ j \notin arming' /\ Server' = "a"
    <3>1. CASE Asks(w)
      <4>1. j \in Active /\ s = row[j] /\ UNCHANGED <<row, told, arming>>
        BY <3>1 DEF Asks, ReadRow, rows
      <4>2. told[j] = 0
        BY <4>1 DEF Active, RowsInTurn, Live, Terminal
      <4>3. bot' = "reconcile" => arming = {}
        BY <3>1 DEF Asks, InTurn
      <4> QED BY <4>1, <4>2, <4>3
    <3>2. CASE Keeps(w) \/ Hears(w)
      <4>1. Busy(w) /\ j = wjob[w] /\ s = wrow[w].status
        BY <1>3, <3>2 DEF Keeps, Hears, Busy
      <4>2. /\ j \in Jobs /\ row[j] # "none" /\ Current(j, s) /\ bot # "down"
            /\ Server = "a" => armed = {}
            /\ Server' = Server /\ wpc[w] # "idle"
        BY <1>0, <4>1, SettingStays
        DEF TicksInv, BootsInv, HeldRows, RowsInTurn, Busy, RunsInv, Server
      <4>3. bot' = bot /\ bot \in {"reconcile", "up"}
        BY <1>0, <1>3, <4>2, TurnsNext DEF MemoryTyped
      <4>4. /\ j \notin arming => j \notin arming'
            /\ j \notin arming /\ helper[j] = "none" /\ Server = "a" =>
                 helper'[j] = "none"
        <5>1. RunsInv' /\ Server \in {"a", "b"}
          BY <1>0, RunsNext, SettingIs, TypeParts DEF ClockTyped, Server
        <5>2. CASE Server = "b"
          BY <4>2, <5>1, <5>2 DEF RunsInv
        <5>3. CASE Server = "a"
          BY <1>0, <4>2, <5>3, HelpersStay
        <5> QED BY <5>1, <5>2, <5>3
      <4> HIDE DEF j, s
      <4>5. CASE row'[j] = row[j] /\ told'[j] = told[j]
        BY <4>2, <4>3, <4>4, <4>5 DEF Current
      <4>6. ASSUME NEW k \in Jobs,
                   StartJob(k) PROVE row'[j] = row[j] /\ told'[j] = told[j]
        BY <1>0, <4>2, <4>6 DEF StartJob
      <4>7. ASSUME NEW k \in Jobs, ArmFail(k), helper[k] = "none", k # j
            PROVE  row'[j] = row[j] /\ told'[j] = told[j]
        BY <1>0, <4>2, <4>7 DEF ArmFail
      <4>8. CASE ArmFail(j) /\ helper[j] = "none"
        <5>1. /\ j \in arming /\ j \notin arming' /\ row'[j] = "failed" /\ told' = told
              /\ helper' = helper /\ Server = "a"
          BY <1>0, <4>2, <4>8, SettingIs, TypeParts
          DEF ArmFail, host, RunsInv, Server, ClockTyped
        <5> QED BY <4>2, <4>3, <4>8, <5>1 DEF Current
      <4>9. ASSUME NEW k \in Jobs, NEW m, Moves(k, m),
                   \A v \in Ticks : ~ Busy(v)' PROVE FALSE
        BY <1>3, <4>9
      <4> QED BY <4>5, <4>6, <4>7, <4>8, <4>9, TableMoves
    <3> QED BY <1>0, <1>3, <3>1, <3>2, TickSteps DEF Ends, Busy
  <2> QED BY <2>0 DEF Current
<1> QED BY <1>1, <1>2, <1>3 DEF RowsInTurn

\* Where the worker can rely on its assumptions, ticks are in turn.
PunctualInv == Punctual => DoomInv /\ InTurn /\ RowsInTurn

LEMMA PunctualHolds ==
  Spec => [](JobsInv /\ FilesInv /\ PunctualInv)
<1>1. Init => JobsInv /\ FilesInv /\ PunctualInv
  <2> SUFFICES ASSUME Init PROVE FilesInv /\ DoomInv /\ InTurn /\ RowsInTurn
    BY JobsInit DEF PunctualInv
  <2>1. FilesInv
    BY DEF Init, FilesInv, Alive
  <2>2. DoomInv
    BY DEF Init, DoomInv
  <2>3. InTurn /\ RowsInTurn
    BY DEF Init, InTurn, RowsInTurn, Busy
  <2> QED BY <2>1, <2>2, <2>3
<1>2. JobsInv /\ FilesInv /\ PunctualInv /\ [Next]_vars => (JobsInv /\ FilesInv /\ PunctualInv)'
  <2> SUFFICES ASSUME JobsInv, FilesInv, PunctualInv, [Next]_vars
               PROVE  (JobsInv /\ FilesInv /\ PunctualInv)'
    OBVIOUS
  <2>1. JobsInv' /\ FilesInv'
    BY JobsNext, FilesNext DEF JobsInv
  <2>2. Punctual' = Punctual /\ (Punctual => Serene)
    BY SettingStays DEF Punctual, Serene, Late, Faults, Server
  <2>3. Punctual => DoomInv' /\ InTurn' /\ RowsInTurn'
    BY <2>2, DoomNext, TurnsNext, RowsInTurnNext DEF PunctualInv, JobsInv
  <2> QED BY <2>1, <2>2, <2>3 DEF PunctualInv
<1> QED BY <1>1, <1>2, PTL DEF Spec

\* Where deadlines strike only what is lost and no command gets lost, a reboot
\* that was asked for and carried out is never recorded as a failure, whatever
\* crashes and reboots.
THEOREM RebootSucceeds == Spec => []PlannedRebootSucceeds
<1>1. PunctualInv => PlannedRebootSucceeds
  BY DEF PunctualInv, PlannedRebootSucceeds, DoomInv, Doomed
<1> QED BY <1>1, PunctualHolds, PTL

\* No outcome is told twice where ticks take turns, for any number of jobs,
\* through crashes, reboots and the startup reconcile.
THEOREM TellsOnce == Spec => []ToldOnceInTurn
<1>1. JobsInv /\ PunctualInv => ToldOnceInTurn
  <2> SUFFICES ASSUME JobsInv, PunctualInv, Punctual,
      NEW j \in Jobs PROVE told[j] <= 1
    BY DEF ToldOnceInTurn, ToldOnce
  <2>1. told[j] \in 0..2
    BY TypeParts DEF JobsInv
  <2> QED BY <2>1 DEF PunctualInv, RowsInTurn
<1> QED BY <1>1, PunctualHolds, PTL

\* There the table implements the ledger of jobs: one active job, phases in
\* order, outcomes final.
THEOREM TableIsLedger == Spec => LedgerSpec
<1>1. Init => Ledger!Init
  BY DEF Init, Ledger!Init, Entries
<1>2. JobsInv /\ FilesInv /\ PunctualInv /\ [Next]_vars => [Ledger!Next]_Entries
  <2> SUFFICES ASSUME JobsInv, FilesInv, PunctualInv, [Next]_vars, Entries' # Entries
               PROVE  Ledger!Next
    OBVIOUS
  <2>1. Punctual' = Punctual
    BY SettingStays DEF Punctual, Late, Faults, Server
  <2>2. Punctual /\ Serene /\ Entries = row /\ Entries' = row' /\ row' # row
    BY <2>1 DEF Entries, Punctual, Serene
  <2>3. row \in [Jobs -> {"none"} \cup Live \cup Terminal]
    BY TypeParts DEF JobsInv, RowsTyped
  <2>4. ASSUME NEW j \in Jobs, StartJob(j) PROVE Ledger!Request(j)
    BY <2>2, <2>4 DEF StartJob, Active, Live, Ledger!Request, Ledger!Live
  <2>5. ASSUME NEW j \in Jobs, ArmFail(j), helper[j] = "none" PROVE Ledger!Finish(j)
    <3>1. row[j] = "queued" /\ row' = [row EXCEPT ![j] = "failed"]
      BY <2>2, <2>5 DEF ArmFail, PunctualInv, RowsInTurn
    <3> QED BY <2>2, <3>1 DEF Ledger!Finish, Ledger!Live, Ledger!Outcome
  <2>6. ASSUME NEW j \in Jobs, NEW s,
               Moves(j, s) PROVE Ledger!Advance(j) \/ Ledger!Finish(j)
    <3>1. row' = [row EXCEPT ![j] = s] /\ s # row[j]
      BY <2>2, <2>3, <2>6 DEF Moves
    <3>2. row[j] \in Live /\ (s \in Terminal \/ <<row[j], s>> \in Forward)
      BY <2>6, <3>1 DEF Moves
    <3>3. CASE s \in Terminal
      BY <2>2, <3>1, <3>2, <3>3 DEF Ledger!Finish, Ledger!Live, Ledger!Outcome, Live,
         Terminal
    <3>4. CASE <<row[j], s>> \in Forward
      <4>1. /\ s \in Ledger!Live /\ row[j] \in Ledger!Live
            /\ Ledger!Rank(s) > Ledger!Rank(row[j])
        BY <3>4 DEF Forward, Ledger!Live, Ledger!Rank
      <4> QED BY <2>2, <3>1, <4>1 DEF Ledger!Advance
    <3> QED BY <3>2, <3>3, <3>4
  <2> QED BY <2>2, <2>4, <2>5, <2>6, TableMoves DEF PunctualInv, Ledger!Next
<1> QED BY <1>1, <1>2, PunctualHolds, PTL DEF Spec, LedgerSpec, Ledger!Spec
=============================================================================
