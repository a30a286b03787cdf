----------------------------- MODULE Suspension -----------------------------
(***************************************************************************)
(* Who is suspended, and why.  Five programs write is_active and           *)
(* suspend_reason of the same rows: the quota worker (daily reset, monthly *)
(* reset, enforcement), the expiry worker, the abnormal-traffic check of   *)
(* the alert worker, and the operator's requests, of which two may resume  *)
(* on their own (updateQuota, updateExpiry).                               *)
(*                                                                         *)
(* A worker reads a list of rows and handles them one after the other.     *)
(* For a WireGuard client suspendClient and resumeClient await an SSH      *)
(* command BEFORE they write the row; for a proxy's client they write it   *)
(* at once and await the restart.  setClientActive overwrites whatever     *)
(* reason the row has by then.  Nothing keeps the programs, or two runs of *)
(* one worker, from overlapping.                                           *)
(***************************************************************************)
EXTENDS Naturals

CONSTANTS
  Clients,      \* numbers: the order in which SQLite lists the rows
  Wg,           \* those with a peer on Server A
  QuotaRuns,    \* slots for runs of each worker and for requests
  TtlRuns,
  AlertRuns,
  Requests,
  MaxDay,       \* bounds of the model's calendar
  MaxMonth,
  Settings      \* the circumstances to consider, see below

Slots == QuotaRuns \cup TtlRuns \cup AlertRuns \cup Requests

(* A setting says which clients exist, which slots are used, whether they  *)
(* take turns, which reasons beside the daily quota play a part, and which *)
(* faults strike, once each.                                               *)
ASSUME SuspensionAssumption ==
  /\ Clients \subseteq Nat /\ Wg \subseteq Clients
  /\ MaxDay \in Nat /\ MaxMonth \in Nat
  /\ Settings \subseteq
       [clients : SUBSET Clients, slots : SUBSET Slots, inTurn : BOOLEAN,
        about : SUBSET {"month", "expiry", "burst"},
        faults : SUBSET {"ssh", "crash"}]

VARIABLES
  setting,      \* never changes
  status,       \* "active", "gone" (no row) or the row's suspend_reason
  quota,        \* the row's quotas that use can reach
  lapsed,       \* is expires_at in the past
  reached,      \* quotas that the use of this day, of this month has reached
  heavy,        \* is the last hour's traffic abnormal
  fired,        \* is the client's abnormal_traffic alert in its cooldown
  day, month,   \* the calendar
  spent,        \* history: clients whose use had reached the monthly quota
                \* before this month's oldest snapshots were dropped
  lastDay,      \* what the quota worker remembers of it, in memory
  lastMonth,
  job,          \* what each slot is doing
  faults,       \* faults that may still strike
  revoked       \* history: suspended by hand or for abnormal traffic, and
                \* not resumed by the operator since

rows     == <<status, quota, lapsed, revoked>>
traffic  == <<reached, heavy>>
calendar == <<day, month, spent>>
memory   == <<lastDay, lastMonth>>
vars == <<setting, rows, traffic, calendar, memory, fired, job, faults>>

About == setting.about
Clean == faults = setting.faults

Periods == {"daily", "monthly"}
Lasting == {"manual", "abnormal_traffic"}  \* reasons only the operator lifts
Reasons == Lasting \cup {"daily_quota", "monthly_quota", "expired"}
Status  == Reasons \cup {"active", "gone"}
Row     == [id : Clients, quota : SUBSET Periods]
Phases  == {"day", "month", "enforce", "ttl", "alert",  \* of the workers
            "manual", "resume", "auto", "delete"}       \* of requests

\* A slot at rest, and one that awaits an answer: an SSH command, the
\* restart of a proxy, or Telegram.
Rest == [at |-> "rest"]
Job  == {Rest} \cup
        [at : {"ssh", "restart", "notify"}, phase : Phases, todo : SUBSET Row,
         month : 0..MaxMonth, id : Clients, to : Status]

TypeOK ==
  /\ setting \in Settings
  /\ status \in [Clients -> Status]
  /\ quota \in [Clients -> SUBSET Periods]
  /\ reached \in [Clients -> SUBSET Periods]
  /\ lapsed \in [Clients -> BOOLEAN]
  /\ heavy \in [Clients -> BOOLEAN]
  /\ fired \in [Clients -> BOOLEAN]
  /\ revoked \in [Clients -> BOOLEAN]
  /\ day \in 0..MaxDay /\ lastDay \in 0..MaxDay
  /\ month \in 0..MaxMonth /\ lastMonth \in 0..MaxMonth
  /\ spent \subseteq Clients
  /\ job \in [Slots -> Job]
  /\ faults \subseteq setting.faults

Exists(c) == status[c] # "gone"

Init ==
  /\ setting \in Settings
  /\ status = [c \in Clients |->
                 IF c \in setting.clients THEN "active" ELSE "gone"]
  /\ quota = [c \in Clients |-> IF "month" \in About THEN Periods ELSE {"daily"}]
  /\ reached = [c \in Clients |-> {}]
  /\ lapsed = [c \in Clients |-> FALSE]
  /\ heavy = [c \in Clients |-> FALSE]
  /\ fired = [c \in Clients |-> FALSE]
  /\ revoked = [c \in Clients |-> FALSE]
  /\ day = 0 /\ lastDay = 0 /\ month = 0 /\ lastMonth = 0
  /\ spent = {}
  /\ job = [p \in Slots |-> Rest]
  /\ faults = setting.faults

-----------------------------------------------------------------------------
(* suspendClient, resumeClient and deleteClient *)

\* setClientActive and deleteClient on the row of c, by a job in phase ph.
\* An UPDATE of a row that is gone has no effect; with a row go its traffic
\* snapshots.
Write(ph, c, s) ==
  /\ status' = [status EXCEPT ![c] = IF Exists(c) THEN s ELSE @]
  /\ revoked' = [revoked EXCEPT ![c] =
       IF s \in Lasting THEN Exists(c)
       ELSE @ /\ ph # "resume" /\ s # "gone"]
  /\ reached' = [reached EXCEPT ![c] = IF s = "gone" THEN {} ELSE @]
  /\ heavy' = [heavy EXCEPT ![c] = IF s = "gone" THEN FALSE ELSE @]

Become(p, j) == job' = [job EXCEPT ![p] = j]

Awaiting(where, ph, todo, m, c, s) ==
  [at |-> where, phase |-> ph, todo |-> todo, month |-> m, id |-> c, to |-> s]

\* Where a job is once the row is written: a request has nothing left to do
\* that matters here, a worker goes on after its message to the operator.
After(ph, todo, m, c, s) ==
  IF ph \in {"manual", "resume", "auto", "delete"} THEN Rest
  ELSE Awaiting("notify", ph, todo, m, c, s)

\* Slot p asks for c to become s and keeps todo for later.  The alert
\* worker does something more after the await (fireAlert).
Ask(p, ph, todo, m, c, s) ==
  IF c \in Wg
  THEN /\ Become(p, Awaiting("ssh", ph, todo, m, c, s))
       /\ UNCHANGED <<status, revoked, traffic>>
  ELSE /\ Write(ph, c, s)
       /\ Become(p, IF ph = "alert" THEN Awaiting("restart", ph, todo, m, c, s)
                    ELSE After(ph, todo, m, c, s))

-----------------------------------------------------------------------------
(* The lists that the workers read, and the order they go through them *)

RowsOf(S) == {[id |-> c, quota |-> quota[c]] : c \in S}

\* getQuotaSuspendedClients, getClientsWithQuotas, getExpiredClients,
\* getActiveClients
Active == {c \in Clients : status[c] = "active"}
SuspendedFor(reason) == RowsOf({c \in Clients : status[c] = reason})

\* Mutant: clients that have a monthly quota only are never checked.
WithQuotas_Daily == RowsOf({c \in Active : "daily" \in quota[c]})
WithQuotas == RowsOf({c \in Active : quota[c] # {}})
Expired    == RowsOf({c \in Active : lapsed[c]})
ActiveRows == RowsOf(Active)

First(L)    == CHOOSE r \in L : \A q \in L : r.id <= q.id
Later(L, r) == {q \in L : q.id > r.id}

\* Is row r over its quotas: its own, perhaps old, against the present use
Over(r, period) == period \in r.quota \cap reached[r.id]

\* Mutant: the name of the period for that of the reason.
Reason_Period(r) == IF Over(r, "monthly") THEN "monthly" ELSE "daily"

\* Monthly takes priority.
Reason(r) == IF Over(r, "monthly") THEN "monthly_quota" ELSE "daily_quota"

-----------------------------------------------------------------------------
(* quota.worker.ts.  One turn of the event loop goes from an await through *)
(* the rest of its phase, and through those that follow, to the next await.*)

\* Phase 1 has a row left: resume it, or make it wait for the month.
DayRow(p, L, m) ==
  LET r == First(L) IN
    /\ L # {}
    /\ IF Over(r, "monthly")
       THEN /\ Write("day", r.id, "monthly_quota")
            /\ Become(p, After("day", Later(L, r), m, r.id, "monthly_quota"))
       ELSE Ask(p, "day", Later(L, r), m, r.id, "active")
    /\ UNCHANGED lastMonth

\* Phase 2 has a row left.
MonthRow(p, L) ==
  LET r == First(L) IN L # {} /\ Ask(p, "month", Later(L, r), 0, r.id, "active")

\* Phase 3 has a row left that is over a quota.
EnforceRow(p, L) ==
  LET over == {r \in L : Over(r, "monthly") \/ Over(r, "daily")}
      r == First(over)
  IN  /\ over # {}
      /\ Ask(p, "enforce", Later(L, r), 0, r.id, Reason(r))

EnforceTurn(p, L) ==
  \/ EnforceRow(p, L)
  \/ /\ \A r \in L : ~Over(r, "monthly") /\ ~Over(r, "daily")
     /\ Become(p, Rest) /\ UNCHANGED <<status, revoked, traffic>>

MonthTurn(p, L) == MonthRow(p, L) \/ (L = {} /\ EnforceTurn(p, WithQuotas))

\* m is the month the run has seen when it began.
DayTurn(p, L, m) ==
  \/ DayRow(p, L, m)
  \/ /\ L = {}
     /\ MonthTurn(p, IF m = lastMonth THEN {} ELSE SuspendedFor("monthly_quota"))
     /\ lastMonth' = m

\* Mutant: the key of the month is computed once, when the worker starts.
QuotaTick_StaleMonth(p) ==
  /\ lastDay' = day
  /\ DayTurn(p, IF day = lastDay THEN {} ELSE SuspendedFor("daily_quota"),
             lastMonth)
  /\ UNCHANGED fired

QuotaTick(p) ==
  /\ lastDay' = day
  /\ DayTurn(p, IF day = lastDay THEN {} ELSE SuspendedFor("daily_quota"), month)
  /\ UNCHANGED fired

(* ttl.worker.ts *)
TtlTurn(p, L) ==
  IF L = {} THEN Become(p, Rest) /\ UNCHANGED <<status, revoked, traffic>>
  ELSE Ask(p, "ttl", Later(L, First(L)), 0, First(L).id, "expired")

(* checkAbnormalTraffic of alert.worker.ts; shouldFire is ~fired *)
AlertTurn(p, L) ==
  LET abnormal == {r \in L : heavy[r.id] /\ ~fired[r.id]}
      r == First(abnormal)
  IN  IF abnormal = {}
      THEN Become(p, Rest) /\ UNCHANGED <<status, revoked, traffic>>
      ELSE Ask(p, "alert", Later(L, r), 0, r.id, "abnormal_traffic")

\* The rest of p's work, in the turn that follows an await.
GoOn(p) ==
  LET j == job[p] IN
    \/ j.phase = "day" /\ DayTurn(p, j.todo, j.month)
    \/ /\ UNCHANGED lastMonth
       /\ \/ j.phase = "month"   /\ MonthTurn(p, j.todo)
          \/ j.phase = "enforce" /\ EnforceTurn(p, j.todo)
          \/ j.phase = "ttl"     /\ TtlTurn(p, j.todo)
          \/ j.phase = "alert"   /\ AlertTurn(p, j.todo)

-----------------------------------------------------------------------------
(* Beginnings: timers and requests *)

Begins(p) ==
  /\ p \in setting.slots /\ job[p] = Rest
  /\ setting.inTurn => \A q \in Slots : job[q] = Rest
  /\ UNCHANGED <<setting, calendar, faults>>

StartQuota(p) ==
  /\ Begins(p) /\ p \in QuotaRuns /\ QuotaTick(p)
  /\ UNCHANGED <<quota, lapsed>>

StartTtl(p) ==
  /\ Begins(p) /\ p \in TtlRuns /\ TtlTurn(p, Expired)
  /\ UNCHANGED <<quota, lapsed, memory, fired>>

StartAlert(p) ==
  /\ Begins(p) /\ p \in AlertRuns /\ AlertTurn(p, ActiveRows)
  /\ UNCHANGED <<quota, lapsed, memory, fired>>

\* The operator suspends, resumes or deletes c.  The bot's button resumes
\* whatever the reason; the Mini App refuses while the quota of the reason
\* is exceeded, and so does nothing the bot does not.
Request(p, c) ==
  /\ Begins(p) /\ p \in Requests /\ Exists(c)
  /\ \E step \in {<<"manual", "manual">>, <<"resume", "active">>,
                  <<"delete", "gone">>} :
       Ask(p, step[1], {}, 0, c, step[2])
  /\ UNCHANGED <<quota, lapsed, memory, fired>>

\* Mutant: only the daily quota is thought of.
QuotaResumes_Daily(c, q) ==
  status[c] = "daily_quota" /\ "daily" \notin q \cap reached[c]

\* Does a change of the quotas to q end the reason of c's suspension
QuotaResumes(c, q) ==
  \/ status[c] = "daily_quota" /\ "daily" \notin q \cap reached[c]
  \/ status[c] = "monthly_quota" /\ "monthly" \notin q \cap reached[c]

\* Mutant: whatever the reason of the suspension.
ExpiryResumes_AnyReason(c) == status[c] # "active"

\* Does a later expiry, or none.
ExpiryResumes(c) == status[c] = "expired"

UpdateQuota(p, c, q) ==
  /\ Begins(p) /\ p \in Requests /\ Exists(c)
  /\ "month" \in About \/ "monthly" \notin q
  /\ quota' = [quota EXCEPT ![c] = q]
  /\ IF QuotaResumes(c, q) THEN Ask(p, "auto", {}, 0, c, "active")
     ELSE UNCHANGED <<status, revoked, traffic, job>>
  /\ UNCHANGED <<lapsed, memory, fired>>

UpdateExpiry(p, c) ==
  /\ Begins(p) /\ p \in Requests /\ Exists(c)
  /\ lapsed' = [lapsed EXCEPT ![c] = FALSE]
  /\ IF ExpiryResumes(c) THEN Ask(p, "auto", {}, 0, c, "active")
     ELSE UNCHANGED <<status, revoked, traffic, job>>
  /\ UNCHANGED <<quota, memory, fired>>

-----------------------------------------------------------------------------
(* Answers *)

\* The alert is fired whether or not the suspension went through.
AlertFired(j) == fired' = IF j.phase = "alert" THEN [fired EXCEPT ![j.id] = TRUE]
                          ELSE fired

SshDone(p) ==
  LET j == job[p] IN
    /\ j.at = "ssh"
    /\ Write(j.phase, j.id, j.to)
    /\ Become(p, After(j.phase, j.todo, j.month, j.id, j.to))
    /\ AlertFired(j)
    /\ UNCHANGED <<setting, quota, lapsed, calendar, memory, faults>>

\* A restart that fails is caught after the row was written, and is the same.
RestartDone(p) ==
  LET j == job[p] IN
    /\ j.at = "restart"
    /\ Become(p, After(j.phase, j.todo, j.month, j.id, j.to))
    /\ AlertFired(j)
    /\ UNCHANGED <<setting, rows, traffic, calendar, memory, faults>>

Notified(p) ==
  /\ job[p].at = "notify"
  /\ GoOn(p)
  /\ UNCHANGED <<setting, quota, lapsed, calendar, lastDay, fired, faults>>

\* A worker logs the error and goes on with the next row; a request ends.
SshFails(p) ==
  LET j == job[p] IN
    /\ j.at = "ssh" /\ "ssh" \in faults
    /\ faults' = faults \ {"ssh"}
    /\ \/ /\ j.phase \in {"day", "month", "enforce", "ttl"}
          /\ GoOn(p)
       \/ /\ j.phase \in {"alert", "manual", "resume", "auto", "delete"}
          /\ Become(p, After(j.phase, j.todo, j.month, j.id, j.to))
          /\ UNCHANGED <<status, revoked, traffic, lastMonth>>
    /\ AlertFired(j)
    /\ UNCHANGED <<setting, quota, lapsed, calendar, lastDay>>

\* The process dies and is started again: the quota worker takes the present
\* day and month for those it has dealt with.
Restart ==
  /\ "crash" \in faults /\ faults' = faults \ {"crash"}
  /\ job' = [p \in Slots |-> Rest]
  /\ lastDay' = day /\ lastMonth' = month
  /\ UNCHANGED <<setting, rows, traffic, calendar, fired>>

-----------------------------------------------------------------------------
(* The world: use, and time *)

\* A snapshot brings the use of c up to a quota, or its last hour's traffic
\* over the threshold.
Use(c) ==
  /\ Exists(c)
  /\ \/ /\ \E period \in IF "month" \in About THEN Periods ELSE {"daily"} :
             reached' = [reached EXCEPT ![c] = @ \cup {period}]
        /\ UNCHANGED heavy
     \/ /\ "burst" \in About
        /\ heavy' = [heavy EXCEPT ![c] = TRUE]
        /\ UNCHANGED reached
  /\ UNCHANGED <<setting, rows, calendar, memory, fired, job, faults>>

\* Midnight, perhaps the last of a month.
NewDay ==
  /\ day < MaxDay /\ day' = day + 1
  /\ \/ /\ month' = month /\ spent' = spent
        /\ reached' = [c \in Clients |-> reached[c] \ {"daily"}]
     \/ /\ "month" \in About /\ month < MaxMonth /\ month' = month + 1
        /\ spent' = {}
        /\ reached' = [c \in Clients |-> {}]
  /\ UNCHANGED <<setting, rows, heavy, memory, fired, job, faults>>

\* rollupClientTraffic drops the snapshots older than 30 days, and the use of
\* a month is the sum of what is left: on a 31st it falls, for the old clients
\* below their quota.
Rollup ==
  /\ \E old \in SUBSET {c \in Clients : "monthly" \in reached[c]} :
       /\ reached' = [c \in Clients |->
                        reached[c] \ IF c \in old THEN {"monthly"} ELSE {}]
       /\ spent' = spent \cup old
  /\ UNCHANGED <<setting, rows, heavy, day, month, memory, fired, job, faults>>

Lapse(c) ==
  /\ "expiry" \in About /\ Exists(c) /\ ~lapsed[c]
  /\ lapsed' = [lapsed EXCEPT ![c] = TRUE]
  /\ UNCHANGED <<setting, status, quota, revoked, traffic, calendar, memory,
                 fired, job, faults>>

\* The hour of heavy traffic, or the alert's cooldown, is over.
Calm(c) ==
  /\ \/ heavy[c] /\ heavy' = [heavy EXCEPT ![c] = FALSE] /\ UNCHANGED fired
     \/ fired[c] /\ fired' = [fired EXCEPT ![c] = FALSE] /\ UNCHANGED heavy
  /\ UNCHANGED <<setting, rows, reached, calendar, memory, job, faults>>

Begin(p) == StartQuota(p) \/ StartTtl(p) \/ StartAlert(p)
Answer(p) == SshDone(p) \/ RestartDone(p) \/ Notified(p)

Next ==
  \/ \E p \in Slots : Begin(p) \/ Answer(p) \/ SshFails(p)
  \/ \E p \in Slots, c \in Clients :
       \/ Request(p, c)
       \/ \E q \in SUBSET Periods : UpdateQuota(p, c, q)
       \/ UpdateExpiry(p, c)
  \/ Restart \/ NewDay \/ Rollup
  \/ \E c \in Clients : Use(c) \/ Lapse(c) \/ Calm(c)

Spec == Init /\ [][Next]_vars

\* Timers go off again and again, and every await ends: exec has a timeout,
\* the polling of a restart too.
FairSpec == Spec /\ \A p \in Slots : WF_vars(Begin(p)) /\ WF_vars(Answer(p))

-----------------------------------------------------------------------------
(* Properties *)

\* A client the operator suspended, or one suspended for abnormal traffic,
\* is not active before the operator resumes it ("To actually revoke access,
\* suspend or delete the client").
RevokedStays == \A c \in Clients : revoked[c] => status[c] # "active"

\* It is so as long as the programs take turns: no reset, no change of quota
\* or expiry lifts a suspension it has nothing to do with.
RevokedStaysInTurn == setting.inTurn => RevokedStays

(* Why: a row says so for as long as the client is revoked, and the one job *)
(* under way neither lifts that nor holds a list that names the client.     *)
Kept == \A c \in Clients : revoked[c] => status[c] \in Lasting \cup {"gone"}

Spared(L) == \A r \in L : ~revoked[r.id]

\* The phases whose suspensions end by themselves.
Passing == {"day", "month", "enforce", "ttl"}

\* May a job in phase ph make c become s and go on with todo
Allowed(ph, todo, c, s) ==
  /\ s \in Lasting \cup {"gone"} \/ ph = "resume" \/ ~revoked[c]
  /\ ph \in Passing => Spared(todo) /\ s \notin Lasting \cup {"gone"}

Careful(j) ==
  /\ j.at = "ssh" => Allowed(j.phase, j.todo, j.id, j.to)
  /\ j.phase \in Passing => Spared(j.todo)

\* A revoked client's row keeps a reason that no worker lifts, and no list a
\* worker has read holds a revoked client, while the programs take turns.
TurnsInv ==
  setting.inTurn =>
    /\ Kept
    /\ \A p \in Slots : job[p] # Rest =>
         Careful(job[p]) /\ \A q \in Slots \ {p} : job[q] = Rest

\* As long as they take turns and nothing fails, a client that is suspended
\* for a quota or its expiry is over that quota or expired, or the reset that
\* will lift the suspension is still to come.  For the monthly quota it may be
\* that the use had reached it this month, before the rollup.
SuspendedForCause ==
  setting.inTurn /\ Clean /\ (\A p \in Slots : job[p] = Rest) =>
    \A c \in Clients :
      /\ status[c] = "daily_quota" =>
           "daily" \in quota[c] \cap reached[c] \/ lastDay # day
      /\ status[c] = "monthly_quota" =>
           \/ "monthly" \in quota[c] /\ ("monthly" \in reached[c] \/ c \in spent)
           \/ lastMonth # month
      /\ status[c] = "expired" => lapsed[c]

OverQuota(c) == status[c] = "active" /\ quota[c] \cap reached[c] # {}
Outlives(c)  == status[c] = "active" /\ lapsed[c]

\* Nobody stays active over a quota or past the expiry, whatever overlaps
\* and whichever command fails: the next run makes up for it.
OverstayEnds ==
  ~setting.inTurn =>
    \A c \in Clients :
      /\ OverQuota(c) ~> ~OverQuota(c)
      /\ Outlives(c) ~> ~Outlives(c)

\* If nothing fails and the bot is not restarted, a daily suspension of an
\* earlier day ends, and a monthly one of an earlier month.
ResetLifts ==
  ~setting.inTurn /\ []Clean =>
    \A c \in Clients :
      /\ status[c] = "daily_quota" /\ lastDay # day
           ~> status[c] # "daily_quota"
      /\ status[c] = "monthly_quota" /\ lastMonth # month
           ~> status[c] # "monthly_quota"
=============================================================================
