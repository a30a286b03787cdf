------------------------------ MODULE Traffic ------------------------------
(***************************************************************************)
(* Traffic accounting for one client (workers/traffic.worker.ts and        *)
(* rollup.worker.ts).  The counters of XRay and of sing-box are reset by   *)
(* reading them; WireGuard's is cumulative and the worker keeps its last   *)
(* reading in memory.  A poll awaits sing-box (with no deadline) and SSH,  *)
(* so the next one may begin before it ends.                               *)
(***************************************************************************)
EXTENDS Integers, FiniteSets

CONSTANTS
  Polls,     \* runs of the worker that may be under way at once
  MaxBytes   \* bound: units of traffic the client exchanges

ASSUME TrafficAssumption == IsFiniteSet(Polls) /\ MaxBytes \in Nat

VARIABLES
  carried,   \* what the client has exchanged, in all
  counter,   \* the counters of the three services
  poll,      \* per run: where it awaits and what it holds
  lastWg,    \* lastWg, Unknown before the first reading
  young,     \* sum of the rows of traffic_snapshots not yet 30 days old
  old,       \* sum of those that are
  monthly,   \* client_traffic_monthly
  present,   \* has the client a row in clients
  crossed    \* history: two polls held a WireGuard reading at once

rows        == <<young, old, monthly>>
trafficVars == <<carried, counter, poll, lastWg, rows, present, crossed>>

Unknown == -1
NoPoll  == [at |-> "idle", taken |-> 0, wg |-> Unknown]
Amounts == 0..MaxBytes

TrafficTypeOK ==
  /\ carried \in Amounts /\ counter \in [{"xray", "hy2", "wg"} -> Amounts]
  /\ poll \in [Polls -> [at : {"idle", "hy2", "ssh", "insert"}, taken : Amounts,
                         wg : Amounts \cup {Unknown}]]
  /\ lastWg \in Amounts \cup {Unknown}
  /\ present \in BOOLEAN /\ crossed \in BOOLEAN

-----------------------------------------------------------------------------

Carry(s) ==
  /\ carried < MaxBytes /\ carried' = carried + 1
  /\ counter' = [counter EXCEPT ![s] = @ + 1]
  /\ UNCHANGED <<poll, lastWg, rows, present, crossed>>

\* A service restarts and counts from zero.
CounterLost(s) ==
  /\ counter' = [counter EXCEPT ![s] = 0]
  /\ UNCHANGED <<carried, poll, lastWg, rows, present, crossed>>

Becomes(p, at_, taken_, wg_) ==
  poll' = [poll EXCEPT ![p] = [at |-> at_, taken |-> taken_, wg |-> wg_]]

\* A reading with reset, by a run that goes on to await at; when the answer
\* is lost the counter may have been reset or not.
Take(p, s, at) ==
  \/ /\ Becomes(p, at, poll[p].taken + counter[s], poll[p].wg)
     /\ counter' = [counter EXCEPT ![s] = 0]
  \/ /\ Becomes(p, at, poll[p].taken, poll[p].wg)
     /\ counter' \in {counter, [counter EXCEPT ![s] = 0]}

\* The list of clients is read and XRay asked, in one synchronous stretch.
BeginPoll(p) ==
  /\ poll[p].at = "idle" /\ present
  /\ Take(p, "xray", "hy2")
  /\ UNCHANGED <<carried, lastWg, rows, present, crossed>>

Hy2Answers(p) ==
  /\ poll[p].at = "hy2"
  /\ Take(p, "hy2", "ssh")
  /\ UNCHANGED <<carried, lastWg, rows, present, crossed>>

\* "wg show dump" runs on Server A, or Server A is not reached.
WgAnswers(p) ==
  /\ poll[p].at = "ssh"
  /\ \E w \in {counter["wg"], Unknown} : Becomes(p, "insert", poll[p].taken, w)
  /\ UNCHANGED <<carried, counter, lastWg, rows, present, crossed>>

\* What a cumulative reading adds to the previous one.
Delta(now_, prev) == IF prev # Unknown /\ now_ >= prev THEN now_ - prev ELSE 0

\* The loop over the clients; the row of a client deleted since the list was
\* read violates the foreign key, which ends the run.
Insert(p) ==
  /\ poll[p].at = "insert"
  /\ poll' = [poll EXCEPT ![p] = NoPoll]
  /\ IF poll[p].wg = Unknown THEN UNCHANGED <<lastWg, crossed>>
     ELSE /\ lastWg' = poll[p].wg
          /\ crossed' = (crossed \/ \E q \in Polls \ {p} : poll[q].wg # Unknown)
  /\ IF ~present THEN UNCHANGED young
     ELSE young' = young + poll[p].taken
                   + IF poll[p].wg = Unknown THEN 0 ELSE Delta(poll[p].wg, lastWg)
  /\ UNCHANGED <<carried, counter, old, monthly, present>>

Age ==
  /\ young > 0 /\ young' = 0 /\ old' = old + young
  /\ UNCHANGED <<carried, counter, poll, lastWg, monthly, present, crossed>>

\* Mutant: the rows stay after they were added up.
Rollup_Keeps ==
  /\ old > 0 /\ monthly' = monthly + old
  /\ UNCHANGED <<carried, counter, poll, lastWg, young, old, present, crossed>>

\* rollupClientTraffic: SELECT and DELETE each take the time anew, so rows
\* that turn 30 days old between them are deleted without being added up.
Rollup ==
  /\ old > 0 /\ monthly' = monthly + old /\ old' = 0
  /\ young' \in {young, 0}
  /\ UNCHANGED <<carried, counter, poll, lastWg, present, crossed>>

\* The client is deleted and its snapshots with it.
ClientDeleted ==
  /\ present /\ present' = FALSE /\ young' = 0 /\ old' = 0
  /\ UNCHANGED <<carried, counter, poll, lastWg, monthly, crossed>>

\* The process restarts: runs and the last reading are gone.
WorkerRestart ==
  /\ poll' = [p \in Polls |-> NoPoll] /\ lastWg' = Unknown
  /\ UNCHANGED <<carried, counter, rows, present, crossed>>

TrafficInit ==
  /\ carried = 0 /\ counter = [s \in {"xray", "hy2", "wg"} |-> 0]
  /\ poll = [p \in Polls |-> NoPoll] /\ lastWg = Unknown
  /\ young = 0 /\ old = 0 /\ monthly = 0 /\ present = TRUE /\ crossed = FALSE

TrafficNext ==
  \/ \E s \in {"xray", "hy2", "wg"} : Carry(s) \/ CounterLost(s)
  \/ \E p \in Polls : BeginPoll(p) \/ Hy2Answers(p) \/ WgAnswers(p) \/ Insert(p)
  \/ Age \/ Rollup \/ ClientDeleted \/ WorkerRestart

TrafficSpec == TrafficInit /\ [][TrafficNext]_trafficVars

-----------------------------------------------------------------------------

\* How much the polls hold that is not recorded yet.
Held   == UNION {{p} \X (1..poll[p].taken) : p \in Polls}
InHand == Cardinality(Held)

\* No byte is counted twice, over polls that overlap, polls that die, services
\* and workers that restart and the monthly rollup: what is recorded, held by
\* the polls and still to be read never exceeds what the client exchanged
\* (quotas suspend on these sums).  Two polls that hold a WireGuard reading at
\* once may apply them out of order, and that is the one way to break it.
CountedOnce ==
  ~crossed =>
    young + old + monthly + InHand + counter["xray"] + counter["hy2"]
      + Delta(counter["wg"], lastWg) <= carried
=============================================================================
