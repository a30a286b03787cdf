-------------------------- MODULE MCServicesProofs --------------------------
(***************************************************************************)
(* The parts of MCServices taken together: the specification of the run    *)
(* implies each part's own, so that what RestoreProofs and ServicesProofs  *)
(* prove of the parts holds of it, type correctness included; and the      *)
(* types of the parts that have no other theorem.                          *)
(***************************************************************************)
EXTENDS MCServices, RestoreProofs, ServicesProofs

-----------------------------------------------------------------------------
(* The SSH pool.                                                           *)

ClosedConns == {c \in Conn : conns[c] = "closed"}

\* The shared connection is up, what is not dialed is nowhere, and each closed
\* connection has armed one reconnect at most.
SshInv ==
  /\ SshTypeOK
  /\ client # 0 => conns[client] = "up"
  /\ \A c \in Conn : c > dials => conns[c] = "none"
  /\ reconnects <= Cardinality(ClosedConns)

LEMMA ConnsFinite ==
  /\ MaxDials \in Nat /\ IsFiniteSet(Conn) /\ Cardinality(Conn) = MaxDials
  /\ \A S \in SUBSET Conn :
       IsFiniteSet(S) /\ Cardinality(S) \in Nat /\ Cardinality(S) <= MaxDials
<1>1. MaxDials \in Nat
  BY SshAssumption
<1>2. /\ IsFiniteSet(1..MaxDials)
      /\ Cardinality(1..MaxDials) = IF 1 > MaxDials THEN 0 ELSE MaxDials - 1 + 1
  <2>1. 1 \in Int /\ MaxDials \in Int
    BY <1>1
  <2> QED BY <2>1, FS_Interval, Zenon
<1>3. IsFiniteSet(Conn) /\ Cardinality(Conn) = MaxDials
  BY <1>1, <1>2 DEF Conn
<1>4. ASSUME NEW S \in SUBSET Conn
      PROVE  IsFiniteSet(S) /\ Cardinality(S) \in Nat /\ Cardinality(S) <= MaxDials
  BY <1>3, FS_Subset, FS_CardinalityType
<1> QED BY <1>1, <1>3, <1>4

LEMMA ReconnectsBounded == SshInv => reconnects <= MaxDials
<1>1. ClosedConns \in SUBSET Conn
  BY DEF ClosedConns
<1>2. Cardinality(ClosedConns) \in Nat /\ Cardinality(ClosedConns) <= MaxDials /\ MaxDials \in Nat
  BY <1>1, ConnsFinite
<1> QED BY <1>2 DEF SshInv, SshTypeOK

LEMMA SshInitInv == SshInit => SshInv
<1> SUFFICES ASSUME SshInit PROVE SshInv
  OBVIOUS
<1>1. 0 \in 0..MaxDials
  BY SshAssumption
<1>2. ClosedConns = {}
  BY DEF SshInit, ClosedConns
<1>3. SshTypeOK
  BY <1>1 DEF SshInit, SshTypeOK
<1> QED BY <1>2, <1>3, FS_EmptySet DEF SshInit, SshInv

\* What a step does to the connections, as far as their number is concerned.
LEMMA SshKeeps ==
  ASSUME SshInv, SshTypeOK', client' # 0 => conns'[client'] = "up",
         \A c \in Conn : c > dials' => conns'[c] = "none",
         ClosedConns \subseteq ClosedConns', reconnects' <= reconnects
  PROVE  SshInv'
<1>1. ClosedConns' \in SUBSET Conn
  BY DEF ClosedConns
<1>2. /\ IsFiniteSet(ClosedConns') /\ Cardinality(ClosedConns') \in Nat
      /\ Cardinality(ClosedConns) <= Cardinality(ClosedConns')
      /\ Cardinality(ClosedConns) \in Nat
  BY <1>1, ConnsFinite, FS_Subset
<1>3. reconnects \in Int /\ reconnects' \in Int /\ reconnects <= Cardinality(ClosedConns)
  BY DEF SshInv, SshTypeOK
<1>4. reconnects' <= Cardinality(ClosedConns')
  BY <1>2, <1>3
<1>5. Conn' = Conn
  BY DEF Conn
<1> QED BY <1>4, <1>5 DEF SshInv

LEMMA DialKeeps ==
  ASSUME SshInv, NEW r \in BOOLEAN, Dial(r), client = 0, client' = client
  PROVE  /\ connecting' = TRUE /\ dials' \in 0..MaxDials
         /\ conns' \in [Conn -> {"none", "dialing", "up", "ended", "closed"}]
         /\ \A c \in Conn : c > dials' => conns'[c] = "none"
         /\ ClosedConns \subseteq ClosedConns'
<1> USE DEF SshInv, SshTypeOK
<1>1. CASE r
  <2>1. /\ connecting' = TRUE /\ dials < MaxDials /\ dials' = dials + 1
        /\ conns' = [conns EXCEPT ![dials + 1] = "dialing"]
    BY <1>1 DEF Dial
  <2>2. dials + 1 \in Conn /\ dials' \in 0..MaxDials
    BY <2>1, SshAssumption DEF Conn
  <2>3. conns[dials + 1] = "none"
    BY <2>2
  <2>4. \A c \in Conn : c > dials' => conns'[c] = "none"
    BY <2>1, <2>2 DEF Conn
  <2>5. ClosedConns \subseteq ClosedConns'
    BY <2>1, <2>3 DEF ClosedConns, Conn
  <2> QED BY <2>1, <2>2, <2>4, <2>5
<1>2. CASE ~ r
  BY <1>2 DEF Dial, ClosedConns, Conn
<1> QED BY <1>1, <1>2

\* One more connection is closed.
LEMMA CloseCounts ==
  ASSUME SshInv, NEW c \in Conn, conns[c] # "closed",
         conns' = [conns EXCEPT ![c] = "closed"]
  PROVE  /\ ClosedConns' = ClosedConns \cup {c}
         /\ Cardinality(ClosedConns') = Cardinality(ClosedConns) + 1
         /\ Cardinality(ClosedConns') <= MaxDials
         /\ Cardinality(ClosedConns) \in Nat
<1>1. ClosedConns' = ClosedConns \cup {c} /\ c \notin ClosedConns
  BY DEF ClosedConns, SshInv, SshTypeOK, Conn
<1>2. ClosedConns \in SUBSET Conn /\ ClosedConns \cup {c} \in SUBSET Conn
  BY DEF ClosedConns
<1>3. IsFiniteSet(ClosedConns)
  BY <1>2, ConnsFinite
<1>4. Cardinality(ClosedConns \cup {c}) = Cardinality(ClosedConns) + 1
  BY <1>1, <1>3, FS_AddElement
<1> QED BY <1>1, <1>2, <1>4, ConnsFinite

LEMMA SshInvNext == SshInv /\ [SshNext]_sshVars => SshInv'
<1> SUFFICES ASSUME SshInv, [SshNext]_sshVars PROVE SshInv'
  OBVIOUS
<1>0. SshTypeOK /\ Conn = 1..MaxDials /\ MaxDials \in Nat
  BY SshAssumption DEF SshInv, Conn
<1> USE DEF SshTypeOK
<1>1. ASSUME NEW r \in Requests, Call(r) PROVE SshInv'
  <2>0. UNCHANGED <<client, poolClosed, reconnects>>
    BY <1>1 DEF Call
  <2>1. CASE UNCHANGED <<connecting, conns, dials>>
    <3>1. calls' \in [Requests -> {"none", "connection", "answer"}] /\ queue' \subseteq Requests
      BY <1>0, <1>1 DEF Call
    <3>2. SshTypeOK'
      BY <1>0, <2>0, <2>1, <3>1 DEF Conn
    <3> QED BY <2>0, <2>1, <3>2, SshKeeps DEF SshInv, ClosedConns, Conn
  <2>2. CASE client = 0 /\ \E b \in BOOLEAN : Dial(b)
    <3>1. calls' \in [Requests -> {"none", "connection", "answer"}] /\ queue' \subseteq Requests
      BY <1>0, <1>1 DEF Call
    <3>2. /\ connecting' = TRUE /\ dials' \in 0..MaxDials
          /\ conns' \in [Conn -> {"none", "dialing", "up", "ended", "closed"}]
          /\ \A c \in Conn : c > dials' => conns'[c] = "none"
          /\ ClosedConns \subseteq ClosedConns'
      BY <2>0, <2>2, DialKeeps
    <3>3. SshTypeOK'
      BY <1>0, <2>0, <3>1, <3>2 DEF Conn
    <3> QED BY <1>0, <2>0, <2>2, <3>2, <3>3, SshKeeps
  <2> QED BY <1>1, <2>1, <2>2 DEF Call
<1>2. ASSUME NEW r \in Requests, Answered(r) PROVE SshInv'
  <2>1. SshTypeOK' /\ UNCHANGED <<client, conns, dials, reconnects>>
    BY <1>0, <1>2 DEF Answered, Conn
  <2> QED BY <2>1, SshKeeps DEF SshInv, ClosedConns, Conn
<1>3. ASSUME NEW c \in Conn, Ready(c) PROVE SshInv'
  <2>1. /\ conns[c] = "dialing" /\ conns' = [conns EXCEPT ![c] = "up"] /\ client' = c
        /\ UNCHANGED <<dials, reconnects>>
    BY <1>3 DEF Ready
  <2>5. /\ connecting' = FALSE /\ poolClosed' = poolClosed /\ queue' = {}
        /\ calls' = [r \in Requests |-> IF r \in queue THEN "answer" ELSE calls[r]]
    BY <1>3 DEF Ready
  <2>6. calls' \in [Requests -> {"none", "connection", "answer"}]
    BY <1>0, <2>5
  <2>7. /\ conns' \in [Conn -> {"none", "dialing", "up", "ended", "closed"}]
        /\ client' \in 0..MaxDials
    BY <1>0, <2>1
  <2>8. connecting' \in BOOLEAN /\ poolClosed' \in BOOLEAN
    BY <1>0, <2>5
  <2>2. SshTypeOK'
    BY <1>0, <2>1, <2>5, <2>6, <2>7, <2>8
  <2>3. ClosedConns \subseteq ClosedConns' /\ conns'[c] = "up"
    BY <1>0, <2>1 DEF ClosedConns, Conn
  <2>4. \A d \in Conn : d > dials' => conns'[d] = "none"
    BY <1>0, <2>1 DEF SshInv
  <2> QED BY <2>1, <2>2, <2>3, <2>4, SshKeeps
<1>4. ASSUME NEW c \in Conn, Failed(c) PROVE SshInv'
  <2>1. /\ conns[c] \in {"dialing", "up"} /\ conns' = [conns EXCEPT ![c] = "ended"] /\ client' = 0
        /\ UNCHANGED <<dials, reconnects>>
    BY <1>4 DEF Failed
  <2>5. /\ connecting' = FALSE /\ poolClosed' = poolClosed /\ queue' = {}
        /\ calls' = [r \in Requests |-> IF r \in queue THEN "none" ELSE calls[r]]
    BY <1>4 DEF Failed
  <2>6. calls' \in [Requests -> {"none", "connection", "answer"}]
    BY <1>0, <2>5
  <2>7. /\ conns' \in [Conn -> {"none", "dialing", "up", "ended", "closed"}]
        /\ client' \in 0..MaxDials
    BY <1>0, <2>1
  <2>8. connecting' \in BOOLEAN /\ poolClosed' \in BOOLEAN
    BY <1>0, <2>5
  <2>2. SshTypeOK'
    BY <1>0, <2>1, <2>5, <2>6, <2>7, <2>8
  <2>3. ClosedConns \subseteq ClosedConns'
    BY <1>0, <2>1 DEF ClosedConns, Conn
  <2>4. \A d \in Conn : d > dials' => conns'[d] = "none"
    BY <1>0, <2>1 DEF SshInv
  <2> QED BY <1>0, <2>1, <2>2, <2>3, <2>4, SshKeeps
<1>5. ASSUME NEW c \in Conn, Closed(c) PROVE SshInv'
  <2>1. /\ conns[c] \in {"up", "ended"} /\ conns' = [conns EXCEPT ![c] = "closed"] /\ client' = 0
        /\ reconnects' \in {reconnects, reconnects + 1}
        /\ UNCHANGED <<connecting, poolClosed, dials, queue, calls>>
    BY <1>5 DEF Closed
  <2>2. /\ Cardinality(ClosedConns') = Cardinality(ClosedConns) + 1
        /\ Cardinality(ClosedConns') <= MaxDials /\ Cardinality(ClosedConns) \in Nat
    BY <2>1, CloseCounts
  <2>3. reconnects' <= Cardinality(ClosedConns') /\ reconnects' \in 0..MaxDials
    BY <1>0, <2>1, <2>2 DEF SshInv
  <2>4. SshTypeOK'
    BY <1>0, <2>1, <2>3 DEF Conn
  <2>5. \A d \in Conn : d > dials' => conns'[d] = "none"
    BY <1>0, <2>1 DEF SshInv
  <2> QED BY <1>0, <2>1, <2>3, <2>4, <2>5 DEF SshInv, Conn
<1>6. CASE Reconnect
  <2>0. /\ reconnects > 0 /\ reconnects' = reconnects - 1
        /\ UNCHANGED <<client, poolClosed, queue, calls>>
    BY <1>6 DEF Reconnect
  <2>1. CASE UNCHANGED <<connecting, conns, dials>>
    <3>1. SshTypeOK'
      BY <1>0, <2>0, <2>1 DEF Conn
    <3> QED BY <1>0, <2>0, <2>1, <3>1, SshKeeps DEF SshInv, ClosedConns, Conn
  <2>2. CASE client = 0 /\ \E b \in BOOLEAN : Dial(b)
    <3>1. /\ connecting' = TRUE /\ dials' \in 0..MaxDials
          /\ conns' \in [Conn -> {"none", "dialing", "up", "ended", "closed"}]
          /\ \A c \in Conn : c > dials' => conns'[c] = "none"
          /\ ClosedConns \subseteq ClosedConns'
      BY <2>0, <2>2, DialKeeps
    <3>2. SshTypeOK'
      BY <1>0, <2>0, <3>1 DEF Conn
    <3> QED BY <1>0, <2>0, <2>2, <3>1, <3>2, SshKeeps
  <2> QED BY <1>6, <2>1, <2>2 DEF Reconnect
<1>7. CASE ClosePool
  <2>1. /\ client' = 0 /\ poolClosed' = TRUE
        /\ conns' = IF client = 0 THEN conns ELSE [conns EXCEPT ![client] = "ended"]
        /\ UNCHANGED <<connecting, dials, queue, calls, reconnects>>
    BY <1>7 DEF ClosePool
  <2>2. SshTypeOK'
    BY <1>0, <2>1 DEF Conn
  <2>3. ClosedConns \subseteq ClosedConns'
    BY <1>0, <2>1 DEF SshInv, ClosedConns, Conn
  <2>4. \A d \in Conn : d > dials' => conns'[d] = "none"
    BY <1>0, <2>1 DEF SshInv
  <2> QED BY <1>0, <2>1, <2>2, <2>3, <2>4, SshKeeps
<1>8. CASE UNCHANGED sshVars
  BY <1>0, <1>8 DEF SshInv, sshVars, Conn, ClosedConns
<1> QED BY <1>1, <1>2, <1>3, <1>4, <1>5, <1>6, <1>7, <1>8 DEF SshNext

\* Type correctness of the SSH pool: for any callers and connections there are
\* never more reconnects to come than connections that were closed.
THEOREM SshTypes == SshSpec => []SshTypeOK
<1>1. SshInv => SshTypeOK
  BY DEF SshInv
<1> QED BY <1>1, SshInitInv, SshInvNext, PTL DEF SshSpec

-----------------------------------------------------------------------------
(* Alerts and updates.                                                     *)

LEMMA EvaluateTyped ==
  ASSUME AlertTypeOK, NEW holds, NEW lasting, Evaluate(holds, lasting)
  PROVE  /\ sustain' \in NotSince..SustainFor /\ status' \in {"clear", "fired"}
         /\ age' \in 0..Cooldown /\ outbox' \in {"none", "down", "up"}
<1>0. 0 \in 0..Cooldown /\ 0 \in NotSince..SustainFor /\ NotSince \in NotSince..SustainFor
  BY AlertAssumption DEF NotSince
<1>1. sustain' \in {sustain, 0, NotSince}
  BY DEF Evaluate, SinceWhen
<1>2. /\ status' \in {status, "fired", "clear"} /\ age' \in {age, 0}
      /\ outbox' \in {outbox, "down", "up"}
  BY DEF Evaluate
<1> QED BY <1>0, <1>1, <1>2 DEF AlertTypeOK

LEMMA AlertTypesNext == AlertTypeOK /\ [AlertNext]_alertVars => AlertTypeOK'
<1> SUFFICES ASSUME AlertTypeOK, [AlertNext]_alertVars PROVE AlertTypeOK'
  OBVIOUS
<1> USE DEF worldVars, stateVars
<1>1. ASSUME sustain' \in NotSince..SustainFor, status' \in {"clear", "fired"},
             age' \in 0..Cooldown, outbox' \in {"none", "down", "up"},
             asking' \in BOOLEAN,
             UNCHANGED <<kind, worldVars, seen, alertUp, failures, alertSent>>
      PROVE  AlertTypeOK'
  BY <1>1 DEF AlertTypeOK
<1>2. ASSUME NEW k, NEW holds, NEW mute, NEW had, NEW lasting,
             Check(k, holds, mute, had, lasting)
      PROVE  AlertTypeOK'
  <2>1. asking' = asking /\ UNCHANGED <<kind, worldVars, seen, alertUp, failures, alertSent>>
    BY <1>2 DEF Check
  <2>2. CASE Evaluate(holds, lasting)
    BY <1>1, <2>1, <2>2, EvaluateTyped DEF AlertTypeOK
  <2>3. CASE UNCHANGED <<stateVars, outbox>>
    BY <1>1, <2>1, <2>3 DEF AlertTypeOK
  <2> QED BY <1>2, <2>2, <2>3 DEF Check
<1>3. CASE AskWg
  BY <1>3 DEF AskWg, AlertTypeOK
<1>4. CASE ServiceDeadWg
  <2>1. asking' = FALSE /\ UNCHANGED <<kind, worldVars, seen, alertUp, failures, alertSent>>
    BY <1>4 DEF ServiceDeadWg
  <2>2. CASE Evaluate(level # "fine", FALSE)
    BY <1>1, <2>1, <2>2, EvaluateTyped DEF AlertTypeOK
  <2>3. CASE UNCHANGED <<stateVars, outbox>>
    BY <1>1, <2>1, <2>3 DEF AlertTypeOK
  <2> QED BY <1>4, <2>2, <2>3 DEF ServiceDeadWg
<1>5. CASE Pass
  BY <1>2, <1>3, <1>4, <1>5
     DEF Pass, CascadeDown, CascadeDegradation, ServiceDeadXray, DiskFull,
     NetworkSaturation,
         CpuOverload, QuotaWarning, CertExpiry, RebootDetected, RebootRequired,
         BackupStale
<1>6. CASE Send
  BY <1>6 DEF Send, AlertTypeOK
<1>7. CASE HealthRun
  <2>1. /\ seen' = level
        /\ UNCHANGED <<kind, worldVars, stateVars, alertUp, asking, outbox>>
        /\ failures' \in {0, failures} \/ (failures < FailLimit /\ failures' = failures + 1)
    BY <1>7 DEF HealthRun
  <2>2. alertSent' \in BOOLEAN
    BY <1>7 DEF HealthRun, AlertTypeOK
  <2>3. failures' \in 0..FailLimit
    BY <2>1, AlertAssumption DEF AlertTypeOK
  <2> QED BY <2>1, <2>2, <2>3 DEF AlertTypeOK
<1>8. CASE WorldChanges
  <2>1. /\ UNCHANGED <<kind, stateVars, seen, alertUp, asking, outbox, failures, alertSent>>
        /\ level' = level \/ level' \in {"fine", "bad", "worst"}
    BY <1>8 DEF WorldChanges
  <2>2. readable' \in BOOLEAN /\ muted' \in BOOLEAN /\ enabled' \in BOOLEAN
    BY <1>8 DEF WorldChanges, AlertTypeOK
  <2> QED BY <2>1, <2>2 DEF AlertTypeOK
<1>9. CASE AlertTick
  <2>1. sustain' \in NotSince..SustainFor /\ age' \in 0..Cooldown
    BY <1>9, AlertAssumption DEF AlertTick, AlertTypeOK, NotSince
  <2> QED BY <1>9, <2>1 DEF AlertTick, AlertTypeOK
<1>10. CASE AlertCrash
  <2>1. NotSince \in NotSince..SustainFor /\ 0 \in 0..FailLimit
    BY AlertAssumption DEF NotSince
  <2> QED BY <1>10, <2>1 DEF AlertCrash, AlertTypeOK
<1>11. CASE AlertStart
  BY <1>11 DEF AlertStart, AlertTypeOK
<1>12. CASE UNCHANGED alertVars
  BY <1>12 DEF alertVars, AlertTypeOK
<1> QED BY <1>5, <1>6, <1>7, <1>8, <1>9, <1>10, <1>11, <1>12 DEF AlertNext

\* Type correctness of the alert and health workers: windows, cooldowns and
\* counters of failures stay within their limits, whatever they are.
THEOREM AlertTypes == AlertSpec => []AlertTypeOK
<1>1. AlertInit => AlertTypeOK
  <2>1. NotSince \in NotSince..SustainFor /\ 0 \in 0..Cooldown /\ 0 \in 0..FailLimit
    BY AlertAssumption DEF NotSince
  <2> QED BY <2>1 DEF AlertInit, AlertTypeOK
<1> QED BY <1>1, AlertTypesNext, PTL DEF AlertSpec

LEMMA RecordTyped ==
  ASSUME UpdatesTypeOK, NEW w \in Lists \cup {Fallback, Nothing}, NEW s, Record(w, s)
  PROVE  /\ context' \in Lists \cup {Fallback, Nothing} /\ ustatus' \in {"clear", "fired"}
         /\ uage' \in 0..UCooldown /\ stage' \in {"idle", "send"}
         /\ outgoing' \in Lists \cup {Fallback, Nothing}
<1>1. 0 \in 0..UCooldown
  BY UpdatesAssumption
<1> QED BY <1>1 DEF Record, UpdatesTypeOK

LEMMA UpdatesTypesNext == UpdatesTypeOK /\ [UpdatesNext]_updatesVars => UpdatesTypeOK'
<1> SUFFICES ASSUME UpdatesTypeOK, [UpdatesNext]_updatesVars PROVE UpdatesTypeOK'
  OBVIOUS
<1> USE DEF rowVars, Outside, At, Ends
<1>1. ASSUME NEW w \in Lists \cup {Fallback, Nothing}, NEW s, Record(w, s),
             UNCHANGED <<pending, switchedOn, updatesUp>>,
             listed' \in {listed, pending}
      PROVE  UpdatesTypeOK'
  BY <1>1, RecordTyped DEF UpdatesTypeOK
<1>2. ASSUME Ends, UNCHANGED <<pending, switchedOn, updatesUp>>,
             listed' \in {listed, pending}
      PROVE  UpdatesTypeOK'
  BY <1>2 DEF UpdatesTypeOK
<1>3. CASE BeginRun \/ ListFails
  BY <1>3 DEF BeginRun, ListFails, UpdatesTypeOK
<1>4. CASE FallbackRun
  BY <1>1, <1>2, <1>4 DEF FallbackRun
<1>5. CASE ListDone
  <2>0. UNCHANGED <<pending, switchedOn, updatesUp>> /\ listed' = pending
    BY <1>5 DEF ListDone
  <2>1. CASE ustatus' = "clear" /\ stage' = "idle" /\ UNCHANGED <<context, uage, outgoing>>
    BY <2>0, <2>1 DEF UpdatesTypeOK
  <2>2. CASE Unchanged
    <3>1. context \in Lists \cup {Fallback, Nothing}
      BY DEF UpdatesTypeOK
    <3> QED BY <1>1, <1>2, <2>0, <2>2, <3>1 DEF Unchanged
  <2>3. CASE stage' = "changelogs" /\ UNCHANGED <<rowVars, outgoing>>
    BY <2>0, <2>3 DEF UpdatesTypeOK
  <2> QED BY <1>5, <2>1, <2>2, <2>3 DEF ListDone
<1>6. CASE Formatted
  <2>1. listed \in Lists \cup {Fallback, Nothing}
    BY DEF UpdatesTypeOK
  <2> QED BY <1>1, <1>6, <2>1 DEF Formatted
<1>7. CASE USend
  BY <1>7 DEF USend, UpdatesTypeOK
<1>8. CASE UTick
  <2>1. uage' \in 0..UCooldown
    BY <1>8, UpdatesAssumption DEF UTick, UpdatesTypeOK
  <2> QED BY <1>8, <2>1 DEF UTick, UpdatesTypeOK
<1>9. CASE AptChanges
  <2>1. switchedOn' \in BOOLEAN /\ pending' \in Lists \cup {Nothing}
    BY <1>9 DEF AptChanges, UpdatesTypeOK
  <2> QED BY <1>9, <2>1 DEF AptChanges, UpdatesTypeOK
<1>10. CASE URestart
  <2>1. updatesUp' \in BOOLEAN
    BY <1>10 DEF URestart
  <2> QED BY <1>10, <2>1 DEF URestart, UpdatesTypeOK
<1>11. CASE UNCHANGED updatesVars
  BY <1>11 DEF updatesVars, UpdatesTypeOK
<1> QED
  BY <1>3, <1>4, <1>5, <1>6, <1>7, <1>8, <1>9, <1>10, <1>11 DEF UpdatesNext, Run

\* Type correctness of the updates worker, for any lists and cooldown.
THEOREM UpdatesTypes == UpdatesSpec => []UpdatesTypeOK
<1>1. UpdatesInit => UpdatesTypeOK
  BY UpdatesAssumption DEF UpdatesInit, UpdatesTypeOK
<1> QED BY <1>1, UpdatesTypesNext, PTL DEF UpdatesSpec

-----------------------------------------------------------------------------
(* The parts together.                                                     *)

\* Under the schedule alone no restore was ever begun.
NoRestore ==
  focus = "schedule" =>
    /\ staged = 0 /\ dirs = {} /\ restore = Idle /\ backstop = FALSE /\ teardown = "no"
    /\ file = "live" /\ wal = "holds" /\ marker = FALSE

LEMMA NoRestoreInit == ServicesInit => NoRestore
BY DEF ServicesInit, RestoreInit, NoRestore

LEMMA NoRestoreNext == NoRestore /\ [ServicesNext]_servicesVars => NoRestore'
<1> SUFFICES ASSUME NoRestore, [ServicesNext]_servicesVars PROVE NoRestore'
  OBVIOUS
<1>1. ASSUME UNCHANGED <<focus, restoreVars>> PROVE NoRestore'
  BY <1>1 DEF NoRestore, restoreVars, diskVars, stagingVars
<1>2. ASSUME NEW p \in Parts \ {"restore"}, In(p) PROVE NoRestore'
  BY <1>1, <1>2 DEF In
<1>3. CASE In("restore")
  BY <1>3 DEF In, NoRestore
<1>4. CASE UNCHANGED servicesVars
  BY <1>1, <1>4 DEF servicesVars
<1> QED BY <1>2, <1>3, <1>4 DEF ServicesNext, Parts

\* What a step of the schedule does is a step of backups and restores, of
\* which there are none.
LEMMA ScheduleStep ==
  ASSUME NoRestore, focus = "schedule", BackupNext, UNCHANGED restoreVars
  PROVE  RestoreNext
<1> USE DEF restoreVars, diskVars, stagingVars
<1>0. /\ staged = 0 /\ dirs = {} /\ restore = Idle /\ backstop = FALSE /\ teardown = "no"
      /\ file = "live" /\ wal = "holds" /\ marker = FALSE
  BY DEF NoRestore
<1>1. CASE BackupCrash
  <2>1. RestoreGone
    BY <1>0, <1>1 DEF BackupCrash, RestoreGone
  <2>2. up /\ UNCHANGED <<config, openRows, lastDone, dirs, file, wal, marker>>
    BY <1>1 DEF BackupCrash
  <2> QED BY <2>1, <2>2 DEF RestoreNext, RestoreCrash, Dies
<1>2. CASE BackupStart
  BY <1>0, <1>2 DEF RestoreStart, RestoreNext
<1>3. CASE \/ \E p \in Callers : RunStep(p)
           \/ TimerFires \/ CatchUpFires \/ BackupNow \/ SetConfig \/ Tick
  <2>1. restore.at = "idle"
    BY <1>0 DEF Idle
  <2> QED BY <1>0, <1>3, <2>1 DEF BackupGoesOn, RestoreNext
<1> QED BY <1>1, <1>2, <1>3 DEF BackupNext

LEMMA RestoreStep ==
  NoRestore /\ [ServicesNext]_servicesVars => [RestoreNext]_<<backupVars, restoreVars>>
<1> SUFFICES ASSUME NoRestore, [ServicesNext]_servicesVars
             PROVE  RestoreNext \/ UNCHANGED <<backupVars, restoreVars>>
  OBVIOUS
<1>1. ASSUME NEW p \in Parts \ {"schedule", "restore"}, In(p)
      PROVE  UNCHANGED <<backupVars, restoreVars>>
  BY <1>1 DEF In
<1>2. CASE In("schedule") /\ BackupNext
  BY <1>2, ScheduleStep DEF In
<1>3. CASE In("restore") /\ RestoreNext
  BY <1>3
<1>4. CASE UNCHANGED servicesVars
  BY <1>4 DEF servicesVars
<1> QED BY <1>1, <1>2, <1>3, <1>4 DEF ServicesNext, Parts

\* A step of the parts is one of each of them, or leaves it alone.
LEMMA OtherSteps ==
  [ServicesNext]_servicesVars =>
    /\ [SshNext]_sshVars /\ [CacheNext]_cacheVars /\ [AlertNext]_alertVars
    /\ [UpdatesNext]_updatesVars /\ [TrafficNext]_trafficVars /\ [SubNext]_subVars
    /\ [DialogueNext]_dialogueVars /\ [MigrationsNext]_migrationVars /\ [AppNext]_appVars
<1> SUFFICES ASSUME [ServicesNext]_servicesVars
    PROVE /\ SshNext \/ UNCHANGED sshVars
          /\ CacheNext \/ UNCHANGED cacheVars
          /\ AlertNext \/ UNCHANGED alertVars
          /\ UpdatesNext \/ UNCHANGED updatesVars
          /\ TrafficNext \/ UNCHANGED trafficVars
          /\ SubNext \/ UNCHANGED subVars
          /\ DialogueNext \/ UNCHANGED dialogueVars
          /\ MigrationsNext \/ UNCHANGED migrationVars
          /\ AppNext \/ UNCHANGED appVars
  OBVIOUS
<1>1. CASE UNCHANGED servicesVars
  BY <1>1 DEF servicesVars
<1>2. CASE ServicesNext
  BY <1>2 DEF ServicesNext, In
<1> QED BY <1>1, <1>2

\* The run's specification implies each part's own, so that what is proved of
\* a part holds in the run.
THEOREM EachOnItsOwn ==
  FairSpec => /\ RestoreSpec /\ SshSpec /\ CacheSpec /\ AlertSpec /\ UpdatesSpec
              /\ TrafficSpec /\ SubSpec /\ DialogueSpec /\ MigrationsSpec /\ AppSpec
<1>1. ServicesInit => /\ RestoreInit /\ SshInit /\ CacheInit /\ AlertInit /\ UpdatesInit
                      /\ TrafficInit /\ SubInit /\ DialogueInit /\ MigrationsInit /\ AppInit
  BY DEF ServicesInit
<1> QED
  BY <1>1, NoRestoreInit, NoRestoreNext, RestoreStep, OtherSteps, PTL
     DEF FairSpec, RestoreSpec, SshSpec, CacheSpec, AlertSpec, UpdatesSpec,
         TrafficSpec, SubSpec, DialogueSpec, MigrationsSpec, AppSpec

\* Type correctness of all the parts of the server that share no state.
THEOREM ServicesTypes == FairSpec => []ServicesTypeOK
<1>1. /\ BackupTypeOK /\ RestoreTypeOK /\ SshTypeOK /\ CacheTypeOK /\ AlertTypeOK
      /\ UpdatesTypeOK /\ TrafficTypeOK /\ SubTypeOK /\ DialogueTypeOK /\ MigrationsTypeOK
      /\ AppTypeOK
      => ServicesTypeOK
  BY DEF ServicesTypeOK
<1> QED
  BY <1>1, EachOnItsOwn, RestoreTypes, SshTypes, CacheTypes, AlertTypes, UpdatesTypes,
     TrafficTypes, SubTypes, DialogueTypes, MigrationsTypes, AppTypes, PTL

\* In the run itself, whatever its constants, the safety properties of the parts
\* hold: bundles, restores, answers, sums, links, clients, schema and screen.
THEOREM PartsAreSafe ==
  FairSpec => [](/\ NewestKept /\ RestoreAllOrNothing /\ NoStaleAnswer /\ CountedOnce
                 /\ LinkInHand /\ ClientAsTapped /\ Upgraded /\ ScreenCatchesUp)
BY EachOnItsOwn, RotationKeepsNewest, RestoreIsAtomic, AnswersFresh, CountsOnce,
   LinkStaysInHand, MadeAsTapped, SchemaUpgraded, ScreenRight, PTL

\* ... and the timer stands where the schedule in force wants it, for schedules
\* that setTimeout can hold.
THEOREM TimerArmedInRun == ASSUME TimersFit PROVE FairSpec => []ArmedForConfig
BY EachOnItsOwn, TimerArmed, PTL
=============================================================================
