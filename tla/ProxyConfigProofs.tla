-------------------------- MODULE ProxyConfigProofs --------------------------
(* What holds of the local proxies' configuration for every set of clients *)
(* and handlers, every poll window, every setting and every crash.         *)
EXTENDS ProxyConfig, TLAPS

(* Every reachable state of the bot, the file and systemd is well formed.  *)
THEOREM ProxyTypes == Spec => []TypeOK
<1> USE ProxyAssumption
<1>1. Init => TypeOK
  <2>1. 0 \in 0..MaxPolls
    OBVIOUS
  <2>2. Init => row \in [Clients -> {"none", "active", "suspended"}]
                /\ polls \in [Handlers -> 0..MaxPolls]
    BY <2>1 DEF Init
  <2> QED
    BY <2>2 DEF Init, TypeOK
<1>2. TypeOK /\ [Next]_vars => TypeOK'
  <2> SUFFICES ASSUME TypeOK, [Next]_vars PROVE TypeOK'
    OBVIOUS
  <2> USE DEF TypeOK
  <2>0. \A r : Active(r) \in SUBSET Clients
    BY DEF Active
  <2>1. ASSUME NEW p \in Handlers, Poll(p) PROVE TypeOK'
    BY <2>1 DEF Poll, Idle
  <2>2. ASSUME NEW c \in Clients, NEW r \in Changed(c)
        PROVE r \in [Clients -> {"none", "active", "suspended"}]
    BY <2>2 DEF Changed
  <2>3. ASSUME NEW p \in Handlers, NEW c \in Clients, Mutate(p, c)
        PROVE TypeOK'
    BY <2>3, <2>0, <2>2 DEF Mutate, Sync
  <2>4. ASSUME NEW p \in Handlers, NEW c \in Clients, SyncThrows(p, c)
        PROVE TypeOK'
    BY <2>4, <2>2 DEF SyncThrows
  <2>5. ASSUME NEW c \in Clients, CrashInTurn(c) PROVE TypeOK'
    BY <2>5, <2>0, <2>2 DEF CrashInTurn, Die
  <2>6. CASE Crash
    BY <2>6 DEF Crash, Die
  <2>7. CASE Start
    BY <2>7, <2>0 DEF Start, Sync
  <2>8. CASE Unit
    BY <2>8 DEF Unit, UnitStart, UnitRestart, UnitEnd
  <2>9. CASE UNCHANGED vars
    BY <2>9 DEF vars
  <2> QED
    BY <2>1, <2>3, <2>4, <2>5, <2>6, <2>7, <2>8, <2>9 DEF Next
<1> QED
  BY <1>1, <1>2, PTL DEF Spec

(* As long as the file can be written, the bot that serves has it agree    *)
(* with the rows, however many handlers run and wherever the bot died.     *)
THEOREM FileFollows == Spec => []FileFollowsRows
<1>1. Init => FileFollowsRows
  BY DEF Init, FileFollowsRows
<1>2. FileFollowsRows /\ [Next]_vars => FileFollowsRows'
  <2> SUFFICES ASSUME FileFollowsRows, [Next]_vars PROVE FileFollowsRows'
    OBVIOUS
  <2> USE DEF FileFollowsRows, Active, Faults
  <2>1. ASSUME NEW p \in Handlers, Poll(p) PROVE FileFollowsRows'
    BY <2>1 DEF Poll
  <2>2. ASSUME NEW p \in Handlers, NEW c \in Clients, Mutate(p, c)
        PROVE FileFollowsRows'
    BY <2>2 DEF Mutate, Sync
  <2>3. ASSUME NEW p \in Handlers, NEW c \in Clients, SyncThrows(p, c)
        PROVE FileFollowsRows'
    BY <2>3 DEF SyncThrows
  <2>4. ASSUME NEW c \in Clients, CrashInTurn(c) PROVE FileFollowsRows'
    BY <2>4 DEF CrashInTurn, Die
  <2>5. CASE Crash
    BY <2>5 DEF Crash, Die
  <2>6. CASE Start
    BY <2>6 DEF Start, Sync
  <2>7. CASE Unit
    BY <2>7 DEF Unit, UnitStart, UnitRestart, UnitEnd
  <2>8. CASE UNCHANGED vars
    BY <2>8 DEF vars
  <2> QED
    BY <2>1, <2>2, <2>3, <2>4, <2>5, <2>6, <2>7, <2>8 DEF Next
<1> QED
  BY <1>1, <1>2, PTL DEF Spec

(* Where mutations take turns and systemd is within the poll window, no    *)
(* restart is ever lost: the proxy that runs is current or about to be.    *)
THEOREM NoLostRestart == Spec => []RestartPendingInTurn
<1> USE ProxyAssumption
<1> DEFINE I == InTurn => Confirming /\ RestartPending
<1>1. Init => I
  BY DEF Init, Confirming, RestartPending
<1>2. TypeOK /\ I /\ [Next]_vars => I'
  <2>0. [Next]_vars => setting' = setting
    <3>1. \A p \in Handlers :
            /\ Poll(p) => setting' = setting
            /\ \A c \in Clients :
                 Mutate(p, c) \/ SyncThrows(p, c) => setting' = setting
      BY DEF Poll, Mutate, SyncThrows
    <3>2. \A c \in Clients : CrashInTurn(c) => setting' = setting
      BY DEF CrashInTurn
    <3>3. Crash \/ Start \/ Unit => setting' = setting
      BY DEF Crash, Start, Unit, UnitStart, UnitRestart, UnitEnd
    <3> QED
      BY <3>1, <3>2, <3>3 DEF Next, vars
  <2> SUFFICES ASSUME TypeOK, InTurn, Confirming, RestartPending, [Next]_vars
               PROVE  Confirming' /\ RestartPending'
    BY <2>0 DEF InTurn, Slow
  <2> DEFINE J == Confirming /\ RestartPending
  <2> USE DEF TypeOK, Confirming, RestartPending, InTurn
  <2>1. ASSUME NEW p \in Handlers, Poll(p) PROVE J'
    <3>1. polls[Boot] \in 0..MaxPolls /\ polls[p] \in 0..MaxPolls
      OBVIOUS
    <3>2. p = Boot /\ trigger => polls[Boot] # 1
      BY <2>1, <3>1 DEF Poll
    <3>3. CASE p = Boot
      BY <2>1, <3>1, <3>2, <3>3 DEF Poll, Idle
    <3>4. CASE p # Boot
      BY <2>1, <3>1, <3>4 DEF Poll
    <3> QED
      BY <3>3, <3>4
  <2>2. ASSUME NEW p \in Handlers, NEW c \in Clients, Mutate(p, c) PROVE J'
    <3>1. p = Boot /\ polls' = [polls EXCEPT ![Boot] = MaxPolls] /\ trigger'
      BY <2>2 DEF Mutate, Sync
    <3>2. polls'[Boot] > 0
      BY <3>1
    <3>3. unit = "idle" /\ unit' = unit
      BY <2>2, <3>1 DEF Mutate, Sync, Idle
    <3> QED
      BY <3>1, <3>2, <3>3
  <2>3. ASSUME NEW p \in Handlers, NEW c \in Clients, SyncThrows(p, c) PROVE J'
    BY <2>3 DEF SyncThrows
  <2>4. ASSUME NEW c \in Clients, CrashInTurn(c) PROVE J'
    BY <2>4 DEF CrashInTurn, Die
  <2>5. CASE Crash
    BY <2>5 DEF Crash, Die
  <2>6. CASE Start
    BY <2>6 DEF Start, Sync
  <2>7. CASE UnitStart
    BY <2>7 DEF UnitStart
  <2>8. CASE UnitRestart
    BY <2>8 DEF UnitRestart
  <2>9. CASE UnitEnd
    BY <2>9 DEF UnitEnd
  <2>10. CASE UNCHANGED vars
    BY <2>10 DEF vars
  <2>11. CASE Unit
    BY <2>7, <2>8, <2>9, <2>11 DEF Unit
  <2> QED
    BY <2>1, <2>2, <2>3, <2>4, <2>5, <2>6, <2>10, <2>11 DEF Next
<1>3. I => RestartPendingInTurn
  BY DEF RestartPendingInTurn
<1> QED
  BY <1>1, <1>2, <1>3, ProxyTypes, PTL DEF Spec
=============================================================================
