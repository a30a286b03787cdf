---------------------------- MODULE CascadeProofs ----------------------------
(***************************************************************************)
(* Theorems about Cascade, which rest on those about WgPeers: every step   *)
(* of Cascade is one of WgPeers, leaves its state alone, or begins the     *)
(* change of a transport.                                                  *)
(***************************************************************************)
EXTENDS Cascade, WgPeersProofs

LEMMA StepsOfPeers ==
  ASSUME [CNext]_cvars
  PROVE  \/ [Next]_vars
         \/ \E p \in Handlers, c \in Clients, t \in {"xray", "hy2"} : SetTransport(p, c, t)
<1>1. ASSUME NEW p \in Handlers, PeerStep(p) \/ PeerFail(p) PROVE Next
  BY <1>1 DEF PeerStep, PeerFail, Next, Arrive, Advance
<1>2. ASSUME NEW p \in Handlers, NEW c \in Clients, NEW t \in {"xray", "hy2"},
             Create(p, c, t)
      PROVE  Next
  BY <1>2 DEF Create, Next, Arrive
<1>3. ASSUME NEW p \in Handlers, UplinkDone(p) PROVE Next
  BY <1>3 DEF Next, Advance
<1>4. ASSUME NEW p \in Handlers,
             RouteRead(p) \/ RoutePlan(p) \/ RouteWrite(p) \/ RouteRestart(p)
      PROVE  UNCHANGED vars
  BY <1>4 DEF RouteRead, RoutePlan, RouteWrite, RouteRestart
<1>5. ASSUME NEW p \in Handlers,
             RouteSame(p) \/ RouteDone(p) \/ RouteFail(p) \/ RestartFail(p)
      PROVE  UplinkDone(p)
  BY <1>5 DEF RouteSame, RouteDone, RouteFail, RestartFail, Leave
<1>6. CASE CCrash
  BY <1>6 DEF CCrash, Next
<1>7. ASSUME NEW o \in Octets, Expire(o) PROVE Next
  BY <1>7 DEF Next
<1>8. CASE UNCHANGED cvars
  BY <1>8 DEF cvars
<1> QED BY <1>1, <1>2, <1>3, <1>4, <1>5, <1>6, <1>7, <1>8 DEF CNext

LEMMA LeasesStay == IInv /\ [CNext]_cvars => IInv'
<1> SUFFICES ASSUME IInv, [CNext]_cvars PROVE IInv'
  OBVIOUS
<1>1. CASE [Next]_vars
  BY <1>1, BaseNext, LeasesNext, IInvSplit DEF IInv, Base, Leases
<1>2. ASSUME NEW p \in Handlers, NEW c \in Clients, NEW t \in {"xray", "hy2"},
             SetTransport(p, c, t)
      PROVE  IInv'
  BY <1>2, WgAssumption
     DEF SetTransport, Begin, IInv, TypeOK, MutexHeld, OwnTarget, UsedCovers,
     HeldIsFree,
         OctetsFinal, SnapshotUnique, UniqueIps, ConfIpsUnique, InDb, Creating,
         Allocating,
         Holding, Settled, SshWait, Ops, serverA, alloc, local
<1> QED BY <1>1, <1>2, StepsOfPeers

LEMMA CLeases == CSpec => []IInv
<1>1. CInit => IInv
  BY BaseInit, LeasesInit, IInvSplit DEF CInit
<1> QED BY <1>1, LeasesStay, PTL DEF CSpec

(* Routing syncs and transport choices, overlapping creates and deletes or *)
(* failing anywhere, change nothing about the addresses.                   *)
THEOREM CascadeAddresses == CSpec => []NoSharedIp
<1>1. IInv => NoSharedIp
  BY DEF IInv, NoSharedIp
<1> QED BY <1>1, CLeases, PTL

-----------------------------------------------------------------------------
\* What CTypeOK adds to TypeOK.
RoutingTypes ==
  /\ via \in [Clients -> {"xray", "hy2"}]
  /\ rules \in SUBSET Octets
  /\ loaded \in SUBSET Octets
  /\ up \in BOOLEAN
  /\ at \in [Handlers -> {"read", "query", "write", "restart", "done"}]
  /\ seen \in [Handlers -> SUBSET Octets]
  /\ plan \in [Handlers -> SUBSET Octets]
  /\ clean \in BOOLEAN

LEMMA WantIn == OctetsFinal => Want \subseteq Octets
BY DEF OctetsFinal, Want

LEMMA RoutingTypesNext == IInv /\ RoutingTypes /\ [CNext]_cvars => RoutingTypes'
<1> SUFFICES ASSUME IInv, RoutingTypes, [CNext]_cvars PROVE RoutingTypes'
  OBVIOUS
<1> USE CascadeAssumption DEF RoutingTypes, routing, sync, vars
<1>1. ASSUME NEW p \in Handlers, NEW c \in Clients, NEW t \in {"xray", "hy2"},
             Create(p, c, t) \/ SetTransport(p, c, t)
      PROVE  RoutingTypes'
  BY <1>1 DEF Create, SetTransport
<1>2. ASSUME NEW p \in Handlers, PeerStep(p) \/ PeerFail(p) PROVE RoutingTypes'
  BY <1>2 DEF PeerStep, PeerFail
<1>3. ASSUME NEW p \in Handlers, RouteRead(p) PROVE RoutingTypes'
  BY <1>3 DEF RouteRead
<1>4. ASSUME NEW p \in Handlers, RoutePlan(p) PROVE RoutingTypes'
  BY <1>4, WantIn DEF RoutePlan, IInv
<1>5. ASSUME NEW p \in Handlers, RouteWrite(p) PROVE RoutingTypes'
  BY <1>5 DEF RouteWrite
<1>6. ASSUME NEW p \in Handlers, RouteRestart(p) PROVE RoutingTypes'
  BY <1>6 DEF RouteRestart
<1>7. ASSUME NEW p \in Handlers, RouteSame(p) \/ RouteDone(p) PROVE RoutingTypes'
  BY <1>7 DEF RouteSame, RouteDone, Leave
<1>8. ASSUME NEW p \in Handlers, RouteFail(p) \/ RestartFail(p) PROVE RoutingTypes'
  BY <1>8 DEF RouteFail, RestartFail, Leave
<1>9. CASE CCrash
  BY <1>9 DEF CCrash
<1>10. CASE UNCHANGED <<via, routing, sync, clean>>
  BY <1>10
<1> QED
  BY <1>1, <1>2, <1>3, <1>4, <1>5, <1>6, <1>7, <1>8, <1>9, <1>10 DEF CNext, cvars

\* Type correctness of the composed module, whatever overlaps and fails.
THEOREM CascadeTypes == CSpec => []CTypeOK
<1>1. CInit => RoutingTypes
  BY DEF CInit, RoutingTypes
<1>2. IInv /\ RoutingTypes => CTypeOK
  BY DEF IInv, RoutingTypes, CTypeOK
<1> QED BY <1>1, <1>2, CLeases, RoutingTypesNext, PTL DEF CSpec

-----------------------------------------------------------------------------
\* Where a handler is agrees with what it does; one that moves a live peer
\* before its row has a row.
OpFits ==
  \A p \in Handlers :
    /\ pc[p] = "idle" => op[p] = "none"
    /\ Creating(p) => op[p] = "create"
    /\ pc[p] \in {"live", "db"} => op[p] \in {"suspend", "resume", "delete"} /\ tgt[p] \in InDb
    /\ pc[p] \in {"snap", "write", "reload", "drop", "blind"} =>
         op[p] \in {"create", "delete", "sync"}
    /\ pc[p] = "uplink" => op[p] \in {"none", "create", "delete"}
    /\ at[p] # "read" => pc[p] = "uplink"

Active == {c \in Clients : row[c] = "active"}

Suspended == {c \in Clients : row[c] = "suspended"}

\* The live peers are those of S, each at its own address.
Serves(S) ==
  \A o \in Octets, c \in Clients : route[o] = c <=> c \in S /\ ip[c] = o

\* What a sync of the peers has brought about after each of its commands,
\* and a create and a resume after theirs.
PeersOf(p) ==
  /\ pc[p] = "write" => desired[p] = InDb /\ drop[p] = Suspended
  /\ pc[p] = "reload" => conf = InDb /\ drop[p] = Suspended
  /\ pc[p] = "drop" =>
       conf = InDb /\ drop[p] \subseteq Suspended /\ Serves(Active \cup drop[p])
  /\ pc[p] = "blind" =>
       /\ conf = InDb /\ drop[p] \subseteq Suspended
       /\ \A c \in Suspended \ drop[p], o \in Octets : route[o] # c
  /\ pc[p] = "pub" \/ (pc[p] = "db" /\ op[p] = "resume") =>
       route[ip[tgt[p]]] = tgt[p]

PeersInv == (\A p \in Handlers : PeersOf(p)) /\ NoStolenIp

\* Handler q runs nothing but a routing sync, if anything.
Quiet(q) == pc[q] = "idle" \/ (pc[q] = "uplink" /\ op[q] = "none")

\* Handler p will still bring the routing up to date.
Owes(p) ==
  \/ op[p] \in {"create", "delete"} /\ pc[p] \in {"snap", "write", "reload", "drop", "blind"}
  \/ pc[p] = "uplink" /\ at[p] \in {"read", "query", "write"}

\* While nothing failed, the file differs from the rows only while somebody
\* owes a sync, and XRay from the file only before its restart.
RoutesInv ==
  clean =>
    /\ up
    /\ (\A p \in Handlers : ~ Routing(p, "restart")) => loaded = rules
    /\ (\A p \in Handlers : ~ Owes(p)) => rules = Want
    /\ \A p \in Handlers :
         /\ Routing(p, "query") => seen[p] = rules
         /\ Routing(p, "write") => plan[p] = Want

\* What the steps of WgPeers leave alone.
RoutingStays == UNCHANGED <<via, routing, sync>> /\ (clean' => clean)

Turns == IInv /\ RoutingTypes /\ Orderly /\ OpFits /\ PeersInv /\ RoutesInv

LEMMA OthersIdle ==
  ASSUME IInv, OpFits, Orderly, NEW p \in Handlers, pc[p] # "idle",
         op[p] \notin {"none", "sync"}
  PROVE  \A q \in Handlers : q # p => pc[q] = "idle"
BY DEF Orderly

LEMMA OthersQuiet ==
  ASSUME IInv, OpFits, Orderly, NEW p \in Handlers, pc[p] # "idle", op[p] # "none"
  PROVE  \A q \in Handlers : q # p => Quiet(q)
<1> SUFFICES ASSUME NEW q \in Handlers, q # p,
    pc[q] # "idle" PROVE pc[q] = "uplink" /\ op[q] = "none"
  BY DEF Quiet
<1>1. {op[p], op[q]} = {"none", "sync"}
  BY DEF Orderly
<1>2. op[q] = "none"
  BY <1>1
<1> QED BY <1>2 DEF OpFits, IInv, TypeOK, Creating, SshWait

\* A peer table that was loaded from the file serves the clients in it.
LEMMA LoadedServes ==
  ASSUME IInv, conf = InDb, route' = FromConf
  PROVE  /\ \A o \in Octets, c \in Clients : route'[o] = c <=> c \in InDb /\ ip[c] = o
         /\ \A c \in InDb : route'[ip[c]] = c
<1> USE WgAssumption DEF IInv, TypeOK, UniqueIps
<1>0. \A c \in InDb : c \in Clients /\ ip[c] \in Octets
  BY DEF OctetsFinal, InDb
<1> SUFFICES ASSUME NEW o \in Octets, NEW c \in Clients
             PROVE  route'[o] = c <=> c \in InDb /\ ip[c] = o
  BY <1>0
<1>1. CASE \E d \in conf : ip[d] = o
  <2>1. route'[o] = CHOOSE d \in conf : ip[d] = o
    BY <1>1 DEF FromConf
  <2>2. route'[o] \in conf /\ ip[route'[o]] = o
    BY <1>1, <2>1
  <2> QED BY <2>2
<1>2. CASE ~ \E d \in conf : ip[d] = o
  BY <1>2 DEF FromConf
<1> QED BY <1>1, <1>2

LEMMA OpFitsNext ==
  ASSUME IInv, OpFits, RoutingTypes, Orderly, Orderly', [CNext]_cvars
  PROVE  OpFits'
<1> USE WgAssumption DEF OpFits, IInv, TypeOK, OwnTarget, Orderly, RoutingTypes,
        InDb, Creating, Goto, Begin, Finish, SshWait, Ops, Routing, serverA, alloc,
        local, vars, sync
<1>1. ASSUME NEW p \in Handlers, NEW c \in Clients, NEW t \in {"xray", "hy2"},
             Create(p, c, t)
      PROVE  OpFits'
  BY <1>1 DEF Create, StartCreate
<1>2. ASSUME NEW p \in Handlers, NEW c \in Clients, NEW t \in {"xray", "hy2"},
             SetTransport(p, c, t)
      PROVE  OpFits'
  BY <1>2 DEF SetTransport
<1>3. ASSUME NEW p \in Handlers, NEW c \in Clients,
             NEW o \in {"suspend", "resume", "delete"}, StartOnRow(p, c, o),
             RoutingStays
      PROVE  OpFits'
  BY <1>3 DEF StartOnRow, RoutingStays
<1>4. ASSUME NEW p \in Handlers, NEW c \in Clients, StartRename(p, c), RoutingStays
      PROVE  OpFits'
  BY <1>4 DEF StartRename, RoutingStays
<1>5. ASSUME NEW p \in Handlers, NEW c \in Clients, SyncDrop(p, c), RoutingStays
      PROVE  OpFits'
  BY <1>5 DEF SyncDrop, Reloaded, Without, RoutingStays
<1>6. ASSUME NEW p \in Handlers, ReadUsed(p), RoutingStays
      PROVE  OpFits'
  BY <1>6 DEF ReadUsed, RoutingStays
<1>7. ASSUME NEW p \in Handlers, NEW S \in Avoided(p), PickIp(p, S), RoutingStays
      PROVE  OpFits'
  BY <1>7 DEF PickIp, RoutingStays
<1>8. ASSUME NEW p \in Handlers, NoFreeIp(p), RoutingStays
      PROVE  OpFits'
  BY <1>8 DEF NoFreeIp, RoutingStays
<1>9. ASSUME NEW p \in Handlers, AddPeer(p), RoutingStays
      PROVE  OpFits'
  BY <1>9 DEF AddPeer, RoutingStays
<1>10. ASSUME NEW p \in Handlers, Insert(p), RoutingStays
      PROVE  OpFits'
  BY <1>10 DEF Insert, RoutingStays
<1>11. ASSUME NEW p \in Handlers, RemovePeer(p), RoutingStays
      PROVE  OpFits'
  BY <1>11 DEF RemovePeer, Without, RoutingStays
<1>12. ASSUME NEW p \in Handlers, RestorePeer(p), RoutingStays
      PROVE  OpFits'
  BY <1>12 DEF RestorePeer, RoutingStays
<1>13. ASSUME NEW p \in Handlers, SuspendRow(p), RoutingStays
      PROVE  OpFits'
  BY <1>13 DEF SuspendRow, SetRow, RoutingStays
<1>14. ASSUME NEW p \in Handlers, ResumeRow(p), RoutingStays
      PROVE  OpFits'
  BY <1>14 DEF ResumeRow, SetRow, RoutingStays
<1>15. ASSUME NEW p \in Handlers, DeleteRow(p), RoutingStays
      PROVE  OpFits'
  <2>1. /\ pc' = [pc EXCEPT ![p] = "snap"] /\ UNCHANGED <<op, tgt, at>>
        /\ op[p] = "delete" /\ pc[p] = "db"
    BY <1>15 DEF DeleteRow, RoutingStays
  <2>2. \A q \in Handlers : q # p => pc[q] = "idle"
    BY OthersIdle, <2>1
  <2> QED BY <2>1, <2>2
<1>16. ASSUME NEW p \in Handlers, SyncRead(p), RoutingStays
      PROVE  OpFits'
  BY <1>16 DEF SyncRead, RoutingStays
<1>17. ASSUME NEW p \in Handlers, SyncWrite(p), RoutingStays
      PROVE  OpFits'
  BY <1>17 DEF SyncWrite, RoutingStays
<1>18. ASSUME NEW p \in Handlers, SyncReload(p), RoutingStays
      PROVE  OpFits'
  BY <1>18 DEF SyncReload, RoutingStays
<1>19. ASSUME NEW p \in Handlers, SyncDone(p), RoutingStays
      PROVE  OpFits'
  BY <1>19 DEF SyncDone, Reloaded, RoutingStays
<1>20. ASSUME NEW p \in Handlers, InsertConflict(p), RoutingStays
      PROVE  OpFits'
  BY <1>20 DEF InsertConflict, RoutingStays
<1>21. ASSUME NEW p \in Handlers, PeerFail(p)
      PROVE  OpFits'
  BY <1>21 DEF PeerFail, SshFail
<1>22. ASSUME NEW p \in Handlers, RouteRead(p)
      PROVE  OpFits'
  BY <1>22 DEF RouteRead
<1>23. ASSUME NEW p \in Handlers, RoutePlan(p)
      PROVE  OpFits'
  BY <1>23 DEF RoutePlan
<1>24. ASSUME NEW p \in Handlers, RouteWrite(p)
      PROVE  OpFits'
  BY <1>24 DEF RouteWrite
<1>25. ASSUME NEW p \in Handlers, RouteRestart(p)
      PROVE  OpFits'
  BY <1>25 DEF RouteRestart
<1>26. ASSUME NEW p \in Handlers,
              RouteSame(p) \/ RouteDone(p) \/ RouteFail(p) \/ RestartFail(p)
      PROVE  OpFits'
  BY <1>26 DEF RouteSame, RouteDone, RouteFail, RestartFail, Leave, UplinkDone
<1>27. ASSUME NEW o \in Octets, Expire(o), RoutingStays
      PROVE  OpFits'
  BY <1>27 DEF Expire, RoutingStays
<1>28. CASE CCrash
  BY <1>28 DEF CCrash, Crash, StartupPc
<1>29. CASE UNCHANGED cvars
  BY <1>29 DEF cvars, vars
<1>30. ASSUME NEW p \in Handlers, SyncReloadFails(p), RoutingStays
      PROVE  OpFits'
  BY <1>30 DEF SyncReloadFails, RoutingStays
<1> HIDE DEF OpFits, IInv, TypeOK, OwnTarget, Orderly, RoutingTypes, InDb, Creating,
             Goto, Begin, Finish, SshWait, Ops, Routing
<1> QED BY <1>1, <1>2, <1>3, <1>4, <1>5, <1>6, <1>7, <1>8, <1>9, <1>10, <1>11, <1>12,
           <1>13, <1>14, <1>15, <1>16, <1>17, <1>18, <1>19, <1>20, <1>21, <1>22,
           <1>23, <1>24, <1>25, <1>26, <1>27, <1>28, <1>29, <1>30 DEF CNext, PeerStep,
           FindFreeIp, RoutingStays


LEMMA PeersNext ==
  ASSUME IInv, OpFits, PeersInv, Orderly, Orderly', [CNext]_cvars
  PROVE  PeersInv'
<1> USE WgAssumption DEF OpFits, PeersInv, PeersOf, NoStolenIp, Active, Suspended,
        Serves, IInv, TypeOK, OwnTarget, HeldIsFree, UniqueIps, OctetsFinal, Orderly,
        InDb, Creating, Holding, Goto, Begin, Finish, SshWait, Ops, Routing, serverA,
        alloc, local, vars, sync
<1>1. ASSUME NEW p \in Handlers, NEW c \in Clients, NEW t \in {"xray", "hy2"},
             Create(p, c, t)
      PROVE  PeersInv'
  BY <1>1 DEF Create, StartCreate
<1>2. ASSUME NEW p \in Handlers, NEW c \in Clients, NEW t \in {"xray", "hy2"},
             SetTransport(p, c, t)
      PROVE  PeersInv'
  BY <1>2 DEF SetTransport
<1>3. ASSUME NEW p \in Handlers, NEW c \in Clients,
             NEW o \in {"suspend", "resume", "delete"}, StartOnRow(p, c, o),
             RoutingStays
      PROVE  PeersInv'
  BY <1>3 DEF StartOnRow, RoutingStays
<1>4. ASSUME NEW p \in Handlers, NEW c \in Clients, StartRename(p, c), RoutingStays
      PROVE  PeersInv'
  BY <1>4 DEF StartRename, RoutingStays
<1>5. ASSUME NEW p \in Handlers, NEW c \in Clients, SyncDrop(p, c), RoutingStays
      PROVE  PeersInv'
  <2>0. pc[p] # "idle" /\ op[p] # "none"
    BY <1>5 DEF SyncDrop, Reloaded, Without
  <2>1. \A q \in Handlers : q # p => Quiet(q)
    <3> HIDE DEF OpFits, IInv, Orderly
    <3> QED BY <2>0, OthersQuiet
  <2>2. \A q \in Handlers : q # p => Quiet(q)'
    BY <2>1, <1>5 DEF SyncDrop, Reloaded, Without, Quiet
  <2>3. PeersOf(p)'
    BY <2>1, <1>5 DEF SyncDrop, Reloaded, Without
  <2>4. NoStolenIp'
    BY <2>1, <1>5 DEF SyncDrop, Reloaded, Without
  <2>9. ASSUME NEW q \in Handlers, q # p PROVE PeersOf(q)'
    <3>1. pc'[q] \in {"idle", "uplink"}
      BY <2>2, <2>9 DEF Quiet
    <3> HIDE DEF IInv, TypeOK, OpFits, Orderly, PeersInv, OwnTarget
    <3> QED BY <3>1
  <2> HIDE DEF PeersOf, NoStolenIp
  <2> QED BY <2>3, <2>4, <2>9
<1>6. ASSUME NEW p \in Handlers, ReadUsed(p), RoutingStays
      PROVE  PeersInv'
  BY <1>6 DEF ReadUsed, RoutingStays
<1>7. ASSUME NEW p \in Handlers, NEW S \in Avoided(p), PickIp(p, S), RoutingStays
      PROVE  PeersInv'
  BY <1>7 DEF PickIp, RoutingStays
<1>8. ASSUME NEW p \in Handlers, NoFreeIp(p), RoutingStays
      PROVE  PeersInv'
  BY <1>8 DEF NoFreeIp, RoutingStays
<1>9. ASSUME NEW p \in Handlers, AddPeer(p), RoutingStays
      PROVE  PeersInv'
  <2>0. pc[p] # "idle" /\ op[p] # "none"
    BY <1>9 DEF AddPeer
  <2>1. \A q \in Handlers : q # p => Quiet(q)
    <3> HIDE DEF OpFits, IInv, Orderly
    <3> QED BY <2>0, OthersQuiet
  <2>2. \A q \in Handlers : q # p => Quiet(q)'
    BY <2>1, <1>9 DEF AddPeer, Quiet
  <2>3. PeersOf(p)'
    BY <2>1, <1>9 DEF AddPeer
  <2>4. NoStolenIp'
    BY <2>1, <1>9 DEF AddPeer
  <2>9. ASSUME NEW q \in Handlers, q # p PROVE PeersOf(q)'
    <3>1. pc'[q] \in {"idle", "uplink"}
      BY <2>2, <2>9 DEF Quiet
    <3> HIDE DEF IInv, TypeOK, OpFits, Orderly, PeersInv, OwnTarget
    <3> QED BY <3>1
  <2> HIDE DEF PeersOf, NoStolenIp
  <2> QED BY <2>3, <2>4, <2>9
<1>10. ASSUME NEW p \in Handlers, Insert(p), RoutingStays
      PROVE  PeersInv'
  <2>0. pc[p] # "idle" /\ op[p] # "none"
    BY <1>10 DEF Insert
  <2>1. \A q \in Handlers : q # p => Quiet(q)
    <3> HIDE DEF OpFits, IInv, Orderly
    <3> QED BY <2>0, OthersQuiet
  <2>2. \A q \in Handlers : q # p => Quiet(q)'
    BY <2>1, <1>10 DEF Insert, Quiet
  <2>3. PeersOf(p)'
    BY <2>1, <1>10 DEF Insert
  <2>4. NoStolenIp'
    BY <2>1, <1>10 DEF Insert
  <2>9. ASSUME NEW q \in Handlers, q # p PROVE PeersOf(q)'
    <3>1. pc'[q] \in {"idle", "uplink"}
      BY <2>2, <2>9 DEF Quiet
    <3> HIDE DEF IInv, TypeOK, OpFits, Orderly, PeersInv, OwnTarget
    <3> QED BY <3>1
  <2> HIDE DEF PeersOf, NoStolenIp
  <2> QED BY <2>3, <2>4, <2>9
<1>11. ASSUME NEW p \in Handlers, RemovePeer(p), RoutingStays
      PROVE  PeersInv'
  <2>0. pc[p] # "idle" /\ op[p] # "none"
    BY <1>11 DEF RemovePeer, Without
  <2>1. \A q \in Handlers : q # p => Quiet(q)
    <3> HIDE DEF OpFits, IInv, Orderly
    <3> QED BY <2>0, OthersQuiet
  <2>2. \A q \in Handlers : q # p => Quiet(q)'
    BY <2>1, <1>11 DEF RemovePeer, Without, Quiet
  <2>3. PeersOf(p)'
    BY <2>1, <1>11 DEF RemovePeer, Without
  <2>4. NoStolenIp'
    BY <2>1, <1>11 DEF RemovePeer, Without
  <2>9. ASSUME NEW q \in Handlers, q # p PROVE PeersOf(q)'
    <3>1. pc'[q] \in {"idle", "uplink"}
      BY <2>2, <2>9 DEF Quiet
    <3> HIDE DEF IInv, TypeOK, OpFits, Orderly, PeersInv, OwnTarget
    <3> QED BY <3>1
  <2> HIDE DEF PeersOf, NoStolenIp
  <2> QED BY <2>3, <2>4, <2>9
<1>12. ASSUME NEW p \in Handlers, RestorePeer(p), RoutingStays
      PROVE  PeersInv'
  <2>0. pc[p] # "idle" /\ op[p] # "none"
    BY <1>12 DEF RestorePeer
  <2>1. \A q \in Handlers : q # p => Quiet(q)
    <3> HIDE DEF OpFits, IInv, Orderly
    <3> QED BY <2>0, OthersQuiet
  <2>2. \A q \in Handlers : q # p => Quiet(q)'
    BY <2>1, <1>12 DEF RestorePeer, Quiet
  <2>3. PeersOf(p)'
    BY <2>1, <1>12 DEF RestorePeer
  <2>4. NoStolenIp'
    BY <2>1, <1>12 DEF RestorePeer
  <2>9. ASSUME NEW q \in Handlers, q # p PROVE PeersOf(q)'
    <3>1. pc'[q] \in {"idle", "uplink"}
      BY <2>2, <2>9 DEF Quiet
    <3> HIDE DEF IInv, TypeOK, OpFits, Orderly, PeersInv, OwnTarget
    <3> QED BY <3>1
  <2> HIDE DEF PeersOf, NoStolenIp
  <2> QED BY <2>3, <2>4, <2>9
<1>13. ASSUME NEW p \in Handlers, SuspendRow(p), RoutingStays
      PROVE  PeersInv'
  <2>0. pc[p] # "idle" /\ op[p] # "none"
    BY <1>13 DEF SuspendRow, SetRow
  <2>1. \A q \in Handlers : q # p => Quiet(q)
    <3> HIDE DEF OpFits, IInv, Orderly
    <3> QED BY <2>0, OthersQuiet
  <2>2. \A q \in Handlers : q # p => Quiet(q)'
    BY <2>1, <1>13 DEF SuspendRow, SetRow, Quiet
  <2>3. PeersOf(p)'
    BY <2>1, <1>13 DEF SuspendRow, SetRow
  <2>4. NoStolenIp'
    BY <2>1, <1>13 DEF SuspendRow, SetRow
  <2>9. ASSUME NEW q \in Handlers, q # p PROVE PeersOf(q)'
    <3>1. pc'[q] \in {"idle", "uplink"}
      BY <2>2, <2>9 DEF Quiet
    <3> HIDE DEF IInv, TypeOK, OpFits, Orderly, PeersInv, OwnTarget
    <3> QED BY <3>1
  <2> HIDE DEF PeersOf, NoStolenIp
  <2> QED BY <2>3, <2>4, <2>9
<1>14. ASSUME NEW p \in Handlers, ResumeRow(p), RoutingStays
      PROVE  PeersInv'
  <2>0. pc[p] # "idle" /\ op[p] # "none"
    BY <1>14 DEF ResumeRow, SetRow
  <2>1. \A q \in Handlers : q # p => Quiet(q)
    <3> HIDE DEF OpFits, IInv, Orderly
    <3> QED BY <2>0, OthersQuiet
  <2>2. \A q \in Handlers : q # p => Quiet(q)'
    BY <2>1, <1>14 DEF ResumeRow, SetRow, Quiet
  <2>3. PeersOf(p)'
    BY <2>1, <1>14 DEF ResumeRow, SetRow
  <2>4. NoStolenIp'
    BY <2>1, <1>14 DEF ResumeRow, SetRow
  <2>9. ASSUME NEW q \in Handlers, q # p PROVE PeersOf(q)'
    <3>1. pc'[q] \in {"idle", "uplink"}
      BY <2>2, <2>9 DEF Quiet
    <3> HIDE DEF IInv, TypeOK, OpFits, Orderly, PeersInv, OwnTarget
    <3> QED BY <3>1
  <2> HIDE DEF PeersOf, NoStolenIp
  <2> QED BY <2>3, <2>4, <2>9
<1>15. ASSUME NEW p \in Handlers, DeleteRow(p), RoutingStays
      PROVE  PeersInv'
  <2>0. pc[p] # "idle" /\ op[p] # "none"
    BY <1>15 DEF DeleteRow, SetRow
  <2>1. \A q \in Handlers : q # p => Quiet(q)
    <3> HIDE DEF OpFits, IInv, Orderly
    <3> QED BY <2>0, OthersQuiet
  <2>2. \A q \in Handlers : q # p => Quiet(q)'
    BY <2>1, <1>15 DEF DeleteRow, SetRow, Quiet
  <2>3. PeersOf(p)'
    BY <2>1, <1>15 DEF DeleteRow, SetRow
  <2>4. NoStolenIp'
    BY <2>1, <1>15 DEF DeleteRow, SetRow
  <2>9. ASSUME NEW q \in Handlers, q # p PROVE PeersOf(q)'
    <3>1. pc'[q] \in {"idle", "uplink"}
      BY <2>2, <2>9 DEF Quiet
    <3> HIDE DEF IInv, TypeOK, OpFits, Orderly, PeersInv, OwnTarget
    <3> QED BY <3>1
  <2> HIDE DEF PeersOf, NoStolenIp
  <2> QED BY <2>3, <2>4, <2>9
<1>16. ASSUME NEW p \in Handlers, SyncRead(p), RoutingStays
      PROVE  PeersInv'
  BY <1>16 DEF SyncRead, RoutingStays
<1>17. ASSUME NEW p \in Handlers, SyncWrite(p), RoutingStays
      PROVE  PeersInv'
  BY <1>17 DEF SyncWrite, RoutingStays
<1>18. ASSUME NEW p \in Handlers, SyncReload(p), RoutingStays
      PROVE  PeersInv'
  <2>0. pc[p] # "idle" /\ op[p] # "none"
    BY <1>18 DEF SyncReload
  <2>1. \A q \in Handlers : q # p => Quiet(q)
    <3> HIDE DEF OpFits, IInv, Orderly
    <3> QED BY <2>0, OthersQuiet
  <2>2. \A q \in Handlers : q # p => Quiet(q)'
    BY <2>1, <1>18 DEF SyncReload, Quiet
  <2>5. /\ \A o \in Octets, c \in Clients : route'[o] = c <=> c \in InDb /\ ip[c] = o
        /\ \A c \in InDb : route'[ip[c]] = c
    <3>1. conf = InDb /\ route' = FromConf
      BY <1>18 DEF SyncReload
    <3> HIDE DEF InDb, IInv
    <3> QED BY <3>1, LoadedServes
  <2>3. PeersOf(p)'
    BY <2>1, <1>18, <2>5 DEF SyncReload
  <2>4. NoStolenIp'
    <3> SUFFICES ASSUME NEW c \in Clients, row'[c] = "active"
                 PROVE  route'[ip'[c]] \in {c, None}
      BY DEF NoStolenIp
    <3>1. row'[c] = row[c] /\ ip'[c] = ip[c]
      BY <1>18 DEF SyncReload
    <3>2. c \in InDb /\ ip[c] \in Octets
      BY <3>1
    <3>3. route'[ip[c]] = c
      BY <3>2, <2>5
    <3> QED BY <3>1, <3>3
  <2>9. ASSUME NEW q \in Handlers, q # p PROVE PeersOf(q)'
    <3>1. pc'[q] \in {"idle", "uplink"}
      BY <2>2, <2>9 DEF Quiet
    <3> HIDE DEF IInv, TypeOK, OpFits, Orderly, PeersInv, OwnTarget
    <3> QED BY <3>1
  <2> HIDE DEF PeersOf, NoStolenIp
  <2> QED BY <2>3, <2>4, <2>9
<1>19. ASSUME NEW p \in Handlers, SyncDone(p), RoutingStays
      PROVE  PeersInv'
  BY <1>19 DEF SyncDone, Reloaded, RoutingStays
<1>20. ASSUME NEW p \in Handlers, InsertConflict(p), RoutingStays
      PROVE  PeersInv'
  BY <1>20 DEF InsertConflict, RoutingStays
<1>21. ASSUME NEW p \in Handlers, PeerFail(p)
      PROVE  PeersInv'
  <2>0. pc[p] # "idle" /\ op[p] # "none"
    BY <1>21 DEF PeerFail, SshFail
  <2>1. \A q \in Handlers : q # p => Quiet(q)
    <3> HIDE DEF OpFits, IInv, Orderly
    <3> QED BY <2>0, OthersQuiet
  <2>2. \A q \in Handlers : q # p => Quiet(q)'
    BY <2>1, <1>21 DEF PeerFail, SshFail, Quiet
  <2>3. PeersOf(p)'
    BY <2>1, <1>21 DEF PeerFail, SshFail
  <2>4. NoStolenIp'
    BY <2>1, <1>21 DEF PeerFail, SshFail
  <2>9. ASSUME NEW q \in Handlers, q # p PROVE PeersOf(q)'
    <3>1. pc'[q] \in {"idle", "uplink"}
      BY <2>2, <2>9 DEF Quiet
    <3> HIDE DEF IInv, TypeOK, OpFits, Orderly, PeersInv, OwnTarget
    <3> QED BY <3>1
  <2> HIDE DEF PeersOf, NoStolenIp
  <2> QED BY <2>3, <2>4, <2>9
<1>22. ASSUME NEW p \in Handlers, RouteRead(p)
      PROVE  PeersInv'
  BY <1>22 DEF RouteRead
<1>23. ASSUME NEW p \in Handlers, RoutePlan(p)
      PROVE  PeersInv'
  BY <1>23 DEF RoutePlan
<1>24. ASSUME NEW p \in Handlers, RouteWrite(p)
      PROVE  PeersInv'
  BY <1>24 DEF RouteWrite
<1>25. ASSUME NEW p \in Handlers, RouteRestart(p)
      PROVE  PeersInv'
  BY <1>25 DEF RouteRestart
<1>26. ASSUME NEW p \in Handlers,
              RouteSame(p) \/ RouteDone(p) \/ RouteFail(p) \/ RestartFail(p)
      PROVE  PeersInv'
  BY <1>26 DEF RouteSame, RouteDone, RouteFail, RestartFail, Leave, UplinkDone
<1>27. ASSUME NEW o \in Octets, Expire(o), RoutingStays
      PROVE  PeersInv'
  BY <1>27 DEF Expire, RoutingStays
<1>28. CASE CCrash
  BY <1>28 DEF CCrash, Crash, StartupPc
<1>29. CASE UNCHANGED cvars
  BY <1>29 DEF cvars, vars
<1>30. ASSUME NEW p \in Handlers, SyncReloadFails(p), RoutingStays
      PROVE  PeersInv'
  BY <1>30 DEF SyncReloadFails, RoutingStays
<1> HIDE DEF OpFits, PeersInv, PeersOf, NoStolenIp, Active, Suspended, Serves, IInv,
             TypeOK, OwnTarget, HeldIsFree, UniqueIps, OctetsFinal, Orderly, InDb,
             Creating, Holding, Goto, Begin, Finish, SshWait, Ops, Routing
<1> QED BY <1>1, <1>2, <1>3, <1>4, <1>5, <1>6, <1>7, <1>8, <1>9, <1>10, <1>11, <1>12,
           <1>13, <1>14, <1>15, <1>16, <1>17, <1>18, <1>19, <1>20, <1>21, <1>22,
           <1>23, <1>24, <1>25, <1>26, <1>27, <1>28, <1>29, <1>30 DEF CNext, PeerStep,
           FindFreeIp, RoutingStays

LEMMA WantStays ==
  ASSUME InDb' = InDb, \A c \in InDb : ip'[c] = ip[c] /\ via'[c] = via[c]
  PROVE  Want' = Want
<1> DEFINE H == {d \in InDb : via[d] = "hy2"}
<1>1. {d \in InDb : via[d] = "hy2"}' = H
  OBVIOUS
<1>2. \A c \in H : ip'[c] = ip[c]
  OBVIOUS
<1>3. {ip'[c] : c \in H} = {ip[c] : c \in H}
  <2> HIDE DEF H
  <2> QED BY <1>2
<1> QED BY <1>1, <1>3 DEF Want

\* A step that changes neither what the rows ask for nor anybody's position
\* in a routing sync.
LEMMA RoutesKept ==
  ASSUME RoutesInv, RoutingStays, Want' = Want,
         \A q \in Handlers :
           /\ Owes(q) => Owes(q)'
           /\ \A s \in {"query", "write", "restart"} : Routing(q, s)' <=> Routing(q, s)
  PROVE  RoutesInv'
BY DEF RoutesInv, RoutingStays, routing, sync

\* Only one handler is in a routing sync.
LEMMA OneRouting ==
  ASSUME IInv, OpFits, Orderly, NEW p \in Handlers, pc[p] = "uplink"
  PROVE  \A q \in Handlers : q # p => pc[q] # "uplink"
<1> SUFFICES ASSUME NEW q \in Handlers, q # p, pc[q] = "uplink" PROVE FALSE
  OBVIOUS
<1>1. {op[p], op[q]} = {"none", "sync"}
  BY DEF Orderly
<1>2. {op[p], op[q]} \subseteq {"none", "create", "delete"}
  BY DEF OpFits
<1> QED BY <1>1, <1>2

LEMMA RoutesNext ==
  ASSUME IInv, RoutingTypes, OpFits, RoutesInv, Orderly, Orderly', [CNext]_cvars
  PROVE  RoutesInv'
<1> USE WgAssumption DEF OpFits, RoutesInv, Owes, IInv, TypeOK, OwnTarget,
        RoutingTypes, Orderly, InDb, Creating, Goto, Begin, Finish, SshWait, Ops,
        Routing, serverA, alloc, local, vars, sync, routing
<1>1. ASSUME NEW p \in Handlers, NEW c \in Clients, NEW t \in {"xray", "hy2"},
             Create(p, c, t)
      PROVE  RoutesInv'
  <2>1. Want' = Want
    <3>1. InDb' = InDb /\ ip' = ip /\ \A d \in InDb : via'[d] = via[d]
      BY <1>1 DEF Create, StartCreate
    <3> HIDE DEF InDb
    <3> QED BY <3>1, WantStays
  <2>2. \A q \in Handlers :
          /\ Owes(q)' <=> Owes(q)
          /\ \A s \in {"query", "write", "restart"} : Routing(q, s)' <=> Routing(q, s)
    BY <1>1 DEF Create, StartCreate
  <2> QED BY <2>1, <2>2, <1>1 DEF Create
<1>2. ASSUME NEW p \in Handlers, NEW c \in Clients, NEW t \in {"xray", "hy2"},
             SetTransport(p, c, t)
      PROVE  RoutesInv'
  <2>1. Owes(p)' /\ ~ Routing(p, "query")' /\ ~ Routing(p, "write")' /\ ~ Routing(p, "restart")'
    BY <1>2 DEF SetTransport
  <2>2. \A q \in Handlers : q # p => pc'[q] # "uplink" /\ pc[q] # "uplink"
    <3>1. op'[p] = "none" /\ pc'[p] = "uplink"
      BY <1>2 DEF SetTransport
    <3>2. ASSUME NEW q \in Handlers, q # p, pc[q] = "uplink" PROVE FALSE
      <4>1. pc'[q] = "uplink" /\ op'[q] = op[q]
        BY <1>2, <3>2 DEF SetTransport
      <4>2. {op'[p], op'[q]} = {"none", "sync"}
        BY <3>1, <3>2, <4>1
      <4>3. op[q] \in {"none", "create", "delete"}
        BY <3>2
      <4>4. op'[q] = "sync"
        BY <3>1, <4>2
      <4> QED BY <4>1, <4>3, <4>4
    <3> QED BY <3>2, <1>2 DEF SetTransport
  <2>3. ~ Routing(p, "restart") /\ up' = up /\ loaded' = loaded /\ rules' = rules
        /\ (clean' => clean)
    BY <1>2 DEF SetTransport
  <2>4. ASSUME clean' PROVE loaded' = rules'
    BY <2>2, <2>3, <2>4
  <2> QED BY <2>1, <2>2, <2>3, <2>4
<1>3. ASSUME NEW p \in Handlers, NEW c \in Clients,
             NEW o \in {"suspend", "resume", "delete"}, StartOnRow(p, c, o),
             RoutingStays
      PROVE  RoutesInv'
  <2>1. Want' = Want
    <3>1. InDb' = InDb /\ \A d \in InDb : ip'[d] = ip[d] /\ via'[d] = via[d]
      BY <1>3 DEF StartOnRow, RoutingStays
    <3> QED BY <3>1, WantStays
  <2>2. \A q \in Handlers :
          /\ Owes(q) => Owes(q)'
          /\ \A s \in {"query", "write", "restart"} : Routing(q, s)' <=> Routing(q, s)
    BY <1>3 DEF StartOnRow, RoutingStays
  <2> QED BY <2>1, <2>2, <1>3, RoutesKept
<1>4. ASSUME NEW p \in Handlers, NEW c \in Clients, StartRename(p, c), RoutingStays
      PROVE  RoutesInv'
  <2>1. Want' = Want
    <3>1. InDb' = InDb /\ \A d \in InDb : ip'[d] = ip[d] /\ via'[d] = via[d]
      BY <1>4 DEF StartRename, RoutingStays
    <3> QED BY <3>1, WantStays
  <2>2. \A q \in Handlers :
          /\ Owes(q) => Owes(q)'
          /\ \A s \in {"query", "write", "restart"} : Routing(q, s)' <=> Routing(q, s)
    BY <1>4 DEF StartRename, RoutingStays
  <2> QED BY <2>1, <2>2, <1>4, RoutesKept
<1>5. ASSUME NEW p \in Handlers, NEW c \in Clients, SyncDrop(p, c), RoutingStays
      PROVE  RoutesInv'
  <2>1. Want' = Want
    <3>1. InDb' = InDb /\ \A d \in InDb : ip'[d] = ip[d] /\ via'[d] = via[d]
      BY <1>5 DEF SyncDrop, Reloaded, Without, RoutingStays
    <3> QED BY <3>1, WantStays
  <2>2. \A q \in Handlers :
          /\ Owes(q) => Owes(q)'
          /\ \A s \in {"query", "write", "restart"} : Routing(q, s)' <=> Routing(q, s)
    BY <1>5 DEF SyncDrop, Reloaded, Without, RoutingStays
  <2> QED BY <2>1, <2>2, <1>5, RoutesKept
<1>6. ASSUME NEW p \in Handlers, ReadUsed(p), RoutingStays
      PROVE  RoutesInv'
  <2>1. Want' = Want
    <3>1. InDb' = InDb /\ \A d \in InDb : ip'[d] = ip[d] /\ via'[d] = via[d]
      BY <1>6 DEF ReadUsed, RoutingStays
    <3> QED BY <3>1, WantStays
  <2>2. \A q \in Handlers :
          /\ Owes(q) => Owes(q)'
          /\ \A s \in {"query", "write", "restart"} : Routing(q, s)' <=> Routing(q, s)
    BY <1>6 DEF ReadUsed, RoutingStays
  <2> QED BY <2>1, <2>2, <1>6, RoutesKept
<1>7. ASSUME NEW p \in Handlers, NEW S \in Avoided(p), PickIp(p, S), RoutingStays
      PROVE  RoutesInv'
  <2>1. Want' = Want
    <3>1. InDb' = InDb /\ \A d \in InDb : ip'[d] = ip[d] /\ via'[d] = via[d]
      BY <1>7 DEF PickIp, RoutingStays
    <3> QED BY <3>1, WantStays
  <2>2. \A q \in Handlers :
          /\ Owes(q) => Owes(q)'
          /\ \A s \in {"query", "write", "restart"} : Routing(q, s)' <=> Routing(q, s)
    BY <1>7 DEF PickIp, RoutingStays
  <2> QED BY <2>1, <2>2, <1>7, RoutesKept
<1>8. ASSUME NEW p \in Handlers, NoFreeIp(p), RoutingStays
      PROVE  RoutesInv'
  <2>1. Want' = Want
    <3>1. InDb' = InDb /\ \A d \in InDb : ip'[d] = ip[d] /\ via'[d] = via[d]
      BY <1>8 DEF NoFreeIp, RoutingStays
    <3> QED BY <3>1, WantStays
  <2>2. \A q \in Handlers :
          /\ Owes(q) => Owes(q)'
          /\ \A s \in {"query", "write", "restart"} : Routing(q, s)' <=> Routing(q, s)
    BY <1>8 DEF NoFreeIp, RoutingStays
  <2> QED BY <2>1, <2>2, <1>8, RoutesKept
<1>9. ASSUME NEW p \in Handlers, AddPeer(p), RoutingStays
      PROVE  RoutesInv'
  <2>1. Want' = Want
    <3>1. InDb' = InDb /\ \A d \in InDb : ip'[d] = ip[d] /\ via'[d] = via[d]
      BY <1>9 DEF AddPeer, RoutingStays
    <3> QED BY <3>1, WantStays
  <2>2. \A q \in Handlers :
          /\ Owes(q) => Owes(q)'
          /\ \A s \in {"query", "write", "restart"} : Routing(q, s)' <=> Routing(q, s)
    BY <1>9 DEF AddPeer, RoutingStays
  <2> QED BY <2>1, <2>2, <1>9, RoutesKept
<1>10. ASSUME NEW p \in Handlers, Insert(p), RoutingStays
      PROVE  RoutesInv'
  <2>1. Owes(p)' /\ ~ Routing(p, "query")' /\ ~ Routing(p, "write")' /\ ~ Routing(p, "restart")'
    BY <1>10 DEF Insert, RoutingStays
  <2>2. \A q \in Handlers : q # p => pc'[q] # "uplink" /\ pc[q] # "uplink"
    <3>1. pc[p] # "idle" /\ op[p] \notin {"none", "sync"}
      BY <1>10 DEF Insert, RoutingStays
    <3>2. \A q \in Handlers : q # p => pc[q] = "idle"
      <4> HIDE DEF IInv, OpFits, Orderly
      <4> QED BY <3>1, OthersIdle
    <3> QED BY <3>2, <1>10 DEF Insert, RoutingStays
  <2>3. ~ Routing(p, "restart") /\ up' = up /\ loaded' = loaded /\ rules' = rules
        /\ (clean' => clean)
    BY <1>10 DEF Insert, RoutingStays
  <2>4. ASSUME clean' PROVE loaded' = rules'
    BY <2>2, <2>3, <2>4
  <2> QED BY <2>1, <2>2, <2>3, <2>4
<1>11. ASSUME NEW p \in Handlers, RemovePeer(p), RoutingStays
      PROVE  RoutesInv'
  <2>1. Want' = Want
    <3>1. InDb' = InDb /\ \A d \in InDb : ip'[d] = ip[d] /\ via'[d] = via[d]
      BY <1>11 DEF RemovePeer, Without, RoutingStays
    <3> QED BY <3>1, WantStays
  <2>2. \A q \in Handlers :
          /\ Owes(q) => Owes(q)'
          /\ \A s \in {"query", "write", "restart"} : Routing(q, s)' <=> Routing(q, s)
    BY <1>11 DEF RemovePeer, Without, RoutingStays
  <2> QED BY <2>1, <2>2, <1>11, RoutesKept
<1>12. ASSUME NEW p \in Handlers, RestorePeer(p), RoutingStays
      PROVE  RoutesInv'
  <2>1. Want' = Want
    <3>1. InDb' = InDb /\ \A d \in InDb : ip'[d] = ip[d] /\ via'[d] = via[d]
      BY <1>12 DEF RestorePeer, RoutingStays
    <3> QED BY <3>1, WantStays
  <2>2. \A q \in Handlers :
          /\ Owes(q) => Owes(q)'
          /\ \A s \in {"query", "write", "restart"} : Routing(q, s)' <=> Routing(q, s)
    BY <1>12 DEF RestorePeer, RoutingStays
  <2> QED BY <2>1, <2>2, <1>12, RoutesKept
<1>13. ASSUME NEW p \in Handlers, SuspendRow(p), RoutingStays
      PROVE  RoutesInv'
  <2>1. Want' = Want
    <3>1. InDb' = InDb /\ \A d \in InDb : ip'[d] = ip[d] /\ via'[d] = via[d]
      BY <1>13 DEF SuspendRow, SetRow, RoutingStays
    <3> QED BY <3>1, WantStays
  <2>2. \A q \in Handlers :
          /\ Owes(q) => Owes(q)'
          /\ \A s \in {"query", "write", "restart"} : Routing(q, s)' <=> Routing(q, s)
    BY <1>13 DEF SuspendRow, SetRow, RoutingStays
  <2> QED BY <2>1, <2>2, <1>13, RoutesKept
<1>14. ASSUME NEW p \in Handlers, ResumeRow(p), RoutingStays
      PROVE  RoutesInv'
  <2>1. Want' = Want
    <3>1. InDb' = InDb /\ \A d \in InDb : ip'[d] = ip[d] /\ via'[d] = via[d]
      BY <1>14 DEF ResumeRow, SetRow, RoutingStays
    <3> QED BY <3>1, WantStays
  <2>2. \A q \in Handlers :
          /\ Owes(q) => Owes(q)'
          /\ \A s \in {"query", "write", "restart"} : Routing(q, s)' <=> Routing(q, s)
    BY <1>14 DEF ResumeRow, SetRow, RoutingStays
  <2> QED BY <2>1, <2>2, <1>14, RoutesKept
<1>15. ASSUME NEW p \in Handlers, DeleteRow(p), RoutingStays
      PROVE  RoutesInv'
  <2>1. Owes(p)' /\ ~ Routing(p, "query")' /\ ~ Routing(p, "write")' /\ ~ Routing(p, "restart")'
    BY <1>15 DEF DeleteRow, SetRow, RoutingStays
  <2>2. \A q \in Handlers : q # p => pc'[q] # "uplink" /\ pc[q] # "uplink"
    <3>1. pc[p] # "idle" /\ op[p] \notin {"none", "sync"}
      BY <1>15 DEF DeleteRow, SetRow, RoutingStays
    <3>2. \A q \in Handlers : q # p => pc[q] = "idle"
      <4> HIDE DEF IInv, OpFits, Orderly
      <4> QED BY <3>1, OthersIdle
    <3> QED BY <3>2, <1>15 DEF DeleteRow, SetRow, RoutingStays
  <2>3. ~ Routing(p, "restart") /\ up' = up /\ loaded' = loaded /\ rules' = rules
        /\ (clean' => clean)
    BY <1>15 DEF DeleteRow, SetRow, RoutingStays
  <2>4. ASSUME clean' PROVE loaded' = rules'
    BY <2>2, <2>3, <2>4
  <2> QED BY <2>1, <2>2, <2>3, <2>4
<1>16. ASSUME NEW p \in Handlers, SyncRead(p), RoutingStays
      PROVE  RoutesInv'
  <2>1. Want' = Want
    <3>1. InDb' = InDb /\ \A d \in InDb : ip'[d] = ip[d] /\ via'[d] = via[d]
      BY <1>16 DEF SyncRead, RoutingStays
    <3> QED BY <3>1, WantStays
  <2>2. \A q \in Handlers :
          /\ Owes(q) => Owes(q)'
          /\ \A s \in {"query", "write", "restart"} : Routing(q, s)' <=> Routing(q, s)
    BY <1>16 DEF SyncRead, RoutingStays
  <2> QED BY <2>1, <2>2, <1>16, RoutesKept
<1>17. ASSUME NEW p \in Handlers, SyncWrite(p), RoutingStays
      PROVE  RoutesInv'
  <2>1. Want' = Want
    <3>1. InDb' = InDb /\ \A d \in InDb : ip'[d] = ip[d] /\ via'[d] = via[d]
      BY <1>17 DEF SyncWrite, RoutingStays
    <3> QED BY <3>1, WantStays
  <2>2. \A q \in Handlers :
          /\ Owes(q) => Owes(q)'
          /\ \A s \in {"query", "write", "restart"} : Routing(q, s)' <=> Routing(q, s)
    BY <1>17 DEF SyncWrite, RoutingStays
  <2> QED BY <2>1, <2>2, <1>17, RoutesKept
<1>18. ASSUME NEW p \in Handlers, SyncReload(p), RoutingStays
      PROVE  RoutesInv'
  <2>1. Want' = Want
    <3>1. InDb' = InDb /\ \A d \in InDb : ip'[d] = ip[d] /\ via'[d] = via[d]
      BY <1>18 DEF SyncReload, RoutingStays
    <3> QED BY <3>1, WantStays
  <2>2. \A q \in Handlers :
          /\ Owes(q) => Owes(q)'
          /\ \A s \in {"query", "write", "restart"} : Routing(q, s)' <=> Routing(q, s)
    BY <1>18 DEF SyncReload, RoutingStays
  <2> QED BY <2>1, <2>2, <1>18, RoutesKept
<1>19. ASSUME NEW p \in Handlers, SyncDone(p), RoutingStays
      PROVE  RoutesInv'
  <2>1. Want' = Want
    <3>1. InDb' = InDb /\ \A d \in InDb : ip'[d] = ip[d] /\ via'[d] = via[d]
      BY <1>19 DEF SyncDone, Reloaded, RoutingStays
    <3> QED BY <3>1, WantStays
  <2>2. \A q \in Handlers :
          /\ Owes(q) => Owes(q)'
          /\ \A s \in {"query", "write", "restart"} : Routing(q, s)' <=> Routing(q, s)
    BY <1>19 DEF SyncDone, Reloaded, RoutingStays
  <2> QED BY <2>1, <2>2, <1>19, RoutesKept
<1>20. ASSUME NEW p \in Handlers, InsertConflict(p), RoutingStays
      PROVE  RoutesInv'
  <2>1. Want' = Want
    <3>1. InDb' = InDb /\ \A d \in InDb : ip'[d] = ip[d] /\ via'[d] = via[d]
      BY <1>20 DEF InsertConflict, RoutingStays
    <3> QED BY <3>1, WantStays
  <2>2. \A q \in Handlers :
          /\ Owes(q) => Owes(q)'
          /\ \A s \in {"query", "write", "restart"} : Routing(q, s)' <=> Routing(q, s)
    BY <1>20 DEF InsertConflict, RoutingStays
  <2> QED BY <2>1, <2>2, <1>20, RoutesKept
<1>21. ASSUME NEW p \in Handlers, PeerFail(p)
      PROVE  RoutesInv'
  BY <1>21 DEF PeerFail, SshFail
<1>22. ASSUME NEW p \in Handlers, RouteRead(p)
      PROVE  RoutesInv'
  <2>1. pc[p] = "uplink"
    BY <1>22 DEF RouteRead
  <2>2. \A q \in Handlers : q # p => pc[q] # "uplink"
    <3> HIDE DEF IInv, OpFits, Orderly
    <3> QED BY <2>1, OneRouting
  <2>3. Want' = Want
    BY <1>22, WantStays DEF RouteRead
  <2>4. \A q \in Handlers : q # p =>
          /\ op'[q] = op[q] /\ pc'[q] = pc[q] /\ at'[q] = at[q]
          /\ seen'[q] = seen[q] /\ plan'[q] = plan[q]
    BY <1>22 DEF RouteRead
  <2>5. \A q \in Handlers : q # p =>
          /\ Owes(q)' <=> Owes(q)
          /\ \A s \in {"query", "write", "restart"} : ~ Routing(q, s)'
    BY <2>2, <2>4
  <2> QED BY <2>1, <2>2, <2>3, <2>5, <1>22 DEF RouteRead
<1>23. ASSUME NEW p \in Handlers, RoutePlan(p)
      PROVE  RoutesInv'
  <2>1. pc[p] = "uplink"
    BY <1>23 DEF RoutePlan
  <2>2. \A q \in Handlers : q # p => pc[q] # "uplink"
    <3> HIDE DEF IInv, OpFits, Orderly
    <3> QED BY <2>1, OneRouting
  <2>3. Want' = Want
    BY <1>23, WantStays DEF RoutePlan
  <2>4. \A q \in Handlers : q # p =>
          /\ op'[q] = op[q] /\ pc'[q] = pc[q] /\ at'[q] = at[q]
          /\ seen'[q] = seen[q] /\ plan'[q] = plan[q]
    BY <1>23 DEF RoutePlan
  <2>5. \A q \in Handlers : q # p =>
          /\ Owes(q)' <=> Owes(q)
          /\ \A s \in {"query", "write", "restart"} : ~ Routing(q, s)'
    BY <2>2, <2>4
  <2> QED BY <2>1, <2>2, <2>3, <2>5, <1>23 DEF RoutePlan
<1>24. ASSUME NEW p \in Handlers, RouteWrite(p)
      PROVE  RoutesInv'
  <2>1. pc[p] = "uplink"
    BY <1>24 DEF RouteWrite
  <2>2. \A q \in Handlers : q # p => pc[q] # "uplink"
    <3> HIDE DEF IInv, OpFits, Orderly
    <3> QED BY <2>1, OneRouting
  <2>3. Want' = Want
    BY <1>24, WantStays DEF RouteWrite
  <2>4. \A q \in Handlers : q # p =>
          /\ op'[q] = op[q] /\ pc'[q] = pc[q] /\ at'[q] = at[q]
          /\ seen'[q] = seen[q] /\ plan'[q] = plan[q]
    BY <1>24 DEF RouteWrite
  <2>5. \A q \in Handlers : q # p =>
          /\ Owes(q)' <=> Owes(q)
          /\ \A s \in {"query", "write", "restart"} : ~ Routing(q, s)'
    BY <2>2, <2>4
  <2> QED BY <2>1, <2>2, <2>3, <2>5, <1>24 DEF RouteWrite
<1>25. ASSUME NEW p \in Handlers, RouteRestart(p)
      PROVE  RoutesInv'
  <2>1. pc[p] = "uplink"
    BY <1>25 DEF RouteRestart
  <2>2. \A q \in Handlers : q # p => pc[q] # "uplink"
    <3> HIDE DEF IInv, OpFits, Orderly
    <3> QED BY <2>1, OneRouting
  <2>3. Want' = Want
    BY <1>25, WantStays DEF RouteRestart
  <2>4. \A q \in Handlers : q # p =>
          /\ op'[q] = op[q] /\ pc'[q] = pc[q] /\ at'[q] = at[q]
          /\ seen'[q] = seen[q] /\ plan'[q] = plan[q]
    BY <1>25 DEF RouteRestart
  <2>5. \A q \in Handlers : q # p =>
          /\ Owes(q)' <=> Owes(q)
          /\ \A s \in {"query", "write", "restart"} : ~ Routing(q, s)'
    BY <2>2, <2>4
  <2> QED BY <2>1, <2>2, <2>3, <2>5, <1>25 DEF RouteRestart
<1>26. ASSUME NEW p \in Handlers,
              RouteSame(p) \/ RouteDone(p) \/ RouteFail(p) \/ RestartFail(p)
      PROVE  RoutesInv'
  <2>1. pc[p] = "uplink"
    BY <1>26 DEF RouteSame, RouteDone, RouteFail, RestartFail, Leave, UplinkDone
  <2>2. \A q \in Handlers : q # p => pc[q] # "uplink"
    <3> HIDE DEF IInv, OpFits, Orderly
    <3> QED BY <2>1, OneRouting
  <2>3. Want' = Want
    BY <1>26, WantStays DEF RouteSame, RouteDone, RouteFail, RestartFail, Leave,
       UplinkDone
  <2>4. \A q \in Handlers : q # p =>
          /\ op'[q] = op[q] /\ pc'[q] = pc[q] /\ at'[q] = at[q]
          /\ seen'[q] = seen[q] /\ plan'[q] = plan[q]
    BY <1>26 DEF RouteSame, RouteDone, RouteFail, RestartFail, Leave, UplinkDone
  <2>5. \A q \in Handlers : q # p =>
          /\ Owes(q)' <=> Owes(q)
          /\ \A s \in {"query", "write", "restart"} : ~ Routing(q, s)'
    BY <2>2, <2>4
  <2>6. CASE RouteSame(p)
    BY <2>1, <2>2, <2>3, <2>5, <2>6 DEF RouteSame, Leave, UplinkDone
  <2>7. CASE RouteDone(p)
    BY <2>1, <2>2, <2>3, <2>5, <2>7 DEF RouteDone, Leave, UplinkDone
  <2>8. CASE RouteFail(p)
    BY <2>1, <2>2, <2>3, <2>5, <2>8 DEF RouteFail
  <2>9. CASE RestartFail(p)
    BY <2>1, <2>2, <2>3, <2>5, <2>9 DEF RestartFail
  <2> QED BY <2>6, <2>7, <2>8, <2>9, <1>26
<1>27. ASSUME NEW o \in Octets, Expire(o), RoutingStays
      PROVE  RoutesInv'
  <2>1. Want' = Want
    <3>1. InDb' = InDb /\ \A d \in InDb : ip'[d] = ip[d] /\ via'[d] = via[d]
      BY <1>27 DEF Expire, RoutingStays
    <3> QED BY <3>1, WantStays
  <2>2. \A q \in Handlers :
          /\ Owes(q) => Owes(q)'
          /\ \A s \in {"query", "write", "restart"} : Routing(q, s)' <=> Routing(q, s)
    BY <1>27 DEF Expire, RoutingStays
  <2> QED BY <2>1, <2>2, <1>27, RoutesKept
<1>28. CASE CCrash
  BY <1>28 DEF CCrash, Crash, StartupPc
<1>29. CASE UNCHANGED cvars
  <2>1. Want' = Want
    BY <1>29, WantStays DEF cvars, vars
  <2> QED BY <2>1, <1>29 DEF cvars, vars
<1>30. ASSUME NEW p \in Handlers, SyncReloadFails(p), RoutingStays
      PROVE  RoutesInv'
  <2>1. Want' = Want
    <3>1. InDb' = InDb /\ \A d \in InDb : ip'[d] = ip[d] /\ via'[d] = via[d]
      BY <1>30 DEF SyncReloadFails, RoutingStays
    <3> QED BY <3>1, WantStays
  <2>2. \A q \in Handlers :
          /\ Owes(q) => Owes(q)'
          /\ \A s \in {"query", "write", "restart"} : Routing(q, s)' <=> Routing(q, s)
    BY <1>30 DEF SyncReloadFails, RoutingStays
  <2> QED BY <2>1, <2>2, <1>30, RoutesKept
<1> HIDE DEF OpFits, RoutesInv, Owes, IInv, TypeOK, OwnTarget, RoutingTypes, Orderly,
             InDb, Creating, Goto, Begin, Finish, SshWait, Ops, Routing
<1> QED BY <1>1, <1>2, <1>3, <1>4, <1>5, <1>6, <1>7, <1>8, <1>9, <1>10, <1>11, <1>12,
           <1>13, <1>14, <1>15, <1>16, <1>17, <1>18, <1>19, <1>20, <1>21, <1>22,
           <1>23, <1>24, <1>25, <1>26, <1>27, <1>28, <1>29, <1>30 DEF CNext, PeerStep,
           FindFreeIp, RoutingStays

LEMMA TurnsInit == CInit => Turns
<1> SUFFICES ASSUME CInit PROVE Turns
  OBVIOUS
<1>1. IInv
  BY BaseInit, LeasesInit, IInvSplit DEF CInit
<1>2. RoutingTypes
  BY DEF CInit, RoutingTypes
<1>3. Orderly /\ OpFits
  BY WgAssumption DEF CInit, Init, StartupPc, Orderly, OpFits, Creating
<1>4. PeersInv
  BY WgAssumption DEF CInit, Init, StartupPc, PeersInv, PeersOf, NoStolenIp
<1>5. RoutesInv
  BY WgAssumption DEF CInit, Init, RoutesInv, Routing, Want, InDb
<1> QED BY <1>1, <1>2, <1>3, <1>4, <1>5 DEF Turns

LEMMA TurnsNext == Turns /\ [CNext /\ Orderly']_cvars => Turns'
<1> SUFFICES ASSUME Turns, [CNext /\ Orderly']_cvars PROVE Turns'
  OBVIOUS
<1>1. [CNext]_cvars
  OBVIOUS
<1>2. Orderly'
  <2>1. CASE UNCHANGED cvars
    BY <2>1 DEF Turns, Orderly, cvars, vars
  <2> QED BY <2>1
<1> QED
  BY <1>1, <1>2, LeasesStay, RoutingTypesNext, OpFitsNext, PeersNext,
     RoutesNext DEF Turns

LEMMA TurnsHold == OrderlySpec => []Turns
BY TurnsInit, TurnsNext, PTL DEF OrderlySpec

\* A sync of the peers that got through, whatever failed or was cut short
\* before it, leaves Server A's file as the rows say and no suspended client
\* live, and the whole live table as the rows say unless its own reload
\* failed unnoticed.
THEOREM PeersHeal == OrderlySpec => []SyncHeals
<1>1. ASSUME Turns, NEW p \in Handlers, pc[p] = "drop", drop[p] = {} PROVE InSync
  <2>1. conf = InDb /\ Serves(Active)
    <3>1. Active \cup drop[p] = Active
      BY <1>1
    <3> QED BY <1>1, <3>1 DEF Turns, PeersInv, PeersOf
  <2>2. ASSUME NEW o \in Octets
        PROVE  route[o] = IF \E c \in Clients : row[c] = "active" /\ ip[c] = o
                          THEN CHOOSE c \in Clients : row[c] = "active" /\ ip[c] = o
                          ELSE None
    <3>1. CASE \E c \in Clients : row[c] = "active" /\ ip[c] = o
      <4>1. PICK d \in Clients :
              /\ d = CHOOSE c \in Clients : row[c] = "active" /\ ip[c] = o
              /\ row[d] = "active" /\ ip[d] = o
        BY <3>1
      <4>2. route[o] = d
        BY <2>1, <4>1 DEF Serves, Active
      <4> QED BY <3>1, <4>1, <4>2
    <3>2. CASE ~ \E c \in Clients : row[c] = "active" /\ ip[c] = o
      <4>1. route[o] \in Clients \cup {None}
        BY <1>1 DEF Turns, IInv, TypeOK
      <4>2. route[o] \notin Clients
        BY <2>1, <3>2 DEF Serves, Active
      <4> QED BY <3>2, <4>1, <4>2
    <3> QED BY <3>1, <3>2
  <2> QED BY <2>1, <2>2 DEF InSync
<1>2. ASSUME Turns, NEW p \in Handlers, SyncOver(p)
      PROVE  /\ conf = InDb
             /\ \A o \in Octets, c \in Suspended : route[o] # c
  <2>1. CASE pc[p] = "drop"
    <3>1. conf = InDb /\ Serves(Active \cup drop[p]) /\ drop[p] = {}
      BY <1>2, <2>1 DEF Turns, PeersInv, PeersOf, SyncOver
    <3> QED BY <3>1 DEF Serves, Active, Suspended
  <2>2. CASE pc[p] = "blind"
    BY <1>2, <2>2 DEF Turns, PeersInv, PeersOf, SyncOver
  <2> QED BY <1>2, <2>1, <2>2 DEF SyncOver, Reloaded
<1>3. Turns => SyncHeals
  BY <1>1, <1>2 DEF SyncHeals, SyncOver, Suspended
<1> QED BY <1>3, TurnsHold, PTL

\* Server A never routes the address of an active client to another key.
THEOREM AddressNotStolen == OrderlySpec => []NoStolenIp
<1>1. Turns => NoStolenIp
  BY DEF Turns, PeersInv
<1> QED BY <1>1, TurnsHold, PTL

\* While nothing failed, an address that a create has picked is not routed
\* by the choice of its previous owner any more.
THEOREM NothingInherited == OrderlySpec => []NoInheritedRoute
<1>1. Turns => NoInheritedRoute
  <2> SUFFICES ASSUME Turns, clean, NEW p \in Handlers, Holding(p)
               PROVE  ip[tgt[p]] \notin loaded
    BY DEF NoInheritedRoute
  <2> USE DEF Turns
  <2>1. pc[p] # "idle" /\ pc[p] # "uplink" /\ op[p] = "create"
    BY DEF Holding, OpFits, Creating
  <2>2. \A q \in Handlers : q # p => pc[q] = "idle"
    BY <2>1, OthersIdle
  <2>3. \A q \in Handlers : pc[q] # "uplink" /\ ~ Owes(q)
    BY <2>1, <2>2 DEF Owes, Holding
  <2>4. loaded = Want
    BY <2>3 DEF RoutesInv, Routing
  <2>5. Want \subseteq {ip[c] : c \in InDb}
    BY DEF Want
  <2>6. ip[tgt[p]] \notin {ip[c] : c \in InDb}
    BY DEF IInv, HeldIsFree
  <2> QED BY <2>4, <2>5, <2>6
<1> QED BY <1>1, TurnsHold, PTL

\* Whenever no handler runs and nothing failed, the running XRay has the
\* rules the rows ask for.
THEOREM RoutesSettle == OrderlySpec => []RoutesSettled
<1>1. Turns => RoutesSettled
  BY DEF Turns, RoutesInv, RoutesSettled, Routing, Owes
<1> QED BY <1>1, TurnsHold, PTL
=============================================================================
