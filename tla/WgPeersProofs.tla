---------------------------- MODULE WgPeersProofs ----------------------------
(***************************************************************************)
(* Theorems about WgPeers for any number of clients, octets and handlers,  *)
(* and whatever faults occur.                                              *)
(***************************************************************************)
EXTENDS WgPeers, SequenceTheorems, TLAPS

\* The mutex chain moves on only when its head leaves, so types and the
\* head's privilege are proved together.
Base == TypeOK /\ MutexHeld

LEMMA TailIsChain ==
  ASSUME NEW S, NEW q \in Seq(S), q # <<>> PROVE Tail(q) \in Seq(S)
OBVIOUS

LEMMA AppendKeepsHead ==
  ASSUME NEW S, NEW q \in Seq(S), NEW x \in S
  PROVE /\ Append(q, x) \in Seq(S) /\ Append(q, x) # <<>>
        /\ q # <<>> => Head(Append(q, x)) = Head(q)
<1>1. Append(q, x) \in Seq(S) /\ Append(q, x) # <<>>
  BY AppendProperties, EmptySeq
<1>2. ASSUME q # <<>> PROVE Head(Append(q, x)) = Head(q)
  <2>1. 1 \in 1..Len(q)
    BY <1>2, EmptySeq
  <2> QED BY <2>1, <1>2, AppendProperties
<1> QED BY <1>1, <1>2

LEMMA ImageIn ==
  ASSUME NEW f, NEW A, NEW T, \A x \in A : f[x] \in T
  PROVE  {f[x] : x \in A} \subseteq T
OBVIOUS

LEMMA BaseInit == Init => Base
BY WgAssumption DEF Init, StartupPc, Base, TypeOK, MutexHeld, Allocating,
       SshWait, Ops

LEMMA BaseNext == Base /\ [Next]_vars => Base'
<1> SUFFICES ASSUME Base, [Next]_vars PROVE Base'
  OBVIOUS
<1> USE WgAssumption DEF Base, TypeOK, MutexHeld, Allocating, SshWait, Ops,
        InDb, Goto, Begin, Finish, serverA, alloc, local
<1>1. ASSUME NEW p \in Handlers, NEW c \in Clients,
            StartCreate(p, c)
     PROVE  Base'
  BY <1>1, AppendKeepsHead DEF StartCreate
<1>2. ASSUME NEW p \in Handlers, NEW c \in Clients,
            NEW o \in {"suspend", "resume", "delete"},
            StartOnRow(p, c, o)
     PROVE  Base'
  BY <1>2 DEF StartOnRow
<1>3. ASSUME NEW p \in Handlers, NEW c \in Clients,
            StartRename(p, c)
     PROVE  Base'
  BY <1>3 DEF StartRename
<1>4. ASSUME NEW p \in Handlers,
            ReadUsed(p)
     PROVE  Base'
  <2>1. used' \in [Handlers -> SUBSET (Octets \cup {None})]
    <3>1. \A c \in Clients : ip[c] \in Octets \cup {None}
      OBVIOUS
    <3>2. InDb \subseteq Clients /\ reserved \subseteq Octets
      OBVIOUS
    <3>3. {ip[c] : c \in InDb} \cup (reserved \ stale)
            \in SUBSET (Octets \cup {None})
      <4>1. {ip[c] : c \in InDb} \subseteq Octets \cup {None}
        <5> HIDE DEF InDb
        <5> QED BY <3>1, <3>2, ImageIn
      <4> QED BY <4>1, <3>2
    <3> QED BY <1>4, <3>3 DEF ReadUsed
  <2> QED BY <1>4, <2>1 DEF ReadUsed
<1>5. ASSUME NEW p \in Handlers, NEW S \in Avoided(p),
            PickIp(p, S)
     PROVE  Base'
  <2>1. PICK o \in Octets : /\ ip' = [ip EXCEPT ![tgt[p]] = o]
                            /\ reserved' = reserved \cup {o}
                            /\ stale' = stale \ {o}
    BY <1>5 DEF PickIp, Free
  <2>2. /\ reserved' \in SUBSET Octets /\ stale' \in SUBSET reserved'
        /\ ip' \in [Clients -> Octets \cup {None}]
    BY <2>1
  <2> QED BY <1>5, <2>2 DEF PickIp
<1>6. ASSUME NEW p \in Handlers,
            NoFreeIp(p)
     PROVE  Base'
  <2>1. ipMutex # <<>> /\ Head(ipMutex) = p
    BY <1>6 DEF NoFreeIp
  <2>2. ipMutex' \in Seq(Handlers)
    BY <1>6, <2>1, TailIsChain DEF NoFreeIp
  <2> QED BY <1>6, <2>1, <2>2 DEF NoFreeIp
<1>7. ASSUME NEW p \in Handlers,
            Insert(p)
     PROVE  Base'
  <2>1. ipMutex # <<>> /\ Head(ipMutex) = p
    BY <1>7 DEF Insert
  <2>2. ipMutex' \in Seq(Handlers)
    BY <1>7, <2>1, TailIsChain DEF Insert
  <2> QED BY <1>7, <2>1, <2>2 DEF Insert
<1>8. ASSUME NEW p \in Handlers,
            InsertConflict(p)
     PROVE  Base'
  <2>1. ipMutex # <<>> /\ Head(ipMutex) = p
    BY <1>8 DEF InsertConflict
  <2>2. ipMutex' \in Seq(Handlers)
    BY <1>8, <2>1, TailIsChain DEF InsertConflict
  <2> QED BY <1>8, <2>1, <2>2 DEF InsertConflict
<1>9. ASSUME NEW p \in Handlers,
            SshFail(p)
     PROVE  Base'
  <2>1. CASE pc[p] \in {"queued", "set", "pub"}
    <3>1. ipMutex # <<>> /\ Head(ipMutex) = p
      BY <1>9, <2>1 DEF SshFail
    <3>2. ipMutex' = Tail(ipMutex)
      BY <1>9, <2>1 DEF SshFail
    <3>3. ipMutex' \in Seq(Handlers)
      BY <3>1, <3>2, TailIsChain
    <3> QED BY <1>9, <2>1, <3>1, <3>2, <3>3 DEF SshFail
  <2>2. CASE pc[p] \notin {"queued", "set", "pub"}
    BY <1>9, <2>2 DEF SshFail
  <2> QED BY <2>1, <2>2
<1>10. ASSUME NEW p \in Handlers,
            AddPeer(p)
     PROVE  Base'
  BY <1>10 DEF AddPeer
<1>11. ASSUME NEW p \in Handlers,
            RemovePeer(p)
     PROVE  Base'
  BY <1>11 DEF RemovePeer, Without
<1>12. ASSUME NEW p \in Handlers,
            RestorePeer(p)
     PROVE  Base'
  BY <1>12 DEF RestorePeer
<1>13. ASSUME NEW p \in Handlers,
            SuspendRow(p)
     PROVE  Base'
  BY <1>13 DEF SuspendRow, SetRow
<1>14. ASSUME NEW p \in Handlers,
            ResumeRow(p)
     PROVE  Base'
  BY <1>14 DEF ResumeRow, SetRow
<1>15. ASSUME NEW p \in Handlers,
            DeleteRow(p)
     PROVE  Base'
  BY <1>15 DEF DeleteRow, SetRow
<1>16. ASSUME NEW p \in Handlers,
            SyncRead(p)
     PROVE  Base'
  BY <1>16 DEF SyncRead
<1>17. ASSUME NEW p \in Handlers,
            SyncWrite(p)
     PROVE  Base'
  BY <1>17 DEF SyncWrite
<1>18. ASSUME NEW p \in Handlers,
            SyncReload(p)
     PROVE  Base'
  BY <1>18 DEF SyncReload, FromConf
<1>19. ASSUME NEW p \in Handlers, NEW c \in Clients,
            SyncDrop(p, c)
     PROVE  Base'
  BY <1>19 DEF SyncDrop, Reloaded, Without
<1>20. ASSUME NEW p \in Handlers,
            SyncDone(p)
     PROVE  Base'
  <2>1. CASE op[p] \in {"create", "delete"}
    BY <1>20, <2>1 DEF SyncDone, Reloaded
  <2>2. CASE op[p] \notin {"create", "delete"}
    BY <1>20, <2>2 DEF SyncDone, Reloaded
  <2> QED BY <2>1, <2>2
<1>21. ASSUME NEW p \in Handlers,
            UplinkDone(p)
     PROVE  Base'
  BY <1>21 DEF UplinkDone
<1>22. ASSUME NEW o \in Octets,
            Expire(o)
     PROVE  Base'
  BY <1>22 DEF Expire
<1>23. CASE Crash
  BY <1>23 DEF Crash, StartupPc
<1>24. CASE UNCHANGED vars
  BY <1>24 DEF vars
<1>25. ASSUME NEW p \in Handlers,
            SyncReloadFails(p)
     PROVE  Base'
  BY <1>25 DEF SyncReloadFails
<1> HIDE DEF Base, TypeOK, MutexHeld, Allocating, SshWait, Ops, InDb, Goto, Begin,
        Finish
<1> QED
  BY <1>1, <1>2, <1>3, <1>4, <1>5, <1>6, <1>7, <1>8, <1>9, <1>10, <1>11,
     <1>12, <1>13, <1>14, <1>15, <1>16, <1>17, <1>18, <1>19, <1>20, <1>21,
     <1>22, <1>23, <1>24, <1>25
     DEF Next, Arrive, Advance, FindFreeIp

(* The variables keep their types: the ground the other proofs stand on.   *)
THEOREM TypeCorrect == Spec => []TypeOK
<1>1. Base => TypeOK
  BY DEF Base
<1> QED BY <1>1, BaseInit, BaseNext, PTL DEF Spec

-----------------------------------------------------------------------------
\* What IInv adds to Base.
Leases ==
  /\ OwnTarget /\ UsedCovers /\ HeldIsFree
  /\ OctetsFinal /\ SnapshotUnique /\ UniqueIps /\ ConfIpsUnique

LEMMA IInvSplit == IInv <=> Base /\ Leases
BY DEF IInv, Base, Leases

LEMMA LeasesInit == Init => Leases
BY DEF Init, StartupPc, Leases, OwnTarget, UsedCovers, HeldIsFree, OctetsFinal,
       SnapshotUnique, UniqueIps, ConfIpsUnique, InDb, Creating, Holding, Settled

LEMMA LeasesNext == Base /\ Base' /\ Leases /\ [Next]_vars => Leases'
<1> SUFFICES ASSUME Base, Base', Leases, [Next]_vars PROVE Leases'
  OBVIOUS
<1> USE WgAssumption
    DEF Base, TypeOK, MutexHeld, Leases, OwnTarget, UsedCovers, HeldIsFree,
        OctetsFinal, SnapshotUnique, UniqueIps, ConfIpsUnique, InDb, Creating,
        Allocating, Holding, Settled, SshWait, Ops, Goto, Begin, Finish,
        serverA, alloc, local
<1>1. ASSUME NEW p \in Handlers, NEW c \in Clients,
            StartCreate(p, c)
     PROVE  Leases'
  BY <1>1 DEF StartCreate
<1>2. ASSUME NEW p \in Handlers, NEW c \in Clients,
            NEW o \in {"suspend", "resume", "delete"},
            StartOnRow(p, c, o)
     PROVE  Leases'
  BY <1>2 DEF StartOnRow
<1>3. ASSUME NEW p \in Handlers, NEW c \in Clients,
            StartRename(p, c)
     PROVE  Leases'
  BY <1>3 DEF StartRename
<1>4. ASSUME NEW p \in Handlers,
            ReadUsed(p)
     PROVE  Leases'
  BY <1>4 DEF ReadUsed
<1>5. ASSUME NEW p \in Handlers, NEW S \in Avoided(p),
            PickIp(p, S)
     PROVE  Leases'
  BY <1>5 DEF PickIp, Avoided, Free
<1>6. ASSUME NEW p \in Handlers,
            NoFreeIp(p)
     PROVE  Leases'
  BY <1>6 DEF NoFreeIp
<1>7. ASSUME NEW p \in Handlers,
            AddPeer(p)
     PROVE  Leases'
  BY <1>7 DEF AddPeer
<1>8. ASSUME NEW p \in Handlers,
            Insert(p)
     PROVE  Leases'
  BY <1>8 DEF Insert
<1>9. ASSUME NEW p \in Handlers,
            InsertConflict(p)
     PROVE  Leases'
  BY <1>9 DEF InsertConflict
<1>10. ASSUME NEW p \in Handlers,
            RemovePeer(p)
     PROVE  Leases'
  BY <1>10 DEF RemovePeer, Without
<1>11. ASSUME NEW p \in Handlers,
            RestorePeer(p)
     PROVE  Leases'
  BY <1>11 DEF RestorePeer
<1>12. ASSUME NEW p \in Handlers,
            SuspendRow(p)
     PROVE  Leases'
  BY <1>12 DEF SuspendRow, SetRow
<1>13. ASSUME NEW p \in Handlers,
            ResumeRow(p)
     PROVE  Leases'
  BY <1>13 DEF ResumeRow, SetRow
<1>14. ASSUME NEW p \in Handlers,
            DeleteRow(p)
     PROVE  Leases'
  BY <1>14 DEF DeleteRow, SetRow
<1>15. ASSUME NEW p \in Handlers,
            SyncRead(p)
     PROVE  Leases'
  BY <1>15 DEF SyncRead
<1>16. ASSUME NEW p \in Handlers,
            SyncWrite(p)
     PROVE  Leases'
  BY <1>16 DEF SyncWrite
<1>17. ASSUME NEW p \in Handlers,
            SyncReload(p)
     PROVE  Leases'
  BY <1>17 DEF SyncReload, FromConf
<1>18. ASSUME NEW p \in Handlers,
            SyncDone(p)
     PROVE  Leases'
  <2>1. /\ row' = row /\ ip' = ip /\ conf' = conf
        /\ Reloaded(p)
    BY <1>18 DEF SyncDone, Reloaded
  <2>2. /\ pc' = [pc EXCEPT ![p] = IF op[p] \in {"create", "delete"}
                                   THEN "uplink" ELSE "idle"]
        /\ tgt' \in {tgt, [tgt EXCEPT ![p] = None]}
        /\ used' \in {used, [used EXCEPT ![p] = {}]}
        /\ desired' \in {desired, [desired EXCEPT ![p] = {}]}
    BY <1>18 DEF SyncDone, Reloaded
  <2>3. OwnTarget' /\ UsedCovers' /\ HeldIsFree'
    BY <2>1, <2>2 DEF Reloaded
  <2>4. \A q \in Handlers :
          /\ desired'[q] \subseteq desired[q]
          /\ Holding(q)' => Holding(q) /\ tgt'[q] = tgt[q]
    BY <2>2
  <2>5. OctetsFinal'
    BY <2>1, <2>4
  <2>6. SnapshotUnique' /\ UniqueIps' /\ ConfIpsUnique'
    BY <2>1, <2>4
  <2> QED BY <2>3, <2>5, <2>6
<1>19. ASSUME NEW p \in Handlers,
            UplinkDone(p)
     PROVE  Leases'
  BY <1>19 DEF UplinkDone
<1>20. ASSUME NEW p \in Handlers,
            SshFail(p)
     PROVE  Leases'
  BY <1>20 DEF SshFail
<1>21. ASSUME NEW p \in Handlers, NEW c \in Clients,
            SyncDrop(p, c)
     PROVE  Leases'
  BY <1>21 DEF SyncDrop, Reloaded, Without
<1>22. ASSUME NEW o \in Octets,
            Expire(o)
     PROVE  Leases'
  BY <1>22 DEF Expire
<1>23. CASE Crash
  BY <1>23 DEF Crash, StartupPc
<1>24. CASE UNCHANGED vars
  BY <1>24 DEF vars
<1>25. ASSUME NEW p \in Handlers,
            SyncReloadFails(p)
     PROVE  Leases'
  BY <1>25 DEF SyncReloadFails
<1> HIDE DEF Base, TypeOK, MutexHeld, Leases, InDb, Goto, Begin, Finish
<1> QED
  BY <1>1, <1>2, <1>3, <1>4, <1>5, <1>6, <1>7, <1>8, <1>9, <1>10, <1>11,
     <1>12, <1>13, <1>14, <1>15, <1>16, <1>17, <1>18, <1>19, <1>20, <1>21,
     <1>22, <1>23, <1>24, <1>25
     DEF Next, Arrive, Advance, FindFreeIp

LEMMA IInvHolds == Spec => []IInv
<1>1. Init => IInv
  BY BaseInit, LeasesInit, IInvSplit
<1>2. IInv /\ [Next]_vars => IInv'
  BY BaseNext, LeasesNext, IInvSplit DEF IInv, Base, Leases
<1> QED BY <1>1, <1>2, PTL DEF Spec

(* No two rows ever share a wg_ip: findFreeIp, the mutex of addClient and  *)
(* the insert that follows it without an await.                            *)
THEOREM AddressesUnique == Spec => []UniqueIps
<1>1. IInv => UniqueIps
  BY DEF IInv
<1> QED BY <1>1, IInvHolds, PTL

(* wg-clients.conf never lists one address for two peers, however the      *)
(* syncs that write it overlap, fail or are cut short.                     *)
THEOREM FileUnique == Spec => []ConfIpsUnique
<1>1. IInv => ConfIpsUnique
  BY DEF IInv
<1> QED BY <1>1, IInvHolds, PTL

(* Neither in the rows nor in the file is an address ever given to two     *)
(* clients, for any number of handlers and whatever fails (addClient and   *)
(* syncPeersFromDb).                                                       *)
THEOREM AddressesNeverShared == Spec => []NoSharedIp
<1>1. UniqueIps /\ ConfIpsUnique => NoSharedIp
  BY DEF NoSharedIp
<1> QED BY <1>1, AddressesUnique, FileUnique, PTL

-----------------------------------------------------------------------------
\* Only the head of the chain, of those in addClient, can return or throw.
LEMMA LeaversAreHeads ==
  ASSUME Base, [Next]_vars, NEW p \in Handlers, pc[p] = "queued", pc'[p] = "idle"
  PROVE  Head(ipMutex) = p \/ Crash
<1> USE DEF Base, TypeOK, Goto, Begin, Finish, SshWait
<1>1. ASSUME NEW q \in Handlers, NEW c \in Clients,
             NEW o \in {"suspend", "resume", "delete"},
             StartCreate(q, c) \/ StartOnRow(q, c, o) \/ StartRename(q, c)
      PROVE  FALSE
  BY <1>1 DEF StartCreate, StartOnRow, StartRename
<1>2. ASSUME NEW q \in Handlers, NEW S \in Avoided(q),
             PickIp(q, S) \/ NoFreeIp(q)
      PROVE  FALSE
  BY <1>2 DEF PickIp, NoFreeIp
<1>3. ASSUME NEW q \in Handlers, NEW c \in Clients, SyncDrop(q, c) PROVE FALSE
  BY <1>3 DEF SyncDrop
<1>4. ASSUME NEW q \in Handlers, ReadUsed(q) \/ AddPeer(q) \/ Insert(q) PROVE FALSE
  BY <1>4 DEF ReadUsed, AddPeer, Insert
<1>5. ASSUME NEW q \in Handlers, SshFail(q) PROVE Head(ipMutex) = p
  BY <1>5 DEF SshFail
<1>6. ASSUME NEW o \in Octets, Expire(o) PROVE FALSE
  BY <1>6 DEF Expire
<1>7. CASE UNCHANGED vars
  BY <1>7 DEF vars
<1>8. ASSUME NEW q \in Handlers,
             \/ RemovePeer(q) \/ RestorePeer(q) \/ SuspendRow(q) \/ ResumeRow(q)
             \/ DeleteRow(q) \/ InsertConflict(q) \/ UplinkDone(q)
             \/ SyncRead(q) \/ SyncWrite(q) \/ SyncReload(q) \/ SyncReloadFails(q)
             \/ SyncDone(q)
      PROVE  FALSE
  BY <1>8 DEF RemovePeer, RestorePeer, SuspendRow, ResumeRow, DeleteRow,
     InsertConflict, UplinkDone, SyncRead, SyncWrite, SyncReload, SyncReloadFails,
     SyncDone, Reloaded
<1> HIDE DEF Base, TypeOK, Goto, Begin, Finish, SshWait
<1> QED BY <1>1, <1>2, <1>3, <1>4, <1>5, <1>6, <1>7, <1>8
        DEF Next, Arrive, Advance, FindFreeIp

(* A failed create never makes another one fail that is queued behind it:  *)
(* the promise that addClient leaves in the chain has its rejection caught. *)
THEOREM QueueNotPoisoned == Spec => NoPoison
<1>1. Base /\ [Next]_vars =>
        [\A p \in Handlers : pc[p] = "queued" /\ pc'[p] = "idle" =>
           Head(ipMutex) = p \/ Crash]_vars
  BY LeaversAreHeads
<1> QED BY <1>1, BaseInit, BaseNext, PTL DEF Spec, NoPoison

-----------------------------------------------------------------------------
(* The refinement of IpLease.                                              *)

\* Every step but PickIp leaves each lease alone or ends it.
Shrinks == \A c \in Clients : LeaseOf'[c] \in {LeaseOf[c], None}

LEMMA ShrinkIsDrop == Shrinks => Lease!Next
<1> SUFFICES ASSUME Shrinks PROVE Lease!Next
  OBVIOUS
<1> DEFINE S == {c \in Clients : LeaseOf'[c] = None}
<1>1. LeaseOf' = [c \in Clients |-> LeaseOf'[c]]
  BY DEF LeaseOf
<1>2. \A c \in Clients : LeaseOf'[c] = IF c \in S THEN None ELSE LeaseOf[c]
  BY DEF Shrinks
<1>3. Lease!Drop(S)
  <2> HIDE DEF S
  <2> QED BY <1>1, <1>2 DEF Lease!Drop
<1> QED BY <1>3 DEF Lease!Next

LEMMA PickIsTake ==
  ASSUME IInv, NEW p \in Handlers, NEW S \in Avoided(p), PickIp(p, S)
  PROVE  Lease!Next
<1> USE DEF IInv, TypeOK, Goto
<1>1. PICK o \in Octets : /\ ip' = [ip EXCEPT ![tgt[p]] = o]
                          /\ o \notin used[p]
  <2>1. used[p] \subseteq S
    BY DEF Avoided
  <2> QED BY <2>1 DEF PickIp, Free
<1>2. /\ tgt[p] \in Clients /\ row[tgt[p]] = "pending"
      /\ \A q \in Handlers : q # p => ~ Holding(q)
      /\ ~ Holding(p) /\ InDb' = InDb
      /\ \A q \in Handlers : Holding(q)' <=> q = p
  BY DEF PickIp, OwnTarget, Creating, MutexHeld, Allocating, Holding, InDb
<1>3. LeaseOf = [c \in Clients |-> IF c \in InDb THEN ip[c] ELSE None]
  BY <1>2 DEF LeaseOf
<1>4. LeaseOf' = [LeaseOf EXCEPT ![tgt[p]] = o]
  BY <1>1, <1>2, <1>3 DEF LeaseOf, PickIp, InDb
<1>5. \A d \in Clients : LeaseOf[d] # o
  BY <1>1, <1>3, WgAssumption DEF PickIp, UsedCovers
<1>6. LeaseOf[tgt[p]] = None
  BY <1>2, <1>3 DEF InDb
<1> QED BY <1>1, <1>2, <1>4, <1>5, <1>6 DEF Lease!Next, Lease!Take

LEMMA OthersShrink ==
  ASSUME IInv, [Next]_vars,
         \A p \in Handlers : \A S \in Avoided(p) : ~ PickIp(p, S)
  PROVE  Shrinks
<1> USE WgAssumption
    DEF IInv, TypeOK, OwnTarget, Creating, Shrinks, LeaseOf, InDb,
        Holding, SshWait, Goto, Begin, Finish, serverA, alloc, local
<1>1. ASSUME NEW p \in Handlers, NEW c \in Clients,
            StartCreate(p, c)
     PROVE  Shrinks
  BY <1>1 DEF StartCreate
<1>2. ASSUME NEW p \in Handlers, NEW c \in Clients,
            NEW o \in {"suspend", "resume", "delete"},
            StartOnRow(p, c, o)
     PROVE  Shrinks
  BY <1>2 DEF StartOnRow
<1>3. ASSUME NEW p \in Handlers, NEW c \in Clients,
            StartRename(p, c)
     PROVE  Shrinks
  BY <1>3 DEF StartRename
<1>4. ASSUME NEW p \in Handlers,
            ReadUsed(p)
     PROVE  Shrinks
  BY <1>4 DEF ReadUsed
<1>5. ASSUME NEW p \in Handlers,
            NoFreeIp(p)
     PROVE  Shrinks
  BY <1>5 DEF NoFreeIp
<1>6. ASSUME NEW p \in Handlers,
            AddPeer(p)
     PROVE  Shrinks
  BY <1>6 DEF AddPeer
<1>7. ASSUME NEW p \in Handlers,
            Insert(p)
     PROVE  Shrinks
  BY <1>7 DEF Insert
<1>8. ASSUME NEW p \in Handlers,
            InsertConflict(p)
     PROVE  Shrinks
  BY <1>8 DEF InsertConflict
<1>9. ASSUME NEW p \in Handlers,
            RemovePeer(p)
     PROVE  Shrinks
  BY <1>9 DEF RemovePeer, Without
<1>10. ASSUME NEW p \in Handlers,
            RestorePeer(p)
     PROVE  Shrinks
  BY <1>10 DEF RestorePeer
<1>11. ASSUME NEW p \in Handlers,
            SuspendRow(p)
     PROVE  Shrinks
  BY <1>11 DEF SuspendRow, SetRow
<1>12. ASSUME NEW p \in Handlers,
            ResumeRow(p)
     PROVE  Shrinks
  BY <1>12 DEF ResumeRow, SetRow
<1>13. ASSUME NEW p \in Handlers,
            DeleteRow(p)
     PROVE  Shrinks
  BY <1>13 DEF DeleteRow, SetRow
<1>14. ASSUME NEW p \in Handlers,
            SyncRead(p)
     PROVE  Shrinks
  BY <1>14 DEF SyncRead
<1>15. ASSUME NEW p \in Handlers,
            SyncWrite(p)
     PROVE  Shrinks
  BY <1>15 DEF SyncWrite
<1>16. ASSUME NEW p \in Handlers,
            SyncReload(p)
     PROVE  Shrinks
  BY <1>16 DEF SyncReload, FromConf
<1>17. ASSUME NEW p \in Handlers,
            SyncDone(p)
     PROVE  Shrinks
  BY <1>17 DEF SyncDone, Reloaded
<1>18. ASSUME NEW p \in Handlers,
            UplinkDone(p)
     PROVE  Shrinks
  BY <1>18 DEF UplinkDone
<1>19. ASSUME NEW p \in Handlers,
            SshFail(p)
     PROVE  Shrinks
  BY <1>19 DEF SshFail
<1>20. ASSUME NEW p \in Handlers, NEW c \in Clients,
            SyncDrop(p, c)
     PROVE  Shrinks
  BY <1>20 DEF SyncDrop, Reloaded, Without
<1>21. ASSUME NEW o \in Octets,
            Expire(o)
     PROVE  Shrinks
  BY <1>21 DEF Expire
<1>22. CASE Crash
  BY <1>22 DEF Crash, StartupPc
<1>23. CASE UNCHANGED vars
  BY <1>23 DEF vars
<1>24. ASSUME NEW p \in Handlers,
            SyncReloadFails(p)
     PROVE  Shrinks
  BY <1>24 DEF SyncReloadFails
<1> HIDE DEF IInv, TypeOK, OwnTarget, Creating, Shrinks, LeaseOf, InDb, Holding,
        SshWait, Goto, Begin, Finish, serverA, alloc, local
<1> QED
  BY <1>1, <1>2, <1>3, <1>4, <1>5, <1>6, <1>7, <1>8, <1>9, <1>10, <1>11,
     <1>12, <1>13, <1>14, <1>15, <1>16, <1>17, <1>18, <1>19, <1>20, <1>21,
     <1>22, <1>23, <1>24
     DEF Next, Arrive, Advance, FindFreeIp

(* Address allocation implements the abstract lease: an octet goes to a    *)
(* client only while no row and no running create holds it, and comes back *)
(* when the row is deleted, the create fails or the bot dies.              *)
THEOREM LeaseRefined == Spec => LeaseSpec
<1>1. Init => Lease!Init
  BY DEF Init, StartupPc, Lease!Init, LeaseOf, InDb, Holding
<1>2. IInv /\ [Next]_vars => [Lease!Next]_LeaseOf
  BY ShrinkIsDrop, PickIsTake, OthersShrink
<1> QED BY <1>1, <1>2, IInvHolds, PTL DEF Spec, LeaseSpec, Lease!Spec
=============================================================================
