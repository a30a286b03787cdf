------------------------------- MODULE WgPeers -------------------------------
(***************************************************************************)
(* The WireGuard side of the control plane in cascade mode: the rows of    *)
(* the clients table on Server B, the peers of Server A (the wg-clients    *)
(* file and the kernel's live peer table), and the handlers of             *)
(* client.service.ts and wg.service.ts that move them.                     *)
(*                                                                         *)
(* The bot is one JavaScript thread: a handler runs from one await to the  *)
(* next without interruption, and every await is a place where another     *)
(* handler (bot callback, API request, worker tick, startup) may run.  A   *)
(* handler is a slot p of Handlers; pc[p] names the await it is suspended  *)
(* at.  An SSH command takes effect on Server A in one step and is         *)
(* answered in a later one, so it may also fail after it took effect.      *)
(*                                                                         *)
(* A client identity is a row id together with the key pair generated for  *)
(* it, so an identity is created at most once.                             *)
(***************************************************************************)
EXTENDS Naturals, Sequences, FiniteSets

CONSTANTS
  Clients,      \* client identities
  Octets,       \* host octets WG_IP_START..WG_IP_END
  Handlers,     \* slots for concurrently running handlers
  Boot,         \* the slot of the startup sync of the peers
  RouteBoot,    \* the slot of the startup sync of Server A's routing
  None,
  Faults        \* which of "ssh", "crash", "name", "reload" may happen

ASSUME WgAssumption ==
  /\ Octets \subseteq Nat
  /\ Boot \in Handlers
  /\ RouteBoot # Boot
  /\ None \notin Octets
  /\ None \notin Clients
  /\ Faults \subseteq {"ssh", "crash", "name", "reload"}

VARIABLES
  row,          \* status: "new", "pending", "active", "suspended", "gone"
  ip,           \* wg_ip: a handler's local until the insert, then the column
  conf,         \* clients with a peer block in wg-clients.conf on Server A
  route,        \* live peer table of Server A: octet -> peer that owns it
  ipMutex,      \* the promise chain of addClient, oldest first
  reserved,     \* octets in the reserved map
  stale,        \* those reserved for more than RESERVATION_TTL_MS
  pc, op, tgt,  \* where handler p is, what it does, to which client
  used,         \* findFreeIp's local set
  desired,      \* syncPeersFromDb's local list of peers
  drop          \* its suspended peers not yet removed again

serverA == <<conf, route>>
alloc   == <<ipMutex, reserved, stale>>
local   == <<used, desired, drop>>
vars    == <<row, ip, serverA, alloc, pc, op, tgt, local>>

InDb == {c \in Clients : row[c] \in {"active", "suspended"}}

\* Handlers that suspend at an SSH command.
SshWait == {"set", "pub", "write", "reload", "drop", "blind", "live", "db"}

\* Handlers between the head of the mutex chain and the insert.
Allocating(p) == pc[p] \in {"conf", "set", "pub"}

Holding(p) == pc[p] \in {"set", "pub"}

Ops == {"none", "create", "suspend", "resume", "delete", "sync"}

TypeOK ==
  /\ row \in [Clients -> {"new", "pending", "active", "suspended", "gone"}]
  /\ ip \in [Clients -> Octets \cup {None}]
  /\ conf \in SUBSET Clients
  /\ route \in [Octets -> Clients \cup {None}]
  /\ ipMutex \in Seq(Handlers)
  /\ reserved \in SUBSET Octets
  /\ stale \in SUBSET reserved
  /\ pc \in [Handlers ->
               {"idle", "queued", "conf", "snap", "uplink"} \cup SshWait]
  /\ op \in [Handlers -> Ops]
  /\ tgt \in [Handlers -> Clients \cup {None}]
  /\ used \in [Handlers -> SUBSET (Octets \cup {None})]
  /\ desired \in [Handlers -> SUBSET Clients]
  /\ drop \in [Handlers -> SUBSET Clients]

\* index.ts starts two independent syncs with Server A.
StartupPc(p) ==
  CASE p = Boot -> "snap" [] p = RouteBoot -> "uplink" [] OTHER -> "idle"

Init ==
  /\ row = [c \in Clients |-> "new"]
  /\ ip = [c \in Clients |-> None]
  /\ conf = {}
  /\ route = [o \in Octets |-> None]
  /\ ipMutex = <<>>
  /\ reserved = {} /\ stale = {}
  /\ pc = [p \in Handlers |-> StartupPc(p)]
  /\ op = [p \in Handlers |-> IF p = Boot THEN "sync" ELSE "none"]
  /\ tgt = [p \in Handlers |-> None]
  /\ used = [p \in Handlers |-> {}]
  /\ desired = [p \in Handlers |-> {}]
  /\ drop = [p \in Handlers |-> {}]

-----------------------------------------------------------------------------
(* Control of a handler.                                                   *)

Goto(p, from, to) == pc[p] = from /\ pc' = [pc EXCEPT ![p] = to]

Begin(p, o, c, at) ==
  /\ pc[p] = "idle"
  /\ pc' = [pc EXCEPT ![p] = at]
  /\ op' = [op EXCEPT ![p] = o]
  /\ tgt' = [tgt EXCEPT ![p] = c]

\* Return or throw: the handler's locals are gone.
Finish(p) ==
  /\ pc' = [pc EXCEPT ![p] = "idle"]
  /\ op' = [op EXCEPT ![p] = "none"]
  /\ tgt' = [tgt EXCEPT ![p] = None]
  /\ used' = [used EXCEPT ![p] = {}]
  /\ desired' = [desired EXCEPT ![p] = {}]
  /\ drop' = [drop EXCEPT ![p] = {}]

Free(S) == {o \in Octets : o \notin S}

\* wg set <iface> peer <key of c> remove
Without(c) == [o \in Octets |-> IF route[o] = c THEN None ELSE route[o]]

\* wg syncconf: the peer table becomes what the file says.
FromConf ==
  [o \in Octets |-> IF \E c \in conf : ip[c] = o
                    THEN CHOOSE c \in conf : ip[c] = o
                    ELSE None]

-----------------------------------------------------------------------------
(* createClient and wgService.addClient                                    *)

StartCreate(p, c) ==
  /\ row[c] = "new"
  /\ Begin(p, "create", c, "queued")
  /\ row' = [row EXCEPT ![c] = "pending"]
  /\ ipMutex' = Append(ipMutex, p)
  /\ UNCHANGED <<ip, serverA, reserved, stale, local>>

\* Mutant: the rows are not consulted (the behaviour before desired state).
ReadUsed_NoRows(p) ==
  /\ ipMutex # <<>> /\ Head(ipMutex) = p
  /\ Goto(p, "queued", "conf")
  /\ used' = [used EXCEPT ![p] = reserved \ stale]
  /\ reserved' = reserved \ stale
  /\ stale' = {}
  /\ UNCHANGED <<row, ip, serverA, ipMutex, op, tgt, desired, drop>>

\* The keys are there; findFreeIp reads the rows and the reservations,
\* sweeping the expired ones, before it asks Server A for the file.
ReadUsed(p) ==
  /\ ipMutex # <<>> /\ Head(ipMutex) = p
  /\ Goto(p, "queued", "conf")
  /\ used' = [used EXCEPT ![p] = {ip[c] : c \in InDb} \cup (reserved \ stale)]
  /\ reserved' = reserved \ stale
  /\ stale' = {}
  /\ UNCHANGED <<row, ip, serverA, ipMutex, op, tgt, desired, drop>>

\* Mutant: the file alone decides, as it did before desired state.
Avoided_FileOnly(p) == {{ip[c] : c \in conf}}

\* The addresses findFreeIp avoids once the file was read, or could not be.
Avoided(p) ==
  IF "ssh" \in Faults THEN {used[p], used[p] \cup {ip[c] : c \in conf}}
                      ELSE {used[p] \cup {ip[c] : c \in conf}}

\* The lowest octet outside S is reserved.
PickIp(p, S) ==
  /\ Goto(p, "conf", "set")
  /\ \E o \in Free(S) :
       /\ \A x \in Free(S) : o <= x
       /\ ip' = [ip EXCEPT ![tgt[p]] = o]
       /\ reserved' = reserved \cup {o}
       /\ stale' = stale \ {o}
  /\ used' = [used EXCEPT ![p] = {}]
  /\ UNCHANGED <<row, serverA, ipMutex, op, tgt, desired, drop>>

\* "No free IPs": addClient rejects, the chain moves on.
NoFreeIp(p) ==
  /\ pc[p] = "conf"
  /\ Finish(p)
  /\ row' = [row EXCEPT ![tgt[p]] = "gone"]
  /\ ipMutex' = Tail(ipMutex)
  /\ UNCHANGED <<ip, serverA, reserved, stale>>

FindFreeIp(p) ==
  \E S \in Avoided(p) : IF Free(S) # {} THEN PickIp(p, S) ELSE NoFreeIp(p)

\* wg set of the new peer; an octet moves to the peer that claims it last.
AddPeer(p) ==
  /\ Goto(p, "set", "pub")
  /\ route' = [route EXCEPT ![ip[tgt[p]]] = tgt[p]]
  /\ UNCHANGED <<row, ip, conf, alloc, op, tgt, local>>

\* Server A's public key arrives: addClient resolves, the mutex passes on,
\* and createClient runs to its insert with no await in between.
Insert(p) ==
  /\ Goto(p, "pub", "snap")
  /\ row' = [row EXCEPT ![tgt[p]] = "active"]
  /\ ipMutex' = Tail(ipMutex)
  /\ UNCHANGED <<ip, serverA, reserved, stale, op, tgt, local>>

\* The same, but another row took the name meanwhile: UNIQUE(name) throws
\* and the peer just added stays on Server A without a row.
InsertConflict(p) ==
  /\ "name" \in Faults
  /\ pc[p] = "pub"
  /\ InDb # {}
  /\ Finish(p)
  /\ row' = [row EXCEPT ![tgt[p]] = "gone"]
  /\ ipMutex' = Tail(ipMutex)
  /\ UNCHANGED <<ip, serverA, reserved, stale>>

\* More than RESERVATION_TTL_MS passed since octet o was reserved.
Expire(o) ==
  /\ o \in reserved \ stale
  /\ stale' = stale \cup {o}
  /\ UNCHANGED <<row, ip, serverA, ipMutex, reserved, pc, op, tgt, local>>

-----------------------------------------------------------------------------
(* suspendClient, resumeClient and deleteClient: Server A first, the row   *)
(* only once Server A answered.                                            *)

\* The caller looked the row up; nothing checks is_active.
StartOnRow(p, c, o) ==
  /\ c \in InDb
  /\ Begin(p, o, c, "live")
  /\ UNCHANGED <<row, ip, serverA, alloc, local>>

RemovePeer(p) ==
  /\ op[p] \in {"suspend", "delete"}
  /\ Goto(p, "live", "db")
  /\ route' = Without(tgt[p])
  /\ UNCHANGED <<row, ip, conf, alloc, op, tgt, local>>

RestorePeer(p) ==
  /\ op[p] = "resume"
  /\ Goto(p, "live", "db")
  /\ route' = [route EXCEPT ![ip[tgt[p]]] = tgt[p]]
  /\ UNCHANGED <<row, ip, conf, alloc, op, tgt, local>>

\* UPDATE ... WHERE id = ?: nothing happens when the row is gone.
SetRow(p, s) ==
  row' = [row EXCEPT ![tgt[p]] = IF @ \in {"active", "suspended"} THEN s ELSE @]

SuspendRow(p) ==
  /\ pc[p] = "db" /\ op[p] = "suspend"
  /\ SetRow(p, "suspended")
  /\ Finish(p)
  /\ UNCHANGED <<ip, serverA, alloc>>

ResumeRow(p) ==
  /\ pc[p] = "db" /\ op[p] = "resume"
  /\ SetRow(p, "active")
  /\ Finish(p)
  /\ UNCHANGED <<ip, serverA, alloc>>

DeleteRow(p) ==
  /\ op[p] = "delete"
  /\ Goto(p, "db", "snap")
  /\ SetRow(p, "gone")
  /\ UNCHANGED <<ip, serverA, alloc, op, tgt, local>>

\* renameClient writes the name, which is not modelled, and syncs.
StartRename(p, c) ==
  /\ c \in InDb
  /\ Begin(p, "sync", c, "snap")
  /\ UNCHANGED <<row, ip, serverA, alloc, local>>

-----------------------------------------------------------------------------
(* syncPeersFromDb.  A client of type both awaits the XRay restart between *)
(* its row's write and this call, so the snapshot is a step of its own.    *)

\* Mutant: the sweep list keeps octets whose reservation was dropped.
SyncRead_KeepStale(p) ==
  /\ Goto(p, "snap", "write")
  /\ desired' = [desired EXCEPT ![p] = InDb]
  /\ drop' = [drop EXCEPT ![p] = {c \in InDb : row[c] = "suspended"}]
  /\ reserved' = reserved \ {ip[c] : c \in InDb}
  /\ UNCHANGED <<row, ip, serverA, ipMutex, stale, op, tgt, used>>

\* Mutant: the suspended peers are not removed after the reload.
SyncRead_NoDrop(p) ==
  /\ Goto(p, "snap", "write")
  /\ desired' = [desired EXCEPT ![p] = InDb]
  /\ reserved' = reserved \ {ip[c] : c \in InDb}
  /\ stale' = stale \ {ip[c] : c \in InDb}
  /\ UNCHANGED <<row, ip, serverA, ipMutex, op, tgt, used, drop>>

\* buildDesiredPeers, suspended rows included, and the reservations that
\* became redundant.
SyncRead(p) ==
  /\ Goto(p, "snap", "write")
  /\ desired' = [desired EXCEPT ![p] = InDb]
  /\ drop' = [drop EXCEPT ![p] = {c \in InDb : row[c] = "suspended"}]
  /\ reserved' = reserved \ {ip[c] : c \in InDb}
  /\ stale' = stale \ {ip[c] : c \in InDb}
  /\ UNCHANGED <<row, ip, serverA, ipMutex, op, tgt, used>>

\* The new file is moved into place.
SyncWrite(p) ==
  /\ Goto(p, "write", "reload")
  /\ conf' = desired[p]
  /\ desired' = [desired EXCEPT ![p] = {}]
  /\ UNCHANGED <<row, ip, route, alloc, op, tgt, used, drop>>

\* After the reload command, whether it did its work ("drop") or not ("blind").
Reloaded(p) == pc[p] \in {"drop", "blind"}

\* RELOAD_CMD loads whatever file is in place when it runs.
SyncReload(p) ==
  /\ Goto(p, "reload", "drop")
  /\ route' = FromConf
  /\ UNCHANGED <<row, ip, conf, alloc, op, tgt, local>>

\* Its strip or syncconf fails and nothing is loaded: the status of the
\* command is that of the rm at its end, so the sync goes on all the same.
SyncReloadFails(p) ==
  /\ "reload" \in Faults
  /\ Goto(p, "reload", "blind")
  /\ UNCHANGED <<row, ip, serverA, alloc, op, tgt, local>>

\* One exec per suspended peer of the snapshot.
SyncDrop(p, c) ==
  /\ Reloaded(p)
  /\ c \in drop[p]
  /\ route' = Without(c)
  /\ drop' = [drop EXCEPT ![p] = @ \ {c}]
  /\ UNCHANGED <<row, ip, conf, alloc, pc, op, tgt, used, desired>>

\* create and delete go on to Server A's routing sync, the others return.
SyncDone(p) ==
  /\ Reloaded(p) /\ drop[p] = {}
  /\ IF op[p] \in {"create", "delete"}
     THEN /\ pc' = [pc EXCEPT ![p] = "uplink"]
          /\ UNCHANGED <<op, tgt, local>>
     ELSE Finish(p)
  /\ UNCHANGED <<row, ip, serverA, alloc>>

\* syncRoutingAndRestart never throws.
UplinkDone(p) ==
  /\ pc[p] = "uplink"
  /\ Finish(p)
  /\ UNCHANGED <<row, ip, serverA, alloc>>

-----------------------------------------------------------------------------
(* Failures.                                                               *)

\* Those that fail with p when the chain is left rejected: everyone queued.
Poisoned(p) ==
  {p} \cup IF pc[p] \in {"queued", "set", "pub"} THEN {q \in Handlers : pc[q] = "queued"}
          ELSE {}

\* Mutant: no run.catch: the promise of a failed create rejects all that were
\* chained to it, at once and without a command of theirs.
SshFail_Poison(p) ==
  /\ "ssh" \in Faults
  /\ \/ pc[p] \in SshWait
     \/ pc[p] = "queued" /\ ipMutex # <<>> /\ Head(ipMutex) = p
  /\ pc' = [q \in Handlers |-> IF q \in Poisoned(p) THEN "idle" ELSE pc[q]]
  /\ op' = [q \in Handlers |-> IF q \in Poisoned(p) THEN "none" ELSE op[q]]
  /\ tgt' = [q \in Handlers |-> IF q \in Poisoned(p) THEN None ELSE tgt[q]]
  /\ used' = [used EXCEPT ![p] = {}]
  /\ desired' = [desired EXCEPT ![p] = {}]
  /\ drop' = [drop EXCEPT ![p] = {}]
  /\ IF pc[p] \in {"queued", "set", "pub"}
     THEN /\ row' = [c \in Clients |-> IF row[c] = "pending" THEN "gone" ELSE row[c]]
          /\ ipMutex' = <<>>
     ELSE UNCHANGED <<row, ipMutex>>
  /\ UNCHANGED <<ip, serverA, reserved, stale>>

\* An SSH command of p is refused, times out or loses its answer: the
\* handler throws.  A failure inside addClient also moves the chain on.
SshFail(p) ==
  /\ "ssh" \in Faults
  /\ \/ pc[p] \in SshWait
     \/ pc[p] = "queued" /\ ipMutex # <<>> /\ Head(ipMutex) = p
  /\ Finish(p)
  /\ IF pc[p] \in {"queued", "set", "pub"}
     THEN /\ row' = [row EXCEPT ![tgt[p]] = "gone"]
          /\ ipMutex' = Tail(ipMutex)
     ELSE UNCHANGED <<row, ipMutex>>
  /\ UNCHANGED <<ip, serverA, reserved, stale>>

\* The process dies and is started again by systemd: memory is lost, the
\* rows and Server A stay, and startup begins a sync.
Crash ==
  /\ "crash" \in Faults
  /\ row' = [c \in Clients |-> IF row[c] = "pending" THEN "gone" ELSE row[c]]
  /\ ipMutex' = <<>> /\ reserved' = {} /\ stale' = {}
  /\ pc' = [p \in Handlers |-> StartupPc(p)]
  /\ op' = [p \in Handlers |-> IF p = Boot THEN "sync" ELSE "none"]
  /\ tgt' = [p \in Handlers |-> None]
  /\ used' = [p \in Handlers |-> {}]
  /\ desired' = [p \in Handlers |-> {}]
  /\ drop' = [p \in Handlers |-> {}]
  /\ UNCHANGED <<ip, serverA>>

-----------------------------------------------------------------------------
Arrive(p) ==
  \E c \in Clients :
    \/ StartCreate(p, c)
    \/ \E o \in {"suspend", "resume", "delete"} : StartOnRow(p, c, o)
    \/ StartRename(p, c)

\* What a handler that has started does next, failures aside.
Advance(p) ==
  \/ ReadUsed(p) \/ FindFreeIp(p) \/ AddPeer(p) \/ Insert(p)
  \/ RemovePeer(p) \/ RestorePeer(p)
  \/ SuspendRow(p) \/ ResumeRow(p) \/ DeleteRow(p)
  \/ SyncRead(p) \/ SyncWrite(p) \/ SyncReload(p)
  \/ \E c \in Clients : SyncDrop(p, c)
  \/ SyncDone(p) \/ UplinkDone(p)

Next ==
  \/ \E p \in Handlers :
       \/ Arrive(p) \/ Advance(p)
       \/ InsertConflict(p) \/ SyncReloadFails(p) \/ SshFail(p)
  \/ \E o \in Octets : Expire(o)
  \/ Crash

Spec == Init /\ [][Next]_vars

(* Every await settles: an exec is answered or rejected by its timeout.    *)
FairSpec == Spec /\ \A p \in Handlers : WF_vars(Advance(p) \/ SshFail(p))

-----------------------------------------------------------------------------
(* Safety.                                                                 *)

(* No two rows of the clients table carry the same wg_ip, though the table *)
(* has no UNIQUE constraint on it (findFreeIp, addClient).                 *)
UniqueIps ==
  \A c, d \in InDb : c # d => ip[c] # ip[d]

(* Whatever syncs overlap, crash or fail, the file on Server A never lists *)
(* one address for two peers (renderConf over one snapshot of the rows).   *)
ConfIpsUnique ==
  \A c, d \in conf : c # d => ip[c] # ip[d]

(* Creates, syncs, failures and crashes of any handlers together never     *)
(* give one address to two clients, neither in the rows nor in the file    *)
(* that Server A loads (the table has no UNIQUE constraint on wg_ip).      *)
NoSharedIp == UniqueIps /\ ConfIpsUnique

\* The lease each client holds: its row's, or the one its create picked.
LeaseOf ==
  [c \in Clients |->
     IF c \in InDb \/ \E p \in Handlers : Holding(p) /\ tgt[p] = c
     THEN ip[c] ELSE None]

Lease == INSTANCE IpLease WITH lease <- LeaseOf

(* Allocation implements the abstract lease: an octet is handed out only   *)
(* while nobody holds it and is given back by delete, failure or crash.    *)
LeaseSpec == Lease!Spec

\* Server A agrees with the rows.
InSync ==
  /\ conf = InDb
  /\ \A o \in Octets :
       route[o] = IF \E c \in Clients : row[c] = "active" /\ ip[c] = o
                  THEN CHOOSE c \in Clients : row[c] = "active" /\ ip[c] = o
                  ELSE None

\* The sync of p is at its end.
SyncOver(p) == Reloaded(p) /\ drop[p] = {}

(* "Any drift on A heals on the next startup or mutation" (wg.service.ts,  *)
(* header): whatever failed before, a sync that ran to its end leaves the  *)
(* file and the live peers of Server A exactly as the rows say, and if its *)
(* reload failed unnoticed still the file right and no suspended peer live. *)
SyncHeals ==
  \A p \in Handlers : SyncOver(p) =>
    /\ pc[p] = "drop" => InSync
    /\ conf = InDb
    /\ \A o \in Octets, c \in Clients : row[c] = "suspended" => route[o] # c

-----------------------------------------------------------------------------
(* The strengthening that makes UniqueIps and ConfIpsUnique inductive.     *)

Creating(p) == pc[p] \in {"queued", "conf", "set", "pub"}

Settled(c) == row[c] \notin {"new", "pending"}

\* The mutex covers everything from the read of the rows to the insert.
MutexHeld ==
  \A p \in Handlers : Allocating(p) => ipMutex # <<>> /\ Head(ipMutex) = p

\* Each running create has a client of its own, without a row so far.
OwnTarget ==
  \A p \in Handlers : Creating(p) =>
    /\ tgt[p] \in Clients
    /\ row[tgt[p]] = "pending"
    /\ \A q \in Handlers : q # p /\ Creating(q) => tgt[q] # tgt[p]

\* What findFreeIp read is still complete when it picks.
UsedCovers ==
  \A p \in Handlers : pc[p] = "conf" => \A c \in InDb : ip[c] \in used[p]

\* The picked octet stays free of rows until the insert.
HeldIsFree ==
  \A p \in Handlers : Holding(p) => \A c \in InDb : ip[c] # ip[tgt[p]]

\* Rows have an octet; snapshots, and the file written from one, name only
\* clients that got past their insert or failed: their octets are final.
OctetsFinal ==
  /\ \A c \in InDb : ip[c] \in Octets
  /\ \A p \in Handlers : Holding(p) => ip[tgt[p]] \in Octets
  /\ \A c \in conf : Settled(c)
  /\ \A p \in Handlers : \A c \in desired[p] : Settled(c)

\* One snapshot never holds an address twice.
SnapshotUnique ==
  \A p \in Handlers : \A c, d \in desired[p] : c # d => ip[c] # ip[d]

IInv ==
  /\ TypeOK /\ MutexHeld /\ OwnTarget /\ UsedCovers /\ HeldIsFree
  /\ OctetsFinal /\ SnapshotUnique /\ UniqueIps /\ ConfIpsUnique

-----------------------------------------------------------------------------
(* The address of an active client is never routed to somebody else's key. *)
NoStolenIp ==
  \A c \in Clients : row[c] = "active" => route[ip[c]] \in {c, None}

(* "Live state = active peers only" (wg.service.ts): once no handler is    *)
(* running, the live peers are those of the active clients.                *)
LiveIsActive ==
  (\A p \in Handlers : pc[p] = "idle") =>
    {route[o] : o \in Octets} \ {None} = {c \in Clients : row[c] = "active"}

-----------------------------------------------------------------------------
(* Liveness.                                                               *)

(* "Without this, one rejection would poison every subsequent allocation"  *)
(* (addClient's run.catch): whatever became of the creates before it, one  *)
(* that waits for the mutex fails at its head or with the process only.    *)
NoPoison ==
  [][\A p \in Handlers : pc[p] = "queued" /\ pc'[p] = "idle" =>
       Head(ipMutex) = p \/ Crash]_vars

(* No create fails because of one before it, and each gets its turn at the *)
(* mutex in the end, for every await of its holder settles.                *)
MutexProgress ==
  /\ \A p \in Handlers : pc[p] = "queued" ~> pc[p] # "queued"
  /\ NoPoison
=============================================================================
