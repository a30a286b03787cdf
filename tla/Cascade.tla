------------------------------- MODULE Cascade -------------------------------
(***************************************************************************)
(* WgPeers composed with the cascade routing of Server A: one XRay there   *)
(* carries the traffic of every WireGuard client and picks the uplink by   *)
(* source address, from rules that xray-uplink.service.ts rebuilds out of  *)
(* the wg_cascade_transport column.                                        *)
(*                                                                         *)
(* A handler that WgPeers leaves at "uplink" runs syncRoutingAndRestart    *)
(* here; its own position in it is at[p].  Every error in it is swallowed. *)
(***************************************************************************)
EXTENDS WgPeers

CONSTANTS
  BotHy2,       \* wgHy2Available: the bot knows an uplink password
  RelayHy2,     \* Server A's config has the hy2-uplink outbound
  RouteFaults   \* may an SSH command of the routing sync fail

ASSUME CascadeAssumption == {BotHy2, RelayHy2, RouteFaults} \subseteq BOOLEAN

VARIABLES
  via,          \* wg_cascade_transport of each client
  rules,        \* octets with a hy2 rule in Server A's config file
  loaded,       \* octets with a hy2 rule in the XRay that is running
  up,           \* is that XRay running
  at,           \* a handler's position in syncRoutingAndRestart
  seen, plan,   \* its locals: rules read from A, rules to write
  clean         \* history: no command, restart or process has failed yet

routing == <<rules, loaded, up>>
sync    == <<at, seen, plan>>
cvars   == <<vars, via, routing, sync, clean>>

CTypeOK ==
  /\ TypeOK
  /\ via \in [Clients -> {"xray", "hy2"}]
  /\ rules \in SUBSET Octets
  /\ loaded \in SUBSET Octets
  /\ up \in BOOLEAN
  /\ at \in [Handlers -> {"read", "query", "write", "restart", "done"}]
  /\ seen \in [Handlers -> SUBSET Octets]
  /\ plan \in [Handlers -> SUBSET Octets]
  /\ clean \in BOOLEAN

CInit ==
  /\ Init
  /\ via = [c \in Clients |-> "xray"]
  /\ rules = {} /\ loaded = {} /\ up = TRUE
  /\ at = [p \in Handlers |-> "read"]
  /\ seen = [p \in Handlers |-> {}]
  /\ plan = [p \in Handlers |-> {}]
  /\ clean = TRUE

\* Mutant: the query also sees clients whose create has not inserted yet.
Want_Pending ==
  IF RelayHy2 THEN {ip[c] : c \in {d \in Clients : via[d] = "hy2"}} ELSE {}

\* getWgHy2RouteClients, active or not; none without the outbound on A.
Want ==
  IF RelayHy2 THEN {ip[c] : c \in {d \in InDb : via[d] = "hy2"}} ELSE {}

-----------------------------------------------------------------------------
(* The transport choice.                                                   *)

\* createClient falls back silently when there is no Hy2 uplink.
Create(p, c, t) ==
  /\ StartCreate(p, c)
  /\ via' = [via EXCEPT ![c] = IF BotHy2 THEN t ELSE "xray"]
  /\ UNCHANGED <<routing, sync, clean>>

\* updateWgTransport refuses instead; the column first, then the sync.
SetTransport(p, c, t) ==
  /\ t = "hy2" => BotHy2
  /\ c \in InDb
  /\ Begin(p, "none", c, "uplink")
  /\ via' = [via EXCEPT ![c] = t]
  /\ UNCHANGED <<row, ip, serverA, alloc, local, routing, sync, clean>>

-----------------------------------------------------------------------------
(* syncRoutingAndRestart.                                                  *)

Routing(p, s) == pc[p] = "uplink" /\ at[p] = s

\* The handler is through with the sync, with or without an error.
Leave(p) ==
  /\ UplinkDone(p)
  /\ at' = [at EXCEPT ![p] = "read"]
  /\ seen' = [seen EXCEPT ![p] = {}]
  /\ plan' = [plan EXCEPT ![p] = {}]

\* cat of the config, as it is on A when the command runs.
RouteRead(p) ==
  /\ Routing(p, "read")
  /\ at' = [at EXCEPT ![p] = "query"]
  /\ seen' = [seen EXCEPT ![p] = rules]
  /\ UNCHANGED <<vars, via, routing, plan, clean>>

\* Mutant: only missing rules count as a difference.
RouteSame_Grow(p) ==
  /\ Routing(p, "query")
  /\ Want \subseteq seen[p]
  /\ Leave(p)
  /\ UNCHANGED <<via, routing, clean>>

\* The answer is there; only now are the rows read.  Equal rules: no write
\* and no restart.
RouteSame(p) ==
  /\ Routing(p, "query")
  /\ seen[p] = Want
  /\ Leave(p)
  /\ UNCHANGED <<via, routing, clean>>

RoutePlan(p) ==
  /\ Routing(p, "query")
  /\ seen[p] # Want
  /\ at' = [at EXCEPT ![p] = "write"]
  /\ plan' = [plan EXCEPT ![p] = Want]
  /\ seen' = [seen EXCEPT ![p] = {}]
  /\ UNCHANGED <<vars, via, routing, clean>>

\* Mutant: the new file is written but XRay is not restarted.
RouteWrite_NoRestart(p) ==
  /\ Routing(p, "write")
  /\ rules' = plan[p]
  /\ at' = [at EXCEPT ![p] = "done"]
  /\ plan' = [plan EXCEPT ![p] = {}]
  /\ UNCHANGED <<vars, via, loaded, up, seen, clean>>

\* One remote command: move the file into place ...
RouteWrite(p) ==
  /\ Routing(p, "write")
  /\ rules' = plan[p]
  /\ at' = [at EXCEPT ![p] = "restart"]
  /\ plan' = [plan EXCEPT ![p] = {}]
  /\ UNCHANGED <<vars, via, loaded, up, seen, clean>>

\* ... && systemctl restart xray, which loads the file it finds.
RouteRestart(p) ==
  /\ Routing(p, "restart")
  /\ loaded' = rules
  /\ up' = TRUE
  /\ at' = [at EXCEPT ![p] = "done"]
  /\ UNCHANGED <<vars, via, rules, seen, plan, clean>>

RouteDone(p) ==
  /\ Routing(p, "done")
  /\ Leave(p)
  /\ UNCHANGED <<via, routing, clean>>

\* Server A is unreachable, or the answer is lost: logged, not thrown.
RouteFail(p) ==
  /\ RouteFaults
  /\ pc[p] = "uplink"
  /\ Leave(p)
  /\ clean' = FALSE
  /\ UNCHANGED <<via, routing>>

\* The restart itself fails (systemd's start limit): the old process is
\* gone, the file is in place, the error is logged.
RestartFail(p) ==
  /\ RouteFaults
  /\ Routing(p, "restart")
  /\ loaded' = {}
  /\ up' = FALSE
  /\ Leave(p)
  /\ clean' = FALSE
  /\ UNCHANGED <<via, rules>>

-----------------------------------------------------------------------------
\* The other steps of WgPeers, which leave the routing alone.
PeerStep(p) ==
  /\ \/ \E c \in Clients :
          \/ \E o \in {"suspend", "resume", "delete"} : StartOnRow(p, c, o)
          \/ StartRename(p, c)
          \/ SyncDrop(p, c)
     \/ ReadUsed(p) \/ FindFreeIp(p) \/ AddPeer(p) \/ Insert(p)
     \/ RemovePeer(p) \/ RestorePeer(p)
     \/ SuspendRow(p) \/ ResumeRow(p) \/ DeleteRow(p)
     \/ SyncRead(p) \/ SyncWrite(p) \/ SyncReload(p) \/ SyncReloadFails(p)
     \/ SyncDone(p)
     \/ InsertConflict(p)
  /\ UNCHANGED <<via, routing, sync, clean>>

PeerFail(p) ==
  /\ SshFail(p)
  /\ clean' = FALSE
  /\ UNCHANGED <<via, routing, sync>>

\* What a handler has sent to A is carried out or not; its locals are gone.
CCrash ==
  /\ Crash
  /\ at' = [p \in Handlers |-> "read"]
  /\ seen' = [p \in Handlers |-> {}]
  /\ plan' = [p \in Handlers |-> {}]
  /\ clean' = FALSE
  /\ UNCHANGED <<via, routing>>

CNext ==
  \/ \E p \in Handlers :
       \/ PeerStep(p) \/ PeerFail(p)
       \/ \E c \in Clients, t \in {"xray", "hy2"} :
            Create(p, c, t) \/ SetTransport(p, c, t)
       \/ RouteRead(p) \/ RouteSame(p) \/ RoutePlan(p) \/ RouteWrite(p)
       \/ RouteRestart(p) \/ RouteDone(p) \/ RouteFail(p) \/ RestartFail(p)
  \/ \E o \in Octets : Expire(o) /\ UNCHANGED <<via, routing, sync, clean>>
  \/ CCrash

CSpec == CInit /\ [][CNext]_cvars

\* Handlers take turns, but for a sync of the peers alone (startup, rename)
\* beside one of the routing alone (startup, a transport choice).
Orderly ==
  \A p, q \in Handlers :
    p # q /\ pc[p] # "idle" /\ pc[q] # "idle" => {op[p], op[q]} = {"none", "sync"}

OrderlySpec == CInit /\ [][CNext /\ Orderly']_cvars

-----------------------------------------------------------------------------
(* "Drop the peer block, then the client's A-routing rule, before its WG   *)
(* IP can be reused" (deleteClient): as long as nothing failed, an address *)
(* is never given to a new client while Server A still routes it by its    *)
(* previous owner's choice.                                                *)
NoInheritedRoute ==
  clean => \A p \in Handlers : Holding(p) => ip[tgt[p]] \notin loaded

(* "Re-applies each WG client's transport choice" (index.ts): whenever no  *)
(* handler runs and nothing failed, the running XRay has the rules the     *)
(* rows ask for, though no two of its syncs look at more than the file.    *)
RoutesSettled ==
  clean /\ (\A p \in Handlers : pc[p] = "idle") =>
    up /\ rules = Want /\ loaded = Want

(* "Server A XRay routing already in sync - no restart": when the file     *)
(* needs no change, the XRay that runs needs none either.                  *)
InSyncMeansLoaded ==
  \A p \in Handlers :
    Routing(p, "query") /\ seen[p] = Want => up /\ loaded = Want
=============================================================================
