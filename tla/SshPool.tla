------------------------------ MODULE SshPool ------------------------------
(***************************************************************************)
(* The one SSH connection to Server A that every service shares            *)
(* (services/ssh.ts): callers queue while it is being made, the events of  *)
(* any connection, an old one's too, act on the shared state, and a closed *)
(* connection is made again after a delay.                                 *)
(*                                                                         *)
(* Of ssh2 (external) it is assumed that an attempt ends in "ready" or     *)
(* "error" (readyTimeout), and that "close" follows the end of either.     *)
(***************************************************************************)
EXTENDS Integers, FiniteSets

CONSTANTS
  Requests,   \* callers of exec and ping
  MaxDials    \* bound: connections made in a behaviour

ASSUME SshAssumption == MaxDials \in Nat \ {0}

VARIABLES
  client,      \* the shared connection, 0 for none
  connecting,
  poolClosed,  \* closed
  conns,       \* state of every connection made
  dials,       \* connections made
  queue,       \* pendingQueue: the callers that wait
  calls,       \* what each caller waits for
  reconnects   \* reconnect timers that are armed

sshVars == <<client, connecting, poolClosed, conns, dials, queue, calls, reconnects>>

Conn == 1..MaxDials

SshTypeOK ==
  /\ client \in 0..MaxDials /\ connecting \in BOOLEAN /\ poolClosed \in BOOLEAN
  /\ conns \in [Conn -> {"none", "dialing", "up", "ended", "closed"}]
  /\ dials \in 0..MaxDials /\ queue \subseteq Requests
  /\ calls \in [Requests -> {"none", "connection", "answer"}]
  /\ reconnects \in 0..MaxDials

-----------------------------------------------------------------------------

\* A connection is begun; or the key file cannot be read, and the executor
\* throws with connecting already set and no event to come that resets it.
Dial(readable) ==
  /\ connecting' = TRUE
  /\ IF readable
     THEN /\ dials < MaxDials
          /\ dials' = dials + 1
          /\ conns' = [conns EXCEPT ![dials + 1] = "dialing"]
     ELSE UNCHANGED <<dials, conns>>

\* exec or ping: connect(), which answers at once with a shared connection,
\* and else queues the caller and dials when nobody has.
Call(r) ==
  /\ calls[r] = "none"
  /\ \/ /\ client # 0
        /\ calls' = [calls EXCEPT ![r] = "answer"]
        /\ UNCHANGED <<connecting, conns, dials, queue>>
     \/ /\ client = 0 /\ connecting
        /\ calls' = [calls EXCEPT ![r] = "connection"] /\ queue' = queue \cup {r}
        /\ UNCHANGED <<connecting, conns, dials>>
     \/ /\ client = 0 /\ ~connecting
        /\ \E readable \in BOOLEAN :
             /\ Dial(readable)
             /\ IF readable
                THEN calls' = [calls EXCEPT ![r] = "connection"] /\ queue' = queue \cup {r}
                ELSE UNCHANGED <<calls, queue>>
  /\ UNCHANGED <<client, poolClosed, reconnects>>

\* The command ends, its channel breaks, or its 30 seconds are over.
Answered(r) ==
  /\ calls[r] = "answer"
  /\ calls' = [calls EXCEPT ![r] = "none"]
  /\ UNCHANGED <<client, connecting, poolClosed, conns, dials, queue, reconnects>>

\* "ready": the callers go on, over this connection.
Ready(c) ==
  /\ conns[c] = "dialing"
  /\ conns' = [conns EXCEPT ![c] = "up"]
  /\ client' = c /\ connecting' = FALSE
  /\ queue' = {}
  /\ calls' = [r \in Requests |-> IF r \in queue THEN "answer" ELSE calls[r]]
  /\ UNCHANGED <<poolClosed, dials, reconnects>>

\* Mutant: the callers that wait are left in the queue.
Failed_KeepsQueue(c) ==
  /\ conns[c] \in {"dialing", "up"}
  /\ conns' = [conns EXCEPT ![c] = "ended"]
  /\ client' = 0 /\ connecting' = FALSE
  /\ UNCHANGED <<poolClosed, dials, queue, calls, reconnects>>

\* "error", of an attempt or of a connection that was up.
Failed(c) ==
  /\ conns[c] \in {"dialing", "up"}
  /\ conns' = [conns EXCEPT ![c] = "ended"]
  /\ client' = 0 /\ connecting' = FALSE
  /\ queue' = {}
  /\ calls' = [r \in Requests |-> IF r \in queue THEN "none" ELSE calls[r]]
  /\ UNCHANGED <<poolClosed, dials, reconnects>>

\* "close", of whichever connection.
Closed(c) ==
  /\ conns[c] \in {"up", "ended"}
  /\ conns' = [conns EXCEPT ![c] = "closed"]
  /\ client' = 0
  /\ reconnects' = IF poolClosed THEN reconnects ELSE reconnects + 1
  /\ UNCHANGED <<connecting, poolClosed, dials, queue, calls>>

\* Five seconds later: connect(), for nobody in particular.
Reconnect ==
  /\ reconnects > 0 /\ reconnects' = reconnects - 1
  /\ IF poolClosed \/ client # 0 \/ connecting
     THEN UNCHANGED <<connecting, conns, dials>>
     ELSE \E readable \in BOOLEAN : Dial(readable)
  /\ UNCHANGED <<client, poolClosed, queue, calls>>

\* The teardown's close().
ClosePool ==
  /\ ~poolClosed /\ poolClosed' = TRUE
  /\ client' = 0
  /\ conns' = IF client = 0 THEN conns ELSE [conns EXCEPT ![client] = "ended"]
  /\ UNCHANGED <<connecting, dials, queue, calls, reconnects>>

SshInit ==
  /\ client = 0 /\ connecting = FALSE /\ poolClosed = FALSE
  /\ conns = [c \in Conn |-> "none"] /\ dials = 0
  /\ queue = {} /\ calls = [r \in Requests |-> "none"] /\ reconnects = 0

SshNext ==
  \/ \E r \in Requests : Call(r) \/ Answered(r)
  \/ \E c \in Conn : Ready(c) \/ Failed(c) \/ Closed(c)
  \/ Reconnect \/ ClosePool

SshSpec == SshInit /\ [][SshNext]_sshVars

-----------------------------------------------------------------------------

\* connecting is set and no attempt is under way that could reset it.
Stuck == connecting /\ \A c \in Conn : conns[c] # "dialing"

\* A caller that queued is always answered, with a connection or an error,
\* however the events of old and new connections interleave; the one exception
\* is a key that could not be read (ssh.ts:76), after which connecting stays.
EveryCallerAnswered ==
  \A r \in Requests : calls[r] = "connection" ~> calls[r] # "connection" \/ Stuck
=============================================================================
