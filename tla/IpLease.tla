------------------------------- MODULE IpLease -------------------------------
(***************************************************************************)
(* What address allocation promises to the rest of the system: an octet of *)
(* the tunnel network is leased to at most one client at a time.  The      *)
(* module knows nothing of mutexes, rows or configuration files; WgPeers   *)
(* is shown to implement it.                                               *)
(***************************************************************************)
CONSTANTS Clients, Octets, None

VARIABLE lease      \* lease[c]: the octet client c holds, or None

Init == lease = [c \in Clients |-> None]

\* A client that holds nothing is given an octet nobody holds.
Take(c, o) ==
  /\ lease[c] = None
  /\ \A d \in Clients : lease[d] # o
  /\ lease' = [lease EXCEPT ![c] = o]

\* One client, or several at a crash, give their octet back.
Drop(S) == lease' = [c \in Clients |-> IF c \in S THEN None ELSE lease[c]]

Next ==
  \/ \E c \in Clients, o \in Octets : Take(c, o)
  \/ \E S \in SUBSET Clients : Drop(S)

Spec == Init /\ [][Next]_lease

=============================================================================
