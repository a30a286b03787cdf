---------------------------- MODULE MCSuspension ----------------------------
(* Small instances of Suspension for TLC: client 1 has a WireGuard peer,    *)
(* client 2 is one of XRay's.                                               *)
EXTENDS Suspension

CONSTANTS q1, t1, a1, o1

Case(clients, slots, inTurn, about, struck) ==
  [clients |-> clients, slots |-> slots, inTurn |-> inTurn, about |-> about,
   faults |-> struck]

\* One client of either kind, every program and every reason.
InTurn == {Case({1}, Slots, TRUE, {"month", "expiry", "burst"}, {"ssh"}),
           Case({2}, Slots, TRUE, {"month", "expiry", "burst"}, {"crash"})}

\* Two clients that one run of the quota worker goes through while the
\* operator works on them ...
TwoClients == Case({1, 2}, {q1, o1}, FALSE, {}, {"ssh"})

\* ... and one with all that overlaps.
OneClient == {Case({1}, {q1, t1, o1}, FALSE, {"expiry"}, {"ssh", "crash"}),
              Case({2}, {q1, a1, o1}, FALSE, {"month", "burst"}, {"crash"}),
              Case({1}, {q1, o1}, FALSE, {"month"}, {"ssh"})}

Everything == InTurn \cup {TwoClients} \cup OneClient

\* The least that lets an overlap undo a suspension.
Overlap == {Case({1}, {q1, o1}, FALSE, {}, {})}
=============================================================================
