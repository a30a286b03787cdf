---------------------------- MODULE MCMaintenance ----------------------------
(* Small instances of Maintenance for TLC: j1 asks for an update that may  *)
(* end in a reboot, j2 for a reboot, j3 for the same as j1.                *)
EXTENDS Maintenance, TLC

CONSTANTS j1, j2, j3, t1, t2

ActionOf ==
  (j1 :> "update-reboot") @@ (j2 :> "reboot") @@ (j3 :> "update-reboot")

Asked == [j \in Jobs |-> ActionOf[j]]

Case(server, jobs, ticks, reboots, late, faults) ==
  [server |-> server, jobs |-> jobs, ticks |-> ticks, reboots |-> reboots,
   late |-> late, behind |-> FALSE, faults |-> faults]

\* Server B with two actions, and with two jobs that share a trigger.
OnB == {Case("b", {j1, j2}, {t1, t2}, 1, FALSE, {"kill", "crash"}),
        Case("b", {j1, j3}, {t1}, 1, FALSE, {"kill", "crash"})}

\* There too, deadlines that strike while a helper is still at work.
LateOnB == Case("b", {j1, j2}, {t1}, 0, TRUE, {})

\* Server A with ticks that take turns ...
OnA == {Case("a", {j1, j2}, {t1}, 1, FALSE, {"kill"}),
        Case("a", {j1}, {t1}, 1, FALSE, {"kill", "crash"})}

\* ... and with everything that can go wrong.
Wild == Case("a", {j1}, {t1, t2}, 1, TRUE, {"kill", "crash", "ssh"})

\* A job of B behind one of A.
Behind(c) == [c EXCEPT !.behind = TRUE]

\* Ticks that take turns, and nearly everything that can go wrong.
BehindA == {Behind(Case("b", {j1, j2}, {t1}, 1, FALSE, {"kill", "crash"})),
            Behind(Case("b", {j1, j2}, {t1, t2}, 0, TRUE, {"kill", "throw"})),
            Behind(Case("b", {j1}, {t1, t2}, 1, TRUE, {"kill", "crash", "throw"}))}

Everywhere == OnB \cup OnA \cup BehindA \cup {LateOnB, Wild}

\* One job and overlapping ticks are enough to tell its end twice, on A or
\* behind a job of A.
Overlapping ==
  {Case("a", {j1}, {t1, t2}, 0, FALSE, {}),
   Behind(Case("b", {j1}, {t1, t2}, 0, FALSE, {}))}
=============================================================================
