------------------------------ MODULE JobLedger ------------------------------
(***************************************************************************)
(* What maintenance_jobs promises its readers (the API, the Mini App, the  *)
(* alert worker): per server one job at a time, whose status only moves    *)
(* forward and is final once it is an outcome.                             *)
(***************************************************************************)
EXTENDS Naturals

CONSTANT Jobs

VARIABLE status

Rank(s) ==
  CASE s = "queued" -> 1 [] s = "running" -> 2 [] s = "rebooting" -> 3

Live    == {"queued", "running", "rebooting"}
Outcome == {"succeeded", "failed", "unknown"}

Init == status = [j \in Jobs |-> "none"]

Request(j) ==
  /\ status[j] = "none"
  /\ \A k \in Jobs : status[k] \notin Live
  /\ status' = [status EXCEPT ![j] = "queued"]

Advance(j) ==
  /\ status[j] \in Live
  /\ \E s \in Live : /\ Rank(s) > Rank(status[j])
                     /\ status' = [status EXCEPT ![j] = s]

Finish(j) ==
  /\ status[j] \in Live
  /\ \E s \in Outcome : status' = [status EXCEPT ![j] = s]

Next == \E j \in Jobs : Request(j) \/ Advance(j) \/ Finish(j)

Spec == Init /\ [][Next]_status
=============================================================================
