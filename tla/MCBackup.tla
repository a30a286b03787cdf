------------------------------ MODULE MCBackup ------------------------------
(* A small instance of Backup for TLC: the longest interval that the        *)
(* settings accept, thirty days, in ticks of a day.                         *)
EXTENDS Backup

Monthly == {[enabled |-> TRUE, interval |-> 30, hour |-> 0]}
=============================================================================
