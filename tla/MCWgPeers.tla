------------------------------ MODULE MCWgPeers ------------------------------
(* Small instances of WgPeers for TLC.  No symmetry: a liveness property is *)
(* checked along.                                                          *)
EXTENDS WgPeers
=============================================================================
