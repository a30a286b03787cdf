------------------------------ MODULE MCCascade ------------------------------
(* Small instances of Cascade for TLC.                                     *)
EXTENDS Cascade, TLC

ClientSymmetry == Permutations(Clients)
=============================================================================
