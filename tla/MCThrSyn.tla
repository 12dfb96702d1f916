------------------------------ MODULE MCThrSyn ------------------------------
(* Instances of ThrSyn for TLC. *)
EXTENDS ThrSyn, TLC
CONSTANTS j1, j2, j3, w1, w2
=============================================================================
