----------------------------- MODULE MCThrMain ------------------------------
(* Instances of ThrMain for TLC. *)
EXTENDS ThrMain
CONSTANTS p1, p2
=============================================================================
