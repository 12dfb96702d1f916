------------------------------ MODULE MCElFds -------------------------------
(* Instances of ElFds for TLC. *)
EXTENDS ElFds
CONSTANTS e1, e2
=============================================================================
