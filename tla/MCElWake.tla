------------------------------ MODULE MCElWake ------------------------------
(* Instances of ElWake for TLC. *)
EXTENDS ElWake
CONSTANTS f1, f2, f3
=============================================================================
