----------------------------- MODULE MCThrQueue -----------------------------
(* Instances of ThrQueue for TLC: callers make calls, spares run what is    *)
(* scheduled.                                                               *)
EXTENDS ThrQueue
=============================================================================
