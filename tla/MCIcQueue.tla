------------------------------ MODULE MCIcQueue ------------------------------
(* An instance of IcQueue for TLC: five messages are enough for two of high *)
(* priority before, and one of low priority after, those of normal priority. *)
EXTENDS IcQueue
FiveIds == 1..5
=============================================================================
