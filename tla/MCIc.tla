-------------------------------- MODULE MCIc --------------------------------
(* Instances of Ic for TLC. *)
EXTENDS Ic
CONSTANTS m1
\* A query that may be cancelled and one that may also time out.
TwoKinds == {[async |-> FALSE, timeout |-> FALSE], [async |-> FALSE, timeout |-> TRUE]}
=============================================================================
