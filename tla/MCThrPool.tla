----------------------------- MODULE MCThrPool -----------------------------
(* Instances of ThrPool for TLC. *)
EXTENDS ThrPool
CONSTANTS a, b, c
\* b is a child of a, and c of b; or only b of a.
Chain == [j \in {a, b, c} |-> CASE j = a -> {b} [] j = b -> {c} [] OTHER -> {}]
Pair == [j \in {a, b, c} |-> IF j = a THEN {b} ELSE {}]
\* The jobs wait one for the other, threads expire, or the pool is shut down.
Situations ==
  {[kids |-> Pair, waits |-> TRUE, els |-> 1, expire |-> TRUE, shut |-> FALSE],
   [kids |-> Chain, waits |-> TRUE, els |-> 0, expire |-> FALSE, shut |-> FALSE],
   [kids |-> Chain, waits |-> FALSE, els |-> 1, expire |-> FALSE, shut |-> TRUE]}
=============================================================================
