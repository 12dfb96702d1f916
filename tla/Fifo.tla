-------------------------------- MODULE Fifo --------------------------------
(***************************************************************************)
(* What the lock-free queues promise: nodes leave in the order they came   *)
(* in, none is lost and none is seen twice.                                *)
(***************************************************************************)
EXTENDS Sequences

CONSTANT Node
VARIABLE queue

AInit == queue = <<>>

APut(n) == queue' = Append(queue, n)

AGet ==
  /\ queue # <<>>
  /\ queue' = Tail(queue)

ANext == AGet \/ \E n \in Node : APut(n)

ASpec == AInit /\ [][ANext]_queue
=============================================================================
