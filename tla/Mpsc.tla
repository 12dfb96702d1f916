-------------------------------- MODULE Mpsc --------------------------------
(***************************************************************************)
(* The intrusive queue with many producers and one consumer of             *)
(* core/thr-mpsc.h, down to the 'next' fields and with nodes that are used *)
(* again as soon as the consumer has freed them.  The consumer drains the  *)
(* queue or pops nodes one at a time.                                      *)
(***************************************************************************)
EXTENDS Integers, Sequences, FiniteSets

CONSTANTS Producers, Nodes,
          Stub,    \* &q->head, the stub
          NULL

VARIABLES tail,    \* q->tail
          next,    \* the 'next' field of every node and of the stub
          free,    \* the nodes nobody uses
          ppc,     \* each producer's place in mpsc_queue_push
          pnode,   \* its 'n' there
          pprev,   \* its 'prev' there
          cpc,     \* the consumer's place
          h,       \* its 'it->h', or 'head' in mpsc_queue_pop
          block    \* its 'block' in mpsc_queue_pop

pvars == <<ppc, pnode, pprev>>
vars == <<tail, next, free, pvars, cpc, h, block>>

\* mpsc_queue_init
Init ==
  /\ tail = Stub
  /\ next = [n \in Nodes \cup {Stub} |-> NULL]
  /\ free = Nodes
  /\ ppc = [p \in Producers |-> "idle"]
  /\ pnode = [p \in Producers |-> NULL]
  /\ pprev = [p \in Producers |-> NULL]
  /\ cpc = "idle"
  /\ h = NULL
  /\ block = FALSE

-----------------------------------------------------------------------------
(* mpsc_queue_push *)

\* Clear n->next and exchange the tail.
PushExchange(p) ==
  /\ ppc[p] = "idle"
  /\ \E n \in free :
        /\ free' = free \ {n}
        /\ next' = [next EXCEPT ![n] = NULL]
        /\ pnode' = [pnode EXCEPT ![p] = n]
        /\ pprev' = [pprev EXCEPT ![p] = tail]
        /\ tail' = n
  /\ ppc' = [ppc EXCEPT ![p] = "link"]
  /\ UNCHANGED <<cpc, h, block>>

PushLink(p) ==
  /\ ppc[p] = "link"
  /\ next' = [next EXCEPT ![pprev[p]] = pnode[p]]
  /\ ppc' = [ppc EXCEPT ![p] = "idle"]
  /\ pnode' = [pnode EXCEPT ![p] = NULL]
  /\ pprev' = [pprev EXCEPT ![p] = NULL]
  /\ UNCHANGED <<tail, free, cpc, h, block>>

mpsc_queue_push(p) == PushExchange(p) \/ PushLink(p)

-----------------------------------------------------------------------------
(* mpsc_queue_drain_start, _fast and _end *)

mpsc_queue_looks_empty == next[Stub] = NULL

\* Whoever drains has been told that the queue is not empty.
DrainStart ==
  /\ cpc = "idle"
  /\ ~mpsc_queue_looks_empty
  /\ h' = next[Stub]
  /\ next' = [next EXCEPT ![Stub] = NULL]
  /\ cpc' = "fast"
  /\ UNCHANGED <<tail, free, pvars, block>>

\* doit processes and frees all nodes but the last, which the caller
\* processes and keeps for mpsc_queue_drain_end.
DrainFast ==
  /\ cpc = "fast"
  /\ IF next[h] # NULL
       THEN h' = next[h] /\ free' = free \cup {h} /\ UNCHANGED cpc
       ELSE cpc' = "end" /\ UNCHANGED <<h, free>>
  /\ UNCHANGED <<tail, next, pvars, block>>

DrainEndLoad ==
  /\ cpc = "end"
  /\ cpc' = IF h = tail THEN "end_cas" ELSE "end_spin"
  /\ UNCHANGED <<tail, next, free, pvars, h, block>>

DrainEndCas ==
  /\ cpc = "end_cas"
  /\ IF tail = h
       THEN tail' = Stub /\ free' = free \cup {h} /\ cpc' = "idle"
       ELSE cpc' = "end_spin" /\ UNCHANGED <<tail, free>>
  /\ UNCHANGED <<next, pvars, h, block>>

DrainEndSpin ==
  /\ cpc = "end_spin"
  /\ next[h] # NULL
  /\ h' = next[h]
  /\ free' = free \cup {h}
  /\ cpc' = "fast"
  /\ UNCHANGED <<tail, next, pvars, block>>

mpsc_queue_drain ==
  \/ DrainStart \/ DrainFast \/ DrainEndLoad \/ DrainEndCas \/ DrainEndSpin

-----------------------------------------------------------------------------
(* mpsc_queue_pop and mpsc_queue_pop_slow; a popped node is freed at once *)

PopCall ==
  /\ cpc = "idle"
  /\ h' = next[Stub]
  /\ block' \in BOOLEAN
  /\ cpc' = IF mpsc_queue_looks_empty THEN "none" ELSE "pop"
  /\ UNCHANGED <<tail, next, free, pvars>>

\* NULL is returned.
PopNone ==
  /\ cpc = "none"
  /\ cpc' = "idle"
  /\ UNCHANGED <<tail, next, free, pvars, h, block>>

\* head has a next node, which is the head of the queue from now on.
Advance ==
  /\ next' = [next EXCEPT ![Stub] = next[h]]
  /\ free' = free \cup {h}
  /\ cpc' = "idle"

PopNext ==
  /\ cpc = "pop"
  /\ IF next[h] # NULL THEN Advance
                       ELSE cpc' = "slow" /\ UNCHANGED <<next, free>>
  /\ UNCHANGED <<tail, pvars, h, block>>

\* Mutant of SlowLoad: the stub's 'next' is cleared after the exchange only.
SlowLoadMut ==
  /\ cpc = "slow"
  /\ cpc' = IF h = tail THEN "slow_cas" ELSE "slow_next"
  /\ UNCHANGED <<tail, next, free, pvars, h, block>>

\* Is head the last node?  Then clear the stub before the compare-and-swap.
SlowLoad ==
  /\ cpc = "slow"
  /\ IF h = tail
       THEN cpc' = "slow_cas" /\ next' = [next EXCEPT ![Stub] = NULL]
       ELSE cpc' = "slow_next" /\ UNCHANGED next
  /\ UNCHANGED <<tail, free, pvars, h, block>>

SlowCas ==
  /\ cpc = "slow_cas"
  /\ IF tail = h
       THEN tail' = Stub /\ free' = free \cup {h} /\ cpc' = "idle"
       ELSE cpc' = "slow_restore" /\ UNCHANGED <<tail, free>>
  /\ UNCHANGED <<next, pvars, h, block>>

\* A push came in between: head is the first node again.
SlowRestore ==
  /\ cpc = "slow_restore"
  /\ next' = [next EXCEPT ![Stub] = h]
  /\ cpc' = "slow_next"
  /\ UNCHANGED <<tail, free, pvars, h, block>>

\* A push is half done: wait for it, or pop nothing.
SlowNext ==
  /\ cpc = "slow_next"
  /\ \/ next[h] # NULL /\ Advance
     \/ next[h] = NULL /\ ~block /\ cpc' = "none" /\ UNCHANGED <<next, free>>
  /\ UNCHANGED <<tail, pvars, h, block>>

mpsc_queue_pop ==
  \/ PopCall \/ PopNone \/ PopNext \/ SlowLoad \/ SlowCas \/ SlowRestore
  \/ SlowNext

-----------------------------------------------------------------------------
Consumer == mpsc_queue_drain \/ mpsc_queue_pop

Next == Consumer \/ \E p \in Producers : mpsc_queue_push(p)

Spec == Init /\ [][Next]_vars

\* A push that is begun ends, and the consumer consumes.
Fairness ==
  /\ \A p \in Producers : WF_vars(PushLink(p))
  /\ WF_vars(Consumer)

-----------------------------------------------------------------------------
(* Properties *)

\* A push that is between its two steps after node n.
Linking(n) == {p \in Producers : ppc[p] = "link" /\ pprev[p] = n}

\* No push, however late it is, links its node to one that the consumer has
\* freed, and at most one push links to a given node.
LinksToLiveNode ==
  \A p \in Producers : ppc[p] = "link" =>
     pprev[p] \notin free /\ pnode[p] \notin free /\ Linking(pprev[p]) = {p}

\* mpsc_queue_pop returns NULL, and mpsc_queue_looks_empty says yes between
\* operations, only when nothing is in the queue or a push is half done.
EmptyOrLinking ==
  /\ cpc = "idle" /\ mpsc_queue_looks_empty =>
        tail = Stub \/ Linking(Stub) # {}
  /\ cpc = "none" /\ h # NULL => tail # h

\* The node after n, once the push that is half done has linked it.
Succ(n) ==
  IF next[n] # NULL THEN next[n]
  ELSE IF Linking(n) # {} THEN pnode[CHOOSE p \in Linking(n) : TRUE]
  ELSE NULL

\* The first node that has not been consumed, and the nodes from there on.
First ==
  IF cpc \in {"end", "end_cas", "end_spin"} THEN Succ(h)
  ELSE IF cpc \in {"idle", "none"} THEN Succ(Stub)
  ELSE h

Chain ==
  LET N == Cardinality(Nodes)
      node[i \in 0..N] ==
        IF i = 0 THEN First
        ELSE IF node[i - 1] = NULL THEN NULL ELSE Succ(node[i - 1])
  IN  [i \in 1..Cardinality({j \in 0..(N - 1) : node[j] # NULL}) |->
          node[i - 1]]

\* The queue is a FIFO: nodes enter at the exchange of the tail and leave in
\* that order, through a drain as through pops.
Abs == INSTANCE Fifo WITH Node <- Nodes, queue <- Chain
IsFifo == Abs!ASpec

\* Every node pushed is consumed, and its memory can be used again.
Consumed == \A n \in Nodes : (n \notin free) ~> (n \in free)

\* What a queue with one consumer promises.
Delivers == IsFifo /\ [](LinksToLiveNode /\ EmptyOrLinking) /\ Consumed
=============================================================================
