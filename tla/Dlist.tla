-------------------------------- MODULE Dlist --------------------------------
(***************************************************************************)
(* The doubly linked lists of container-dlist.h.  l maps each node to its  *)
(* links, in a record with nxt and prv; the head of a list is a node.      *)
(***************************************************************************)
EXTENDS Naturals, FiniteSets

\* dlist_init
Self(n) == [nxt |-> n, prv |-> n]

\* __dlist_remove, __dlist_add, __dlist_splice2
Unlink(l, p, n) == [[l EXCEPT ![n].prv = p] EXCEPT ![p].nxt = n]
Link(l, e, p, n) ==
  [[[l EXCEPT ![n].prv = e] EXCEPT ![e] = [nxt |-> n, prv |-> p]]
     EXCEPT ![p].nxt = e]
Splice2(l, p, n, first, last) ==
  [[[[l EXCEPT ![first].prv = p] EXCEPT ![p].nxt = first]
      EXCEPT ![last].nxt = n] EXCEPT ![n].prv = last]

\* dlist_add, dlist_remove, dlist_move
AddTo(l, head, e) == Link(l, e, head, l[head].nxt)
DlistRemove(l, e) == [Unlink(l, l[e].prv, l[e].nxt) EXCEPT ![e] = Self(e)]
Move(l, head, e) == AddTo(Unlink(l, l[e].prv, l[e].nxt), head, e)

\* What dlist_for_each meets, cut after as many steps as there are nodes.
Walk(l, head) ==
  LET at[i \in 0..Cardinality(DOMAIN l)] ==
        IF i = 0 THEN l[head].nxt
        ELSE IF at[i - 1] = head THEN head ELSE l[at[i - 1]].nxt
      Steps == {i \in DOMAIN at : at[i] # head}
  IN [i \in 1..Cardinality(Steps) |-> at[i - 1]]
=============================================================================
