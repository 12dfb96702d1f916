-------------------------------- MODULE Qheap --------------------------------
(***************************************************************************)
(* The heap of container-qheap.h: a tree of fanout 4 in a vector, kept     *)
(* ordered by moving nodes up or down.  Positions start at 1 here.         *)
(***************************************************************************)
EXTENDS Naturals, Sequences, FiniteSets

CONSTANTS Nodes, Keys,
          Fanout             \* QHP_FANOUT

VARIABLES heap,              \* the vector of nodes
          keyof              \* what nodes are compared by

Parent(p) == ((p - 2) \div Fanout) + 1
Children(h, p) == (Fanout * (p - 1) + 2 .. Fanout * p + 1) \cap DOMAIN h
Swap(h, p, q) == [h EXCEPT ![p] = h[q], ![q] = h[p]]

\* The first of the children with the least key.
LeastChild(h, key, p) ==
  CHOOSE c \in Children(h, p) : \A d \in Children(h, p) :
    key[h[c]] < key[h[d]] \/ (key[h[c]] = key[h[d]] /\ c <= d)

RECURSIVE qhp_down(_, _, _)
qhp_down(h, key, p) ==
  IF Children(h, p) = {} THEN h
  ELSE LET c == LeastChild(h, key, p)
       IN IF key[h[c]] < key[h[p]] THEN qhp_down(Swap(h, p, c), key, c) ELSE h

RECURSIVE qhp_up(_, _, _)
qhp_up(h, key, p) ==
  IF p = 1 \/ key[h[p]] >= key[h[Parent(p)]] THEN h
  ELSE qhp_up(Swap(h, p, Parent(p)), key, Parent(p))

\* Mutant of qhp_fixup: only ever moves the node down.
qhp_fixup_mut(h, key, p) == qhp_down(h, key, p)

qhp_fixup(h, key, p) ==
  IF p > 1 /\ key[h[Parent(p)]] >= key[h[p]] THEN qhp_up(h, key, p)
  ELSE qhp_down(h, key, p)

qhp_insert(h, key, n) == qhp_up(Append(h, n), key, Len(h) + 1)

\* The last node takes the place of the one removed.
qhp_remove(h, key, p) ==
  LET short == SubSeq(h, 1, Len(h) - 1)
  IN IF p = Len(h) THEN short
     ELSE qhp_fixup([short EXCEPT ![p] = h[Len(h)]], key, p)

PosOf(h, n) == CHOOSE p \in DOMAIN h : h[p] = n
Held == {heap[p] : p \in DOMAIN heap}

-----------------------------------------------------------------------------
(* Any use of a heap *)

Init == heap = <<>> /\ keyof \in [Nodes -> {0}]

Insert(n, k) ==
  /\ n \notin Held
  /\ keyof' = [keyof EXCEPT ![n] = k]
  /\ heap' = qhp_insert(heap, keyof', n)

Remove(n) ==
  /\ n \in Held
  /\ heap' = qhp_remove(heap, keyof, PosOf(heap, n))
  /\ keyof' = [keyof EXCEPT ![n] = 0]

Change(n, k) ==
  /\ n \in Held
  /\ keyof' = [keyof EXCEPT ![n] = k]
  /\ heap' = qhp_fixup(heap, keyof', PosOf(heap, n))

Next ==
  \E n \in Nodes : Remove(n) \/ \E k \in Keys : Insert(n, k) \/ Change(n, k)

\* "the label of each parent node is smaller than any of its children ones"
\* (el.blk, timer events): no node is below one with a larger key, and a node is
\* held once.
HeapOrder ==
  /\ \A p \in 2..Len(heap) : keyof[heap[Parent(p)]] <= keyof[heap[p]]
  /\ Cardinality(Held) = Len(heap)
=============================================================================
