------------------------------- MODULE MemFifo -------------------------------
(***************************************************************************)
(* The fifo allocator (core/mem-fifo.c): blocks are taken one after the    *)
(* other from the current page; a page lives until its last block is freed *)
(* and one empty page is kept aside.  A deleted pool lives until its last  *)
(* block is freed.                                                         *)
(***************************************************************************)
EXTENDS Naturals, FiniteSets

CONSTANTS Pages,      \* names for pages
          PageSize,   \* units in a page (larger blocks get a page of their own)
          Sizes,      \* sizes of blocks
          Ratio,      \* 8: a page that large replaces an almost full one
          MaxBlocks,  \* bound on the blocks in use
          NULL

VARIABLES page,       \* the pages: size, used_size, used_blocks, last
          current, freepage,
          palive,     \* mfp->alive
          blocks,     \* the blocks in use: page, offset, size
          gone        \* the pool itself is freed

PageRec == [size : Nat, used : Nat, nb : Nat, last : Nat \cup {NULL}]

\* Blocks have units, and NULL is neither a page nor an offset.
FifoConstants ==
  /\ PageSize \in Nat /\ Ratio \in Nat /\ Sizes \subseteq Nat \ {0}
  /\ NULL \notin Pages /\ NULL \notin PageRec /\ NULL \notin Nat

vars == <<page, current, freepage, palive, blocks, gone>>

Fresh(size) == [size |-> size, used |-> 0, nb |-> 0, last |-> NULL]
Mapped == {p \in Pages : page[p] # NULL}      \* mfp->nb_pages is their number
Left(p) == page[p].size - page[p].used

Init ==
  \E p \in Pages :
    /\ page = [q \in Pages |-> IF q = p THEN Fresh(PageSize) ELSE NULL]
    /\ current = p /\ freepage = NULL
    /\ palive = TRUE /\ blocks = {} /\ gone = FALSE

\* mem_page_new in the pages pg: the page, the pages and the page kept aside.
mem_page_new(pg, n) ==
  IF freepage # NULL /\ pg[freepage].size >= n
  THEN {[cur |-> freepage, page |-> pg, aside |-> NULL]}
  ELSE {[cur |-> p, aside |-> freepage,
         page |-> [pg EXCEPT ![p] = Fresh(IF n < PageSize THEN PageSize ELSE n)]] :
          p \in {q \in Pages : pg[q] = NULL}}

\* Mutant of PageFor: resets the current page whether it has blocks or not.
PageForMut(n) ==
  IF Left(current) >= n
  THEN {[cur |-> current, page |-> page, aside |-> freepage]}
  ELSE IF page[current].size >= n
  THEN {[cur |-> current, aside |-> freepage,
         page |-> [page EXCEPT ![current] = Fresh(@.size)]]}
  ELSE mem_page_new(page, n)

\* The page mfp_alloc takes a block of n units from.
PageFor(n) ==
  IF Left(current) >= n
  THEN {[cur |-> current, page |-> page, aside |-> freepage]}
  ELSE IF page[current].nb > 0 THEN mem_page_new(page, n)
  ELSE IF page[current].size >= n
  THEN {[cur |-> current, aside |-> freepage,
         page |-> [page EXCEPT ![current] = Fresh(@.size)]]}
  ELSE mem_page_new([page EXCEPT ![current] = NULL], n)

\* A block of n units taken in the page of r.
Taken(r, n) ==
  LET p == r.page[r.cur]
  IN [page |-> [r.page EXCEPT ![r.cur] =
                  [size |-> p.size, used |-> p.used + n, nb |-> p.nb + 1, last |-> p.used]],
      blk |-> [page |-> r.cur, at |-> p.used, size |-> n]]

\* Mutant of Dropped: the page that is replaced is forgotten when it is empty.
DroppedMut(pg, cur, aside, b) ==
  LET p == b.page
      pg1 == [pg EXCEPT ![p].nb = @ - 1]
      keep == [pg1 EXCEPT ![p] = Fresh(@.size)]
  IN IF pg1[p].nb > 0 \/ p = cur
     THEN [page |-> pg1, cur |-> cur, aside |-> aside]
     ELSE IF aside = NULL
     THEN [page |-> keep, cur |-> cur, aside |-> p]
     ELSE [page |-> keep, cur |-> p, aside |-> aside]

\* mfp_free in a living pool, from the pages pg.
Dropped(pg, cur, aside, b) ==
  LET p == b.page
      pg1 == [pg EXCEPT ![p].nb = @ - 1]
      keep(q) == [pg1 EXCEPT ![q] = Fresh(@.size)]
      drop(q, f) == [f EXCEPT ![q] = NULL]
  IN IF pg1[p].nb > 0 \/ p = cur
     THEN [page |-> pg1, cur |-> cur, aside |-> aside]
     ELSE IF aside = NULL
     THEN [page |-> keep(p), cur |-> cur, aside |-> p]
     ELSE IF pg1[p].size > Ratio * (pg1[cur].size - pg1[cur].used)
     THEN [page |-> IF pg1[cur].nb = 0 THEN drop(cur, keep(p)) ELSE keep(p),
           cur |-> p, aside |-> aside]
     ELSE IF pg1[aside].size >= pg1[p].size
     THEN [page |-> drop(p, pg1), cur |-> cur, aside |-> aside]
     ELSE [page |-> drop(aside, keep(p)), cur |-> cur, aside |-> p]

mfp_alloc(n) ==
  /\ palive /\ Cardinality(blocks) < MaxBlocks
  /\ \E r \in PageFor(n) :
        LET t == Taken(r, n)
        IN /\ page' = t.page /\ current' = r.cur /\ freepage' = r.aside
           /\ blocks' = blocks \cup {t.blk}
  /\ UNCHANGED <<palive, gone>>

\* mfp_free: in a dying pool the page goes with its last block, and the pool
\* with its last page.
mfp_free(b) ==
  /\ ~gone
  /\ blocks' = blocks \ {b}
  /\ IF palive
     THEN LET d == Dropped(page, current, freepage, b)
          IN /\ page' = d.page /\ current' = d.cur /\ freepage' = d.aside
             /\ UNCHANGED gone
     ELSE LET p == page[b.page]
          IN /\ page' = [page EXCEPT ![b.page] =
                           IF p.nb = 1 THEN NULL ELSE [p EXCEPT !.nb = @ - 1]]
             /\ gone' = (p.nb = 1 /\ Mapped = {b.page})
             /\ UNCHANGED <<current, freepage>>
  /\ UNCHANGED palive

\* mfp_realloc to a larger size: the last block of a page grows in place, the
\* others are copied to a new block and freed.
mfp_realloc(b, n) ==
  /\ palive /\ n > b.size
  /\ IF page[b.page].last = b.at /\ n - b.size <= Left(b.page)
     THEN /\ page' = [page EXCEPT ![b.page].used = @ + (n - b.size)]
          /\ blocks' = (blocks \ {b}) \cup {[b EXCEPT !.size = n]}
          /\ UNCHANGED <<current, freepage>>
     ELSE \E r \in PageFor(n) :
            LET t == Taken(r, n)
                d == Dropped(t.page, r.cur, r.aside, b)
            IN /\ page' = d.page /\ current' = d.cur /\ freepage' = d.aside
               /\ blocks' = (blocks \ {b}) \cup {t.blk}
  /\ UNCHANGED <<palive, gone>>

mem_fifo_pool_delete ==
  /\ palive
  /\ palive' = FALSE
  /\ page' = [p \in Pages |->
       IF p = freepage \/ (p = current /\ page[p].nb = 0) THEN NULL ELSE page[p]]
  /\ current' = NULL /\ freepage' = NULL
  /\ gone' = (\A p \in Pages : page'[p] = NULL)
  /\ UNCHANGED blocks

Next ==
  \/ \E n \in Sizes : mfp_alloc(n)
  \/ \E b \in blocks : mfp_free(b)
  \/ \E b \in blocks, n \in Sizes : mfp_realloc(b, n)
  \/ mem_fifo_pool_delete

Spec == Init /\ [][Next]_vars

-----------------------------------------------------------------------------
\* Blocks in use lie in mapped pages, within their used size, and do not
\* overlap, whatever pages are reset, swapped or freed (mfp_free).
BlocksDisjoint ==
  \A b \in blocks :
    /\ page[b.page] # NULL
    /\ b.at + b.size <= page[b.page].used
    /\ page[b.page].used <= page[b.page].size
    /\ \A c \in blocks : b # c /\ b.page = c.page =>
         b.at + b.size <= c.at \/ c.at + c.size <= b.at

\* No page is lost: an empty page is the current one or the one kept aside, so
\* that a deleted pool is freed with its last block, and not before.
NoPageLost ==
  /\ \A p \in Mapped :
       /\ page[p].nb = Cardinality({b \in blocks : b.page = p})
       /\ page[p].nb = 0 => p \in {current, freepage}
  /\ gone <=> (~palive /\ blocks = {})
=============================================================================
