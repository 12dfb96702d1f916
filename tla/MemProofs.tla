------------------------------ MODULE MemProofs ------------------------------
(***************************************************************************)
(* Proofs about the allocators: the blocks of the fifo allocator (MemFifo) *)
(* do not overlap and no page is lost, for any pages, sizes of blocks and  *)
(* numbers of blocks.                                                      *)
(***************************************************************************)
EXTENDS MemFifo, FiniteSetTheorems, TLAPS

(* The invariant of the fifo allocator.  A block ends before the last one that was
   taken in its page, or is that one and ends where the used part of the page
   ends: mfp_realloc may then grow it. *)

BlockRec == [page : Pages, at : Nat, size : Nat \ {0}]

BlocksOf(bl, p) == {b \in bl : b.page = p}

Typed(pg, bl) ==
  /\ pg \in [Pages -> PageRec \cup {NULL}]
  /\ bl \subseteq BlockRec /\ IsFiniteSet(bl)

Placed(pg, b) ==
  /\ pg[b.page] # NULL
  /\ b.at + b.size <= pg[b.page].used
  /\ pg[b.page].last \in Nat
  /\ \/ b.at + b.size <= pg[b.page].last
     \/ b.at = pg[b.page].last /\ b.at + b.size = pg[b.page].used

Apart(b, c) ==
  b # c /\ b.page = c.page => b.at + b.size <= c.at \/ c.at + c.size <= b.at

Counted(pg, bl) ==
  \A p \in Pages : pg[p] # NULL =>
    pg[p].used <= pg[p].size /\ pg[p].nb = Cardinality(BlocksOf(bl, p))

Sound(pg, bl) ==
  /\ Typed(pg, bl)
  /\ \A b \in bl : Placed(pg, b) /\ \A c \in bl : Apart(b, c)
  /\ Counted(pg, bl)

\* The page kept aside is empty, and no other page but the current one is.
Aside(pg, aside) ==
  /\ aside \in Pages \cup {NULL}
  /\ aside # NULL => pg[aside] # NULL /\ pg[aside].nb = 0 /\ pg[aside].used = 0

Alive(pg, cur, aside, bl) ==
  /\ Sound(pg, bl) /\ Aside(pg, aside)
  /\ cur \in Pages /\ pg[cur] # NULL /\ aside # cur
  /\ \A p \in Pages : pg[p] # NULL /\ pg[p].nb = 0 => p \in {cur, aside}

Dying(pg, bl) ==
  /\ Sound(pg, bl)
  /\ \A p \in Pages : pg[p] # NULL => pg[p].nb > 0

FifoInv ==
  /\ palive \in BOOLEAN /\ gone \in BOOLEAN
  /\ palive => Alive(page, current, freepage, blocks) /\ ~gone
  /\ ~palive => Dying(page, blocks) /\ (gone <=> blocks = {})

-----------------------------------------------------------------------------
\* A new or reset page.
LEMMA FreshPage ==
  ASSUME FifoConstants, NEW s \in Nat
  PROVE  /\ Fresh(s) \in PageRec /\ Fresh(s) # NULL /\ Fresh(s).size = s
         /\ Fresh(s).used = 0 /\ Fresh(s).nb = 0
  BY DEF FifoConstants, Fresh, PageRec

\* The blocks of a page when a block is taken.
LEMMA CountTaken ==
  ASSUME NEW bl, IsFiniteSet(bl), NEW b, b \notin bl, NEW p
  PROVE  /\ IsFiniteSet(bl \cup {b}) /\ Cardinality(BlocksOf(bl, p)) \in Nat
         /\ Cardinality(BlocksOf(bl \cup {b}, p)) =
              Cardinality(BlocksOf(bl, p)) + (IF b.page = p THEN 1 ELSE 0)
  <1>1. IsFiniteSet(bl \cup {b})
    BY FS_AddElement
  <1>2. IsFiniteSet(BlocksOf(bl, p)) /\ b \notin BlocksOf(bl, p)
    BY FS_Subset DEF BlocksOf
  <1>3. Cardinality(BlocksOf(bl, p)) \in Nat
    BY <1>2, FS_CardinalityType
  <1>4. CASE b.page = p
    <2>1. BlocksOf(bl \cup {b}, p) = BlocksOf(bl, p) \cup {b}
      BY <1>4 DEF BlocksOf
    <2>2. Cardinality(BlocksOf(bl, p) \cup {b}) = Cardinality(BlocksOf(bl, p)) + 1
      BY <1>2, FS_AddElement
    <2>3. QED
      BY <1>1, <1>3, <1>4, <2>1, <2>2
  <1>5. CASE b.page # p
    <2>1. BlocksOf(bl \cup {b}, p) = BlocksOf(bl, p)
      BY <1>5 DEF BlocksOf
    <2>2. QED
      BY <1>1, <1>3, <1>5, <2>1
  <1>6. QED
    BY <1>4, <1>5

\* The blocks of a page when a block is freed.
LEMMA CountFreed ==
  ASSUME NEW bl, IsFiniteSet(bl), NEW b \in bl, NEW p
  PROVE  /\ IsFiniteSet(bl \ {b})
         /\ Cardinality(BlocksOf(bl, p)) \in Nat /\ Cardinality(BlocksOf(bl \ {b}, p)) \in Nat
         /\ Cardinality(BlocksOf(bl, p)) =
              Cardinality(BlocksOf(bl \ {b}, p)) + (IF b.page = p THEN 1 ELSE 0)
  <1>1. IsFiniteSet(bl \ {b}) /\ b \notin bl \ {b} /\ (bl \ {b}) \cup {b} = bl
    BY FS_Subset
  <1>2. /\ Cardinality(BlocksOf(bl \ {b}, p)) \in Nat
        /\ Cardinality(BlocksOf((bl \ {b}) \cup {b}, p)) =
             Cardinality(BlocksOf(bl \ {b}, p)) + (IF b.page = p THEN 1 ELSE 0)
    BY <1>1, CountTaken
  <1>3. QED
    BY <1>1, <1>2

\* A page without blocks is one with no block counted.
LEMMA CountZero ==
  ASSUME NEW bl, IsFiniteSet(bl), NEW p
  PROVE  Cardinality(BlocksOf(bl, p)) = 0 <=> \A b \in bl : b.page # p
  <1>1. IsFiniteSet(BlocksOf(bl, p))
    BY FS_Subset DEF BlocksOf
  <1>2. Cardinality(BlocksOf(bl, p)) = 0 <=> BlocksOf(bl, p) = {}
    BY <1>1, FS_EmptySet
  <1>3. QED
    BY <1>2 DEF BlocksOf

-----------------------------------------------------------------------------
\* A page with no block may be reset, freed or made.
LEMMA EmptyPage ==
  ASSUME FifoConstants, NEW pg, NEW bl, Sound(pg, bl), NEW q \in Pages,
         pg[q] = NULL \/ pg[q].nb = 0,
         NEW v, v = NULL \/ \E s \in Nat : v = Fresh(s)
  PROVE  Sound([pg EXCEPT ![q] = v], bl)
  <1> DEFINE new == [pg EXCEPT ![q] = v]
  <1>1. v \in PageRec \cup {NULL} /\ (v # NULL => v.used <= v.size /\ v.nb = 0)
    BY FreshPage
  <1>2. \A b \in bl : b.page # q
    <2>1. CASE pg[q] = NULL
      BY <2>1 DEF Sound, Placed
    <2>2. CASE pg[q] # NULL
      <3>1. Cardinality(BlocksOf(bl, q)) = 0
        BY <2>2 DEF Sound, Counted
      <3>2. QED
        BY <3>1, CountZero DEF Sound, Typed
    <2>3. QED
      BY <2>1, <2>2
  <1>3. Cardinality(BlocksOf(bl, q)) = 0
    BY <1>2, CountZero DEF Sound, Typed
  <1>4. /\ new \in [Pages -> PageRec \cup {NULL}] /\ new[q] = v
        /\ \A p \in Pages : p # q => new[p] = pg[p]
    BY <1>1 DEF Sound, Typed
  <1> HIDE DEF new
  <1>5. Typed(new, bl)
    BY <1>4 DEF Sound, Typed
  <1>6. \A b \in bl : Placed(new, b)
    <2>1. \A b \in bl : b.page \in Pages
      BY DEF Sound, Typed, BlockRec
    <2>2. QED
      BY <1>2, <1>4, <2>1 DEF Sound, Placed
  <1>7. Counted(new, bl)
    BY <1>1, <1>3, <1>4 DEF Sound, Counted
  <1>8. QED
    BY <1>5, <1>6, <1>7 DEF Sound, new

\* mem_page_new gives an empty page that is large enough.
LEMMA NewPage ==
  ASSUME FifoConstants, NEW pg, NEW bl, Sound(pg, bl), Aside(pg, freepage),
         \A p \in Pages : pg[p] # NULL /\ pg[p].nb = 0 => p = freepage,
         NEW n \in Nat, NEW r \in mem_page_new(pg, n)
  PROVE  /\ Alive(r.page, r.cur, r.aside, bl)
         /\ r.page[r.cur].used + n <= r.page[r.cur].size
  <1>1. CASE freepage # NULL /\ pg[freepage].size >= n
    <2>1. r = [cur |-> freepage, page |-> pg, aside |-> NULL]
      BY <1>1 DEF mem_page_new
    <2>2. freepage \in Pages /\ pg[freepage] \in PageRec /\ pg[freepage].used = 0 /\ pg[freepage] # NULL
      BY <1>1 DEF Aside, Sound, Typed
    <2>3. pg[freepage].used + n <= pg[freepage].size
      BY <1>1, <2>2 DEF PageRec
    <2>4. QED
      BY <1>1, <2>1, <2>2, <2>3 DEF Alive, Aside
  <1>2. CASE ~(freepage # NULL /\ pg[freepage].size >= n)
    <2>1. PICK p \in Pages : /\ pg[p] = NULL
                             /\ r = [cur |-> p, aside |-> freepage,
                                     page |-> [pg EXCEPT ![p] = Fresh(IF n < PageSize THEN PageSize ELSE n)]]
      BY <1>2 DEF mem_page_new
    <2> DEFINE s == IF n < PageSize THEN PageSize ELSE n
    <2>2. s \in Nat /\ s >= n
      BY DEF FifoConstants
    <2> HIDE DEF s
    <2>3. /\ Fresh(s) # NULL /\ Fresh(s).size = s /\ Fresh(s).used = 0 /\ Fresh(s).nb = 0
      BY <2>2, FreshPage
    <2>4. Sound([pg EXCEPT ![p] = Fresh(s)], bl)
      BY <2>1, <2>2, EmptyPage
    <2> DEFINE new == [pg EXCEPT ![p] = Fresh(s)]
    <2>5. new[p] = Fresh(s) /\ \A q \in Pages : q # p => new[q] = pg[q]
      BY DEF Sound, Typed
    <2>6. r.page = new /\ r.cur = p /\ r.aside = freepage
      BY <2>1 DEF s
    <2> HIDE DEF new
    <2>7. freepage # p
      BY <2>1 DEF Aside, FifoConstants
    <2>8. Aside(new, freepage)
      BY <2>5, <2>7 DEF Aside
    <2>9. Alive(new, p, freepage, bl)
      BY <2>3, <2>4, <2>5, <2>7, <2>8 DEF Alive, new
    <2>10. new[p].used + n <= new[p].size
      BY <2>2, <2>3, <2>5
    <2>11. QED
      BY <2>6, <2>9, <2>10
  <1>3. QED
    BY <1>1, <1>2

\* The page that mfp_alloc takes a block from has room for it, and only pages
\* without blocks were reset or freed.
LEMMA PageFound ==
  ASSUME FifoConstants, Alive(page, current, freepage, blocks), NEW n \in Nat,
         NEW r \in PageFor(n)
  PROVE  /\ Alive(r.page, r.cur, r.aside, blocks)
         /\ r.page[r.cur].used + n <= r.page[r.cur].size
  <1> DEFINE c == page[current]
  <1>1. /\ Sound(page, blocks) /\ current \in Pages /\ c \in PageRec
        /\ c.used <= c.size /\ c.used \in Nat /\ c.size \in Nat /\ c.nb \in Nat /\ c # NULL
    <2>1. /\ Sound(page, blocks) /\ current \in Pages /\ c \in PageRec /\ c # NULL
      BY DEF Alive, Sound, Typed
    <2>2. c.used <= c.size
      BY <2>1 DEF Sound, Counted
    <2>3. QED
      BY <2>1, <2>2 DEF PageRec
  <1>2. CASE Left(current) >= n
    <2>1. r = [cur |-> current, page |-> page, aside |-> freepage]
      BY <1>2 DEF PageFor
    <2>2. c.used + n <= c.size
      BY <1>1, <1>2 DEF Left
    <2>3. QED
      BY <2>1, <2>2
  <1>3. CASE ~(Left(current) >= n) /\ c.nb > 0
    <2>1. r \in mem_page_new(page, n)
      BY <1>3 DEF PageFor
    <2>2. \A p \in Pages : page[p] # NULL /\ page[p].nb = 0 => p = freepage
      BY <1>1, <1>3 DEF Alive
    <2>3. QED
      BY <1>1, <2>1, <2>2, NewPage DEF Alive
  <1>4. CASE ~(Left(current) >= n) /\ ~(c.nb > 0) /\ c.size >= n
    <2> DEFINE new == [page EXCEPT ![current] = Fresh(c.size)]
    <2>1. r.cur = current /\ r.page = new /\ r.aside = freepage
      <3>1. new = [page EXCEPT ![current] = Fresh(@.size)]
        OBVIOUS
      <3>2. r = [cur |-> current, aside |-> freepage, page |-> new]
        BY <1>4, <3>1 DEF PageFor
      <3>3. QED
        BY <3>2
    <2>2. c.nb = 0
      BY <1>1, <1>4
    <2>3. Sound(new, blocks)
      BY <1>1, <2>2, EmptyPage
    <2>4. /\ new[current] = Fresh(c.size) /\ \A p \in Pages : p # current => new[p] = page[p]
      BY <1>1 DEF Sound, Typed
    <2>5. /\ Fresh(c.size) # NULL /\ Fresh(c.size).size = c.size
          /\ Fresh(c.size).used = 0 /\ Fresh(c.size).nb = 0
      BY <1>1, FreshPage
    <2> HIDE DEF new
    <2>6. Aside(new, freepage)
      BY <2>4 DEF Alive, Aside
    <2>7. Alive(new, current, freepage, blocks)
      BY <2>3, <2>4, <2>5, <2>6 DEF Alive
    <2>8. new[current].used + n <= new[current].size
      BY <1>1, <1>4, <2>4, <2>5
    <2>9. QED
      BY <2>1, <2>7, <2>8
  <1>5. CASE ~(Left(current) >= n) /\ ~(c.nb > 0) /\ ~(c.size >= n)
    <2> DEFINE new == [page EXCEPT ![current] = NULL]
    <2>1. r \in mem_page_new(new, n)
      BY <1>5 DEF PageFor
    <2>2. c.nb = 0
      BY <1>1, <1>5
    <2>3. Sound(new, blocks)
      BY <1>1, <2>2, EmptyPage
    <2>4. /\ new[current] = NULL /\ \A p \in Pages : p # current => new[p] = page[p]
      BY <1>1 DEF Sound, Typed
    <2> HIDE DEF new
    <2>5. Aside(new, freepage)
      BY <2>4 DEF Alive, Aside
    <2>6. \A p \in Pages : new[p] # NULL /\ new[p].nb = 0 => p = freepage
      BY <2>4 DEF Alive
    <2>7. QED
      BY <2>1, <2>3, <2>5, <2>6, NewPage
  <1>6. QED
    BY <1>2, <1>3, <1>4, <1>5

\* The block that is taken is after all the others of its page.
LEMMA BlockTaken ==
  ASSUME FifoConstants, NEW r, NEW bl, Alive(r.page, r.cur, r.aside, bl), NEW n \in Nat \ {0},
         r.page[r.cur].used + n <= r.page[r.cur].size
  PROVE  LET t == Taken(r, n)
         IN  t.blk \notin bl /\ Alive(t.page, r.cur, r.aside, bl \cup {t.blk})
  <1> DEFINE pg == r.page
             q == r.cur
             p == pg[q]
             v == [size |-> p.size, used |-> p.used + n, nb |-> p.nb + 1, last |-> p.used]
             new == [pg EXCEPT ![q] = v]
             x == [page |-> q, at |-> p.used, size |-> n]
             all == bl \cup {x}
  <1>1. Taken(r, n).page = new /\ Taken(r, n).blk = x
    BY DEF Taken
  <1>2. /\ Sound(pg, bl) /\ q \in Pages /\ p # NULL /\ p \in PageRec
        /\ pg \in [Pages -> PageRec \cup {NULL}] /\ bl \subseteq BlockRec /\ IsFiniteSet(bl)
    BY DEF Alive, Sound, Typed
  <1>3. p.size \in Nat /\ p.used \in Nat /\ p.nb \in Nat
    BY <1>2 DEF PageRec
  <1>4. v \in PageRec /\ v # NULL
    BY <1>3 DEF PageRec, FifoConstants
  <1>5. x \in BlockRec /\ x.page = q /\ x.at = p.used /\ x.size = n
    BY <1>2, <1>3 DEF BlockRec
  <1>6. /\ new \in [Pages -> PageRec \cup {NULL}] /\ new[q] = v
        /\ \A o \in Pages : o # q => new[o] = pg[o]
    BY <1>2, <1>4
  <1>7. /\ v.size = p.size /\ v.used = p.used + n /\ v.nb = p.nb + 1 /\ v.last = p.used
    OBVIOUS
  <1>8. \A b \in bl : /\ b \in BlockRec /\ b.page \in Pages /\ b.at \in Nat /\ b.size \in Nat \ {0}
                      /\ b.page = q => b.at + b.size <= p.used
    BY <1>2 DEF BlockRec, Sound, Placed
  <1> HIDE DEF x, v, new, p, q, pg
  <1>9. x \notin bl
    BY <1>3, <1>5, <1>8
  <1>10. Typed(new, all)
    BY <1>2, <1>5, <1>6, <1>9, CountTaken DEF Typed
  <1>11. \A b \in all : Placed(new, b)
    <2>1. Placed(new, x)
      BY <1>3, <1>4, <1>5, <1>6, <1>7 DEF Placed
    <2>2. ASSUME NEW b \in bl, b.page = q PROVE Placed(new, b)
      BY <1>3, <1>4, <1>6, <1>7, <1>8, <2>2 DEF Placed
    <2>3. ASSUME NEW b \in bl, b.page # q PROVE Placed(new, b)
      BY <1>2, <1>6, <1>8, <2>3 DEF Placed, Sound
    <2>4. QED
      BY <2>1, <2>2, <2>3
  <1>12. \A b, c \in all : Apart(b, c)
    <2>1. \A b \in bl : Apart(b, x) /\ Apart(x, b)
      BY <1>3, <1>5, <1>8 DEF Apart
    <2>2. Apart(x, x)
      BY DEF Apart
    <2>3. QED
      BY <1>2, <2>1, <2>2 DEF Sound
  <1>13. Counted(new, all)
    <2>1. ASSUME NEW o \in Pages, new[o] # NULL
          PROVE  new[o].used <= new[o].size /\ new[o].nb = Cardinality(BlocksOf(all, o))
      <3>1. /\ Cardinality(BlocksOf(bl, o)) \in Nat
            /\ Cardinality(BlocksOf(all, o)) =
                 Cardinality(BlocksOf(bl, o)) + (IF x.page = o THEN 1 ELSE 0)
        BY <1>2, <1>9, CountTaken
      <3>2. CASE o = q
        BY <1>2, <1>3, <1>5, <1>6, <1>7, <3>1, <3>2 DEF Sound, Counted, p, q, pg
      <3>3. CASE o # q
        BY <1>2, <1>5, <1>6, <2>1, <3>1, <3>3 DEF Sound, Counted
      <3>4. QED
        BY <3>2, <3>3
    <2>2. QED
      BY <2>1 DEF Counted
  <1>14. Sound(new, all)
    BY <1>10, <1>11, <1>12, <1>13 DEF Sound
  <1>15. Aside(new, r.aside) /\ r.aside # q
    BY <1>6 DEF Alive, Aside, q, pg
  <1>16. \A o \in Pages : new[o] # NULL /\ new[o].nb = 0 => o \in {q, r.aside}
    BY <1>6 DEF Alive, q, pg
  <1>17. Alive(new, q, r.aside, all)
    BY <1>2, <1>4, <1>6, <1>14, <1>15, <1>16 DEF Alive
  <1>18. QED
    BY <1>1, <1>9, <1>17 DEF q

\* A block is freed and counted off its page.
LEMMA BlockFreed ==
  ASSUME FifoConstants, NEW pg, NEW bl, Sound(pg, bl), NEW b \in bl
  PROVE  LET v == [pg[b.page] EXCEPT !.nb = @ - 1]
         IN  /\ b.page \in Pages /\ pg[b.page] \in PageRec /\ pg[b.page] # NULL
             /\ pg[b.page].nb >= 1 /\ v \in PageRec /\ v # NULL
             /\ v.size = pg[b.page].size /\ v.used = pg[b.page].used
             /\ v.nb = pg[b.page].nb - 1
             /\ Sound([pg EXCEPT ![b.page] = v], bl \ {b})
  <1> DEFINE q == b.page
             p == pg[q]
             v == [p EXCEPT !.nb = @ - 1]
             new == [pg EXCEPT ![q] = v]
             rest == bl \ {b}
  <1>1. /\ pg \in [Pages -> PageRec \cup {NULL}] /\ bl \subseteq BlockRec /\ IsFiniteSet(bl)
    BY DEF Sound, Typed
  <1>2. q \in Pages /\ p # NULL /\ p \in PageRec
    BY <1>1 DEF BlockRec, Sound, Placed
  <1>3. \A o \in Pages : /\ Cardinality(BlocksOf(bl, o)) \in Nat
                         /\ Cardinality(BlocksOf(rest, o)) \in Nat /\ IsFiniteSet(rest)
                         /\ Cardinality(BlocksOf(bl, o)) =
                              Cardinality(BlocksOf(rest, o)) + (IF q = o THEN 1 ELSE 0)
    <2> TAKE o \in Pages
    <2>1. IsFiniteSet(bl)
      BY <1>1
    <2>2. \A x \in bl : \A y :
             /\ IsFiniteSet(bl \ {x})
             /\ Cardinality(BlocksOf(bl, y)) \in Nat /\ Cardinality(BlocksOf(bl \ {x}, y)) \in Nat
             /\ Cardinality(BlocksOf(bl, y)) =
                  Cardinality(BlocksOf(bl \ {x}, y)) + (IF x.page = y THEN 1 ELSE 0)
      BY <2>1, CountFreed
    <2>3. QED
      BY <2>2, Zenon
  <1>4. p.nb = Cardinality(BlocksOf(bl, q)) /\ p.nb >= 1 /\ p.nb - 1 = Cardinality(BlocksOf(rest, q))
    <2>1. p.nb = Cardinality(BlocksOf(bl, q))
      BY <1>2, Zenon DEF Sound, Counted
    <2>2. /\ Cardinality(BlocksOf(rest, q)) \in Nat
          /\ Cardinality(BlocksOf(bl, q)) = Cardinality(BlocksOf(rest, q)) + 1
      BY <1>2, <1>3
    <2>3. \A i, k : k \in Nat /\ i = k + 1 => i >= 1 /\ i - 1 = k
      OBVIOUS
    <2>4. QED
      BY <2>1, <2>2, <2>3
  <1>5. p.nb - 1 \in Nat
    BY <1>2, <1>3, <1>4
  <1>6. /\ v \in PageRec /\ v.size = p.size /\ v.used = p.used /\ v.last = p.last /\ v.nb = p.nb - 1
    BY <1>2, <1>5 DEF PageRec
  <1>7. v # NULL
    BY <1>6 DEF FifoConstants
  <1>8. /\ new \in [Pages -> PageRec \cup {NULL}] /\ new[q] = v
        /\ \A o \in Pages : o # q => new[o] = pg[o]
    BY <1>1, <1>2, <1>6
  <1> HIDE DEF v, new
  <1>9. Typed(new, rest)
    BY <1>1, <1>2, <1>3, <1>8 DEF Typed
  <1>10. ASSUME NEW c \in rest PROVE Placed(new, c)
    <2>1. Placed(pg, c) /\ c.page \in Pages
      BY <1>1 DEF Sound, BlockRec
    <2>2. CASE c.page = q
      BY <1>6, <1>7, <1>8, <2>1, <2>2 DEF Placed
    <2>3. CASE c.page # q
      BY <1>8, <2>1, <2>3 DEF Placed
    <2>4. QED
      BY <2>2, <2>3
  <1>11. \A c, d \in rest : Apart(c, d)
    BY DEF Sound
  <1>12. Counted(new, rest)
    <2>1. ASSUME NEW o \in Pages, new[o] # NULL
          PROVE  new[o].used <= new[o].size /\ new[o].nb = Cardinality(BlocksOf(rest, o))
      <3>1. CASE o = q
        BY <1>2, <1>4, <1>6, <1>8, <3>1 DEF Sound, Counted
      <3>2. CASE o # q
        BY <1>3, <1>8, <2>1, <3>2 DEF Sound, Counted
      <3>3. QED
        BY <3>1, <3>2
    <2>2. QED
      BY <2>1 DEF Counted
  <1>13. Sound(new, rest)
    BY <1>9, <1>10, <1>11, <1>12 DEF Sound
  <1>14. QED
    BY <1>2, <1>4, <1>6, <1>7, <1>13 DEF v, new

\* mfp_free in a living pool: the page of the last block is kept as the current
\* one or aside, or freed, and so is the page it replaces.
LEMMA PageDropped ==
  ASSUME FifoConstants, NEW pg, NEW cur, NEW aside, NEW bl, Alive(pg, cur, aside, bl), NEW b \in bl
  PROVE  LET d == Dropped(pg, cur, aside, b)
         IN  Alive(d.page, d.cur, d.aside, bl \ {b})
  <1> DEFINE p == b.page
             v == [pg[p] EXCEPT !.nb = @ - 1]
             pg1 == [pg EXCEPT ![p] = v]
             rest == bl \ {b}
             d == Dropped(pg, cur, aside, b)
             fresh == Fresh(v.size)
             kept == [pg1 EXCEPT ![p] = fresh]
  <1>1. /\ p \in Pages /\ pg[p] \in PageRec /\ pg[p] # NULL /\ pg[p].nb >= 1
        /\ v \in PageRec /\ v # NULL /\ v.size = pg[p].size /\ v.used = pg[p].used
        /\ v.nb = pg[p].nb - 1 /\ Sound(pg1, rest)
    <2>1. Sound(pg, bl)
      BY DEF Alive
    <2>2. QED
      BY <2>1, BlockFreed
  <1>2. /\ Sound(pg, bl) /\ Aside(pg, aside) /\ cur \in Pages /\ pg[cur] # NULL /\ aside # cur
        /\ \A o \in Pages : pg[o] # NULL /\ pg[o].nb = 0 => o \in {cur, aside}
        /\ pg \in [Pages -> PageRec \cup {NULL}]
    BY DEF Alive, Sound, Typed
  <1>3. /\ pg1[p] = v /\ \A o \in Pages : o # p => pg1[o] = pg[o]
        /\ pg1 = [pg EXCEPT ![p].nb = @ - 1]
    BY <1>1, <1>2
  <1>4. v.nb \in Nat /\ v.size \in Nat
    BY <1>1 DEF PageRec
  <1>5. aside # p /\ Aside(pg1, aside)
    <2>1. ASSUME aside = p PROVE FALSE
      <3>1. pg[p].nb = 0
        BY <1>1, <1>2, <2>1 DEF Aside, FifoConstants
      <3>2. QED
        BY <1>1, <3>1
    <2>2. QED
      BY <1>2, <1>3, <2>1 DEF Aside
  <1>6. cur \in Pages /\ pg1[cur] # NULL
    BY <1>1, <1>2, <1>3
  <1> HIDE DEF v
  <1>7. /\ fresh # NULL /\ fresh.size = v.size /\ fresh.used = 0 /\ fresh.nb = 0
    BY <1>4, FreshPage
  <1>8. kept[p] = fresh /\ kept \in [Pages -> PageRec \cup {NULL}]
        /\ \A o \in Pages : o # p => kept[o] = pg[o]
        /\ kept = [pg1 EXCEPT ![p] = Fresh(@.size)]
    <2>1. fresh \in PageRec
      BY <1>4, FreshPage
    <2>2. pg1 \in [Pages -> PageRec \cup {NULL}]
      BY <1>1 DEF Sound, Typed
    <2>3. QED
      BY <1>1, <1>3, <2>1, <2>2
  <1>9. CASE v.nb > 0 \/ p = cur
    <2>1. d = [page |-> pg1, cur |-> cur, aside |-> aside]
      BY <1>3, <1>9 DEF Dropped
    <2> HIDE DEF pg1, d
    <2>2. \A o \in Pages : pg1[o] # NULL /\ pg1[o].nb = 0 => o \in {cur, aside}
      <3>1. pg1[p].nb = 0 => p = cur
        BY <1>3, <1>4, <1>9
      <3>2. QED
        BY <1>2, <1>3, <3>1
    <2>3. Alive(pg1, cur, aside, rest)
      BY <1>1, <1>2, <1>5, <1>6, <2>2 DEF Alive
    <2>4. QED
      BY <2>1, <2>3 DEF d
  <1>10. CASE ~(v.nb > 0) /\ p # cur
    <2>1. v.nb = 0 /\ Sound(kept, rest)
      <3>1. v.nb = 0
        BY <1>4, <1>10
      <3>2. QED
        BY <1>1, <1>3, <1>4, <3>1, EmptyPage
    <2>2. kept[cur] = pg[cur] /\ pg1[cur] = pg[cur]
      BY <1>2, <1>3, <1>8, <1>10
    <2>3. CASE aside = NULL
      <3>1. d = [page |-> kept, cur |-> cur, aside |-> p]
        BY <1>3, <1>8, <1>10, <2>3 DEF Dropped
      <3> HIDE DEF kept, d, fresh
      <3>2. Aside(kept, p)
        BY <1>1, <1>7, <1>8 DEF Aside
      <3>3. \A o \in Pages : kept[o] # NULL /\ kept[o].nb = 0 => o \in {cur, p}
        BY <1>2, <1>8, <2>3 DEF FifoConstants
      <3>4. Alive(kept, cur, p, rest)
        BY <1>2, <1>10, <2>1, <2>2, <3>2, <3>3 DEF Alive
      <3>5. QED
        BY <3>1, <3>4 DEF d
    <2>4. CASE aside # NULL /\ v.size > Ratio * (pg1[cur].size - pg1[cur].used)
      <3> DEFINE last == IF pg1[cur].nb = 0 THEN [kept EXCEPT ![cur] = NULL] ELSE kept
      <3>1. d = [page |-> last, cur |-> p, aside |-> aside]
        <4>1. pg1[p].nb = v.nb /\ pg1[p].size = v.size
          BY <1>3
        <4>2. QED
          <5>1. pg1 = [pg EXCEPT ![b.page].nb = @ - 1] /\ kept = [pg1 EXCEPT ![b.page] = Fresh(@.size)]
            BY <1>3, <1>8
          <5> HIDE DEF pg1, kept
          <5>2. QED
            BY <1>10, <2>4, <4>1, <5>1 DEF Dropped
      <3>2. /\ \A o \in Pages : o # cur => last[o] = kept[o]
            /\ last[cur] = IF pg1[cur].nb = 0 THEN NULL ELSE kept[cur]
        BY <1>2, <1>8
      <3>3. Sound(last, rest)
        <4>1. CASE pg1[cur].nb = 0
          BY <1>2, <2>1, <2>2, <4>1, EmptyPage
        <4>2. CASE pg1[cur].nb # 0
          BY <2>1, <4>2
        <4>3. QED
          BY <4>1, <4>2
      <3> HIDE DEF last, kept, d, fresh, pg1
      <3>4. last[p] # NULL /\ (aside # NULL => last[aside] = pg[aside])
        BY <1>1, <1>2, <1>5, <1>7, <1>8, <1>10, <3>2 DEF Aside
      <3>5. Aside(last, aside)
        BY <1>2, <3>4 DEF Aside
      <3>6. \A o \in Pages : last[o] # NULL /\ last[o].nb = 0 => o \in {p, aside}
        BY <1>2, <1>8, <2>2, <3>2
      <3>7. Alive(last, p, aside, rest)
        BY <1>1, <1>5, <3>3, <3>4, <3>5, <3>6 DEF Alive
      <3>8. QED
        BY <3>1, <3>7 DEF d
    <2>5. CASE /\ aside # NULL /\ ~(v.size > Ratio * (pg1[cur].size - pg1[cur].used))
               /\ pg1[aside].size >= v.size
      <3> DEFINE last == [pg1 EXCEPT ![p] = NULL]
      <3>1. d = [page |-> last, cur |-> cur, aside |-> aside]
        BY <1>3, <1>10, <2>5 DEF Dropped
      <3>2. /\ \A o \in Pages : o # p => last[o] = pg[o]
            /\ last[p] = NULL
        BY <1>1, <1>2, <1>3
      <3>3. Sound(last, rest)
        BY <1>1, <1>3, <2>1, EmptyPage
      <3> HIDE DEF last, kept, d, fresh, pg1
      <3>4. Aside(last, aside)
        BY <1>2, <1>5, <3>2 DEF Aside
      <3>5. \A o \in Pages : last[o] # NULL /\ last[o].nb = 0 => o \in {cur, aside}
        BY <1>2, <3>2
      <3>6. Alive(last, cur, aside, rest)
        BY <1>2, <1>10, <3>2, <3>3, <3>4, <3>5 DEF Alive
      <3>7. QED
        BY <3>1, <3>6 DEF d
    <2>6. CASE /\ aside # NULL /\ ~(v.size > Ratio * (pg1[cur].size - pg1[cur].used))
               /\ ~(pg1[aside].size >= v.size)
      <3> DEFINE last == [kept EXCEPT ![aside] = NULL]
      <3>1. d = [page |-> last, cur |-> cur, aside |-> p]
        BY <1>3, <1>8, <1>10, <2>6 DEF Dropped
      <3>2. aside \in Pages /\ kept[aside].nb = 0
        BY <1>2, <1>5, <1>8, <2>6 DEF Aside
      <3>3. /\ \A o \in Pages : o # aside => last[o] = kept[o]
            /\ last[aside] = NULL
        BY <1>8, <3>2
      <3>4. Sound(last, rest)
        BY <2>1, <3>2, EmptyPage
      <3> HIDE DEF last, kept, d, fresh, pg1
      <3>5. Aside(last, p)
        BY <1>1, <1>5, <1>7, <1>8, <3>3 DEF Aside
      <3>6. \A o \in Pages : last[o] # NULL /\ last[o].nb = 0 => o \in {cur, p}
        BY <1>2, <1>8, <3>3
      <3>7. Alive(last, cur, p, rest)
        BY <1>2, <1>10, <2>2, <3>3, <3>4, <3>5, <3>6 DEF Alive
      <3>8. QED
        BY <3>1, <3>7 DEF d
    <2>7. QED
      BY <2>3, <2>4, <2>5, <2>6
  <1>11. QED
    BY <1>9, <1>10

\* mfp_realloc grows the last block of a page in place.
LEMMA BlockGrown ==
  ASSUME FifoConstants, NEW pg, NEW cur, NEW aside, NEW bl, Alive(pg, cur, aside, bl),
         NEW b \in bl, NEW n \in Nat \ {0}, n > b.size,
         pg[b.page].last = b.at, n - b.size <= pg[b.page].size - pg[b.page].used
  PROVE  LET x == [b EXCEPT !.size = n]
             v == [pg[b.page] EXCEPT !.used = @ + (n - b.size)]
         IN  Alive([pg EXCEPT ![b.page] = v], cur, aside, (bl \ {b}) \cup {x})
  <1> DEFINE q == b.page
             p == pg[q]
             m == n - b.size
             x == [b EXCEPT !.size = n]
             v == [p EXCEPT !.used = @ + m]
             new == [pg EXCEPT ![q] = v]
             rest == bl \ {b}
             all == rest \cup {x}
  <1>1. /\ pg \in [Pages -> PageRec \cup {NULL}] /\ bl \subseteq BlockRec /\ IsFiniteSet(bl)
        /\ Sound(pg, bl)
    BY DEF Alive, Sound, Typed
  <1>2. /\ q \in Pages /\ p # NULL /\ p \in PageRec
        /\ b \in BlockRec /\ b.at \in Nat /\ b.size \in Nat \ {0}
    BY <1>1 DEF BlockRec, Sound, Placed
  <1>3. p.used \in Nat /\ p.size \in Nat /\ p.nb \in Nat /\ m \in Nat \ {0} /\ p.used + m \in Nat
        /\ p.used + m <= p.size
    BY <1>2 DEF PageRec
  <1>4. x \in BlockRec /\ x.page = q /\ x.at = b.at /\ x.size = n /\ x # b
    BY <1>2 DEF BlockRec
  <1> HIDE DEF m
  <1>5. /\ v \in PageRec /\ v.size = p.size /\ v.used = p.used + m /\ v.last = p.last /\ v.nb = p.nb
    BY <1>2, <1>3 DEF PageRec
  <1>6. v # NULL
    BY <1>5 DEF FifoConstants
  <1>7. /\ new \in [Pages -> PageRec \cup {NULL}] /\ new[q] = v
        /\ \A o \in Pages : o # q => new[o] = pg[o]
    BY <1>1, <1>2, <1>5
  <1>8. b.at + b.size = p.used /\ p.last = b.at
    <2>1. Placed(pg, b)
      BY <1>1 DEF Sound
    <2>2. ~(b.at + b.size <= b.at)
      BY <1>2
    <2>3. QED
      BY <2>1, <2>2 DEF Placed
  <1>9. \A c \in rest : /\ c \in BlockRec /\ c.page \in Pages /\ c.at \in Nat /\ c.size \in Nat \ {0}
                        /\ c.page = q => c.at + c.size <= b.at
    <2> TAKE c \in rest
    <2>1. c \in BlockRec /\ c.page \in Pages /\ c.at \in Nat /\ c.size \in Nat \ {0}
      BY <1>1 DEF BlockRec
    <2>2. ASSUME c.page = q PROVE c.at + c.size <= b.at
      <3>1. Placed(pg, c) /\ Apart(b, c)
        BY <1>1 DEF Sound
      <3>2. b.at + b.size <= c.at \/ c.at + c.size <= b.at
        BY <2>2, <3>1 DEF Apart
      <3>3. c.at + c.size <= b.at \/ c.at = b.at
        BY <1>8, <2>2, <3>1 DEF Placed
      <3>4. QED
        BY <1>2, <2>1, <3>2, <3>3
    <2>3. QED
      BY <2>1, <2>2
  <1> HIDE DEF x, v, new, q, p
  <1>10. x \notin rest
    BY <1>2, <1>4, <1>9
  <1>11. IsFiniteSet(rest) /\ IsFiniteSet(all)
    BY <1>1, <1>10, CountFreed, CountTaken
  <1>12. Typed(new, all)
    BY <1>1, <1>4, <1>7, <1>11 DEF Typed
  <1>13. ASSUME NEW c \in all PROVE Placed(new, c)
    <2>1. b.at + n = p.used + m
      BY <1>2, <1>3, <1>8 DEF m
    <2>2. Placed(new, x)
      BY <1>2, <1>4, <1>5, <1>6, <1>7, <1>8, <2>1 DEF Placed
    <2>3. ASSUME NEW y \in rest, y.page = q PROVE Placed(new, y)
      <3>1. y.at + y.size <= b.at /\ b.at <= p.used + m
        BY <1>2, <1>3, <1>8, <1>9, <2>3
      <3>2. y.at + y.size <= p.used + m
        BY <1>2, <1>3, <1>9, <3>1
      <3>3. QED
        BY <1>2, <1>5, <1>6, <1>7, <1>8, <2>3, <3>1, <3>2 DEF Placed
    <2>4. ASSUME NEW y \in rest, y.page # q PROVE Placed(new, y)
      BY <1>1, <1>7, <1>9, <2>4 DEF Placed, Sound
    <2>5. QED
      BY <2>2, <2>3, <2>4
  <1>14. \A c, d \in all : Apart(c, d)
    <2>1. \A c \in rest : Apart(c, x) /\ Apart(x, c)
      BY <1>2, <1>4, <1>9 DEF Apart
    <2>2. Apart(x, x)
      BY DEF Apart
    <2>3. QED
      BY <1>1, <2>1, <2>2 DEF Sound
  <1>15. ASSUME NEW o \in Pages PROVE Cardinality(BlocksOf(all, o)) = Cardinality(BlocksOf(bl, o))
    <2>1. /\ Cardinality(BlocksOf(rest, o)) \in Nat
          /\ Cardinality(BlocksOf(bl, o)) =
                  Cardinality(BlocksOf(rest, o)) + (IF b.page = o THEN 1 ELSE 0)
      BY <1>1, CountFreed
    <2>2. Cardinality(BlocksOf(all, o)) =
                  Cardinality(BlocksOf(rest, o)) + (IF x.page = o THEN 1 ELSE 0)
      BY <1>10, <1>11, CountTaken
    <2>3. x.page = b.page
      BY <1>4 DEF q
    <2>4. QED
      BY <2>1, <2>2, <2>3
  <1>16. Counted(new, all)
    <2>1. ASSUME NEW o \in Pages, new[o] # NULL
          PROVE  new[o].used <= new[o].size /\ new[o].nb = Cardinality(BlocksOf(all, o))
      <3>1. CASE o = q
        BY <1>1, <1>2, <1>3, <1>5, <1>7, <1>15, <3>1 DEF Sound, Counted, p
      <3>2. CASE o # q
        BY <1>1, <1>7, <1>15, <2>1, <3>2 DEF Sound, Counted
      <3>3. QED
        BY <3>1, <3>2
    <2>2. QED
      BY <2>1 DEF Counted
  <1>17. Sound(new, all)
    BY <1>12, <1>13, <1>14, <1>16 DEF Sound
  <1>18. /\ cur \in Pages /\ pg[cur] # NULL /\ aside # cur /\ Aside(pg, aside)
         /\ \A o \in Pages : pg[o] # NULL /\ pg[o].nb = 0 => o \in {cur, aside}
    BY DEF Alive
  <1>19. q # aside
    <2>1. p.nb # 0
      <3>1. BlocksOf(bl, q) # {} /\ p.nb = Cardinality(BlocksOf(bl, q))
        BY <1>1, <1>2 DEF Sound, Counted, BlocksOf, p, q
      <3>2. QED
        BY <1>1, <3>1, CountZero DEF q
    <2>2. QED
      BY <1>2, <1>18, <2>1 DEF Aside, FifoConstants, p
  <1>20. Aside(new, aside)
    BY <1>7, <1>18, <1>19 DEF Aside
  <1>21. /\ new[cur] # NULL
         /\ \A o \in Pages : new[o] # NULL /\ new[o].nb = 0 => o \in {cur, aside}
    BY <1>2, <1>5, <1>6, <1>7, <1>18 DEF p
  <1>22. Alive(new, cur, aside, all)
    BY <1>17, <1>18, <1>20, <1>21 DEF Alive
  <1>23. QED
    BY <1>22 DEF new, v, x, q, p, m

\* A block is freed in a dying pool: the page goes with its last block, the pool
\* with its last page.
LEMMA DyingFree ==
  ASSUME FifoConstants, ~palive, FifoInv, NEW b \in blocks, mfp_free(b)
  PROVE  FifoInv'
  <1> DEFINE q == b.page
             v == [page[q] EXCEPT !.nb = @ - 1]
             less == [page EXCEPT ![q] = v]
             rest == blocks \ {b}
             one == page[q].nb = 1
  <1>1. /\ Sound(page, blocks) /\ page \in [Pages -> PageRec \cup {NULL}]
        /\ IsFiniteSet(blocks) /\ blocks \subseteq BlockRec
        /\ \A p \in Pages : page[p] # NULL => page[p].nb > 0
    BY DEF FifoInv, Dying, Sound, Typed
  <1>2. /\ q \in Pages /\ page[q] \in PageRec /\ page[q] # NULL /\ page[q].nb >= 1
        /\ v \in PageRec /\ v # NULL /\ v.nb = page[q].nb - 1 /\ Sound(less, rest)
    BY <1>1, BlockFreed
  <1>3. /\ blocks' = rest /\ palive' = palive
        /\ page' = [page EXCEPT ![q] = IF one THEN NULL ELSE v]
        /\ gone' = (one /\ Mapped = {q})
    <2>1. blocks' = rest /\ palive' = palive /\ (gone' = (one /\ Mapped = {q}))
      BY Zenon DEF mfp_free
    <2>2. page' = [page EXCEPT ![q] = IF one THEN NULL ELSE v]
      BY DEF mfp_free
    <2>3. QED
      BY <2>1, <2>2, Zenon
  <1>4. page' = IF one THEN [less EXCEPT ![q] = NULL] ELSE less
    BY <1>1, <1>2, <1>3
  <1>5. /\ less[q] = v /\ \A o \in Pages : o # q => less[o] = page[o]
    BY <1>1, <1>2
  <1> HIDE DEF v, less
  <1>6. Sound(page', rest)
    <2>1. CASE one
      <3>1. less[q].nb = 0
        BY <1>2, <1>5, <2>1
      <3>2. QED
        BY <1>2, <1>4, <2>1, <3>1, EmptyPage
    <2>2. CASE ~one
      BY <1>2, <1>4, <2>2
    <2>3. QED
      BY <2>1, <2>2
  <1>7. \A o \in Pages : page'[o] # NULL => page'[o].nb > 0
    <2>1. page[q].nb \in Nat
      BY <1>2 DEF PageRec
    <2>2. ~one => v.nb > 0
      BY <1>2, <2>1
    <2>3. \A o \in Pages : page'[o] = IF o = q THEN (IF one THEN NULL ELSE v) ELSE page[o]
      BY <1>1, <1>2, <1>3
    <2>4. QED
      BY <1>1, <2>2, <2>3
  <1>8. gone' <=> rest = {}
    <2>1. page[q].nb = Cardinality(BlocksOf(blocks, q))
      BY <1>1, <1>2 DEF Sound, Counted
    <2>2. /\ Cardinality(BlocksOf(rest, q)) \in Nat /\ IsFiniteSet(rest)
          /\ Cardinality(BlocksOf(blocks, q)) = Cardinality(BlocksOf(rest, q)) + 1
      BY <1>1, CountFreed
    <2>3. one <=> \A c \in rest : c.page # q
      BY <2>1, <2>2, CountZero
    <2>4. \A c \in blocks : c.page \in Mapped
      BY <1>1 DEF Sound, Placed, Mapped, BlockRec
    <2>5. \A p \in Mapped : \E c \in blocks : c.page = p
      <3> TAKE p \in Mapped
      <3>1. p \in Pages /\ page[p] # NULL /\ page[p].nb > 0
        BY <1>1 DEF Mapped
      <3>2. page[p].nb = Cardinality(BlocksOf(blocks, p))
        BY <1>1, <3>1 DEF Sound, Counted
      <3>3. Cardinality(BlocksOf(blocks, p)) # 0
        BY <3>1, <3>2
      <3>4. QED
        BY <1>1, <3>3, CountZero
    <2>6. ASSUME rest = {} PROVE one /\ Mapped = {q}
      BY <2>3, <2>4, <2>5, <2>6
    <2>7. ASSUME one, Mapped = {q} PROVE rest = {}
      BY <2>3, <2>4, <2>7
    <2>8. QED
      BY <1>3, <2>6, <2>7
  <1>9. gone' \in BOOLEAN
    BY <1>3, Zenon
  <1>10. QED
    BY <1>3, <1>6, <1>7, <1>8, <1>9 DEF FifoInv, Dying

\* A block is taken, or the pool is deleted.
LEMMA AllocNext ==
  ASSUME FifoConstants, FifoInv, NEW n \in Sizes, mfp_alloc(n)
  PROVE  FifoInv'
  <1>1. palive /\ Alive(page, current, freepage, blocks) /\ ~gone /\ n \in Nat \ {0}
    BY DEF mfp_alloc, FifoInv, FifoConstants
  <1>2. PICK r \in PageFor(n) :
          /\ page' = Taken(r, n).page /\ current' = r.cur /\ freepage' = r.aside
          /\ blocks' = blocks \cup {Taken(r, n).blk}
    BY DEF mfp_alloc
  <1>3. /\ Alive(r.page, r.cur, r.aside, blocks)
        /\ r.page[r.cur].used + n <= r.page[r.cur].size
    BY <1>1, PageFound
  <1>4. Alive(page', current', freepage', blocks')
    BY <1>1, <1>2, <1>3, BlockTaken
  <1>5. QED
    BY <1>1, <1>4 DEF mfp_alloc, FifoInv

\* A block is freed.
LEMMA FreeNext ==
  ASSUME FifoConstants, FifoInv, NEW b \in blocks, mfp_free(b)
  PROVE  FifoInv'
  <1>1. CASE palive
    <2>1. Alive(page, current, freepage, blocks) /\ ~gone
      BY <1>1 DEF FifoInv
    <2>2. LET d == Dropped(page, current, freepage, b)
          IN  page' = d.page /\ current' = d.cur /\ freepage' = d.aside
      BY <1>1 DEF mfp_free
    <2>3. blocks' = blocks \ {b} /\ palive' = palive /\ gone' = gone
      BY <1>1 DEF mfp_free
    <2>4. Alive(page', current', freepage', blocks')
      BY <2>1, <2>2, <2>3, PageDropped
    <2>5. QED
      BY <1>1, <2>1, <2>3, <2>4 DEF FifoInv
  <1>2. QED
    BY <1>1, DyingFree

\* A block is grown, in place or elsewhere.
LEMMA ReallocNext ==
  ASSUME FifoConstants, FifoInv, NEW b \in blocks, NEW n \in Sizes, mfp_realloc(b, n)
  PROVE  FifoInv'
  <1>1. palive /\ Alive(page, current, freepage, blocks) /\ ~gone /\ n \in Nat \ {0} /\ n > b.size
        /\ palive' = palive /\ gone' = gone
    BY DEF mfp_realloc, FifoInv, FifoConstants
  <1>2. CASE page[b.page].last = b.at /\ n - b.size <= Left(b.page)
    <2>1. b.page \in Pages /\ page \in [Pages -> PageRec \cup {NULL}]
      BY <1>1 DEF Alive, Sound, Typed, BlockRec
    <2>2. /\ page' = [page EXCEPT ![b.page] = [page[b.page] EXCEPT !.used = @ + (n - b.size)]]
          /\ blocks' = (blocks \ {b}) \cup {[b EXCEPT !.size = n]}
          /\ current' = current /\ freepage' = freepage
      BY <1>2, <2>1 DEF mfp_realloc
    <2>3. Alive(page', current', freepage', blocks')
      BY <1>1, <1>2, <2>2, BlockGrown DEF Left
    <2>4. QED
      BY <1>1, <2>3 DEF FifoInv
  <1>3. CASE ~(page[b.page].last = b.at /\ n - b.size <= Left(b.page))
    <2>1. PICK r \in PageFor(n) :
            LET t == Taken(r, n)
                d == Dropped(t.page, r.cur, r.aside, b)
            IN  /\ page' = d.page /\ current' = d.cur /\ freepage' = d.aside
                /\ blocks' = (blocks \ {b}) \cup {t.blk}
      BY <1>3 DEF mfp_realloc
    <2> DEFINE t == Taken(r, n)
               all == blocks \cup {t.blk}
    <2>2. /\ Alive(r.page, r.cur, r.aside, blocks)
          /\ r.page[r.cur].used + n <= r.page[r.cur].size
      BY <1>1, PageFound
    <2>3. t.blk \notin blocks /\ Alive(t.page, r.cur, r.aside, all)
      BY <1>1, <2>2, BlockTaken
    <2> HIDE DEF t
    <2>4. LET d == Dropped(t.page, r.cur, r.aside, b)
          IN  Alive(d.page, d.cur, d.aside, all \ {b})
      BY <2>3, PageDropped
    <2>5. all \ {b} = (blocks \ {b}) \cup {t.blk}
      BY <2>3
    <2>6. Alive(page', current', freepage', blocks')
      BY <2>1, <2>4, <2>5 DEF t
    <2>7. QED
      BY <1>1, <2>6 DEF FifoInv
  <1>4. QED
    BY <1>2, <1>3

\* mem_fifo_pool_delete: the empty pages go, and the pool too when it has no block.
LEMMA DeleteNext ==
  ASSUME FifoConstants, FifoInv, mem_fifo_pool_delete
  PROVE  FifoInv'
  <1> DEFINE pg1 == IF page[current].nb = 0 THEN [page EXCEPT ![current] = NULL] ELSE page
             pg2 == IF freepage # NULL THEN [pg1 EXCEPT ![freepage] = NULL] ELSE pg1
  <1>1. palive /\ Alive(page, current, freepage, blocks) /\ ~gone
    BY DEF mem_fifo_pool_delete, FifoInv
  <1>2. /\ Sound(page, blocks) /\ page \in [Pages -> PageRec \cup {NULL}]
        /\ current \in Pages /\ freepage # current /\ freepage \in Pages \cup {NULL}
        /\ freepage # NULL => page[freepage].nb = 0
        /\ \A p \in Pages : page[p] # NULL /\ page[p].nb = 0 => p \in {current, freepage}
    BY <1>1 DEF Alive, Aside, Sound, Typed
  <1>3. /\ Sound(pg1, blocks) /\ pg1 \in [Pages -> PageRec \cup {NULL}]
        /\ freepage # NULL => pg1[freepage].nb = 0
        /\ \A p \in Pages : pg1[p] = IF p = current /\ page[p].nb = 0 THEN NULL ELSE page[p]
    <2>1. CASE page[current].nb = 0
      <3>1. Sound(pg1, blocks)
        BY <1>2, <2>1, EmptyPage
      <3>2. QED
        BY <1>2, <2>1, <3>1
    <2>2. CASE page[current].nb # 0
      BY <1>2, <2>2
    <2>3. QED
      BY <2>1, <2>2
  <1> HIDE DEF pg1
  <1>4. /\ Sound(pg2, blocks) /\ pg2 \in [Pages -> PageRec \cup {NULL}]
        /\ \A p \in Pages : pg2[p] = IF p = freepage THEN NULL ELSE pg1[p]
    <2>1. CASE freepage # NULL
      <3>1. freepage \in Pages
        BY <1>2, <2>1
      <3>2. Sound(pg2, blocks)
        BY <1>3, <2>1, <3>1, EmptyPage
      <3>3. QED
        BY <1>3, <2>1, <3>1, <3>2
    <2>2. CASE freepage = NULL
      BY <1>3, <2>2 DEF FifoConstants
    <2>3. QED
      BY <2>1, <2>2
  <1> HIDE DEF pg2
  <1>5. page' = pg2
    <2>1. \A p \in Pages : pg2[p] =
             IF p = freepage \/ (p = current /\ page[p].nb = 0) THEN NULL ELSE page[p]
      BY <1>3, <1>4
    <2>2. QED
      BY <1>4, <2>1 DEF mem_fifo_pool_delete
  <1>6. Dying(page', blocks)
    <2>1. \A p \in Pages : pg2[p] # NULL => pg2[p] = page[p] /\ page[p].nb # 0 /\ page[p] \in PageRec
      BY <1>2, <1>3, <1>4
    <2>2. \A p \in Pages : pg2[p] # NULL => pg2[p].nb > 0
      BY <2>1 DEF PageRec
    <2>3. QED
      BY <1>4, <1>5, <2>2 DEF Dying
  <1>7. gone' <=> blocks = {}
    <2>1. gone' <=> \A p \in Pages : page'[p] = NULL
      BY DEF mem_fifo_pool_delete
    <2>2. ASSUME blocks = {}, NEW p \in Pages PROVE page'[p] = NULL
      <3>1. Cardinality(BlocksOf(blocks, p)) = 0
        BY <1>2, <2>2, CountZero DEF Sound, Typed
      <3>2. QED
        BY <1>6, <3>1 DEF Dying, Sound, Counted
    <2>3. ASSUME NEW b \in blocks PROVE b.page \in Pages /\ page'[b.page] # NULL
      BY <1>6 DEF Dying, Sound, Typed, Placed, BlockRec
    <2>4. QED
      BY <2>1, <2>2, <2>3
  <1>8. palive' = FALSE /\ blocks' = blocks /\ gone' \in BOOLEAN
    BY Zenon DEF mem_fifo_pool_delete
  <1>9. QED
    BY <1>6, <1>7, <1>8 DEF FifoInv

\* The invariant holds initially: one empty page, the current one.
LEMMA FifoInit == ASSUME FifoConstants, Init PROVE FifoInv
  <1>1. PICK p \in Pages :
          /\ page = [q \in Pages |-> IF q = p THEN Fresh(PageSize) ELSE NULL]
          /\ current = p /\ freepage = NULL
          /\ palive = TRUE /\ blocks = {} /\ gone = FALSE
    BY DEF Init
  <1>2. /\ Fresh(PageSize) \in PageRec /\ Fresh(PageSize) # NULL
        /\ Fresh(PageSize).used <= Fresh(PageSize).size /\ Fresh(PageSize).nb = 0
    BY FreshPage DEF FifoConstants
  <1>3. IsFiniteSet(blocks) /\ \A q : Cardinality(BlocksOf(blocks, q)) = 0
    <2>1. \A q : BlocksOf(blocks, q) = {}
      BY <1>1 DEF BlocksOf
    <2>2. QED
      BY <1>1, <2>1, FS_EmptySet
  <1>4. /\ page \in [Pages -> PageRec \cup {NULL}] /\ page[p] = Fresh(PageSize)
        /\ \A q \in Pages : q # p => page[q] = NULL
    BY <1>1, <1>2
  <1>5. Sound(page, blocks)
    BY <1>1, <1>2, <1>3, <1>4 DEF Sound, Typed, Counted
  <1>6. Alive(page, current, freepage, blocks)
    BY <1>1, <1>2, <1>4, <1>5 DEF Alive, Aside, FifoConstants
  <1>7. QED
    BY <1>1, <1>6 DEF FifoInv

\* Whatever is allocated, grown and freed, and after mem_fifo_pool_delete, the
\* pages and the blocks of the fifo allocator are in order.
THEOREM FifoAlways == ASSUME FifoConstants PROVE Spec => []FifoInv
  <1>1. Init => FifoInv
    BY FifoInit
  <1>2. FifoInv /\ [Next]_vars => FifoInv'
    <2> SUFFICES ASSUME FifoInv, [Next]_vars PROVE FifoInv'
      OBVIOUS
    <2>1. CASE UNCHANGED vars
      BY <2>1 DEF vars, FifoInv
    <2>2. QED
      BY <2>1, AllocNext, FreeNext, ReallocNext, DeleteNext DEF Next
  <1>3. QED
    BY <1>1, <1>2, PTL DEF Spec

\* No two blocks of the fifo allocator overlap, and each lies in the used part of
\* a mapped page (mfp_alloc, mfp_free, mfp_realloc).
THEOREM FifoBlocksDisjoint == ASSUME FifoConstants PROVE Spec => []BlocksDisjoint
  <1>1. FifoInv => BlocksDisjoint
    <2> SUFFICES ASSUME FifoInv PROVE BlocksDisjoint
      OBVIOUS
    <2>1. Sound(page, blocks)
      BY DEF FifoInv, Alive, Dying
    <2>2. \A b \in blocks : b.page \in Pages
      BY <2>1 DEF Sound, Typed, BlockRec
    <2>3. QED
      BY <2>1, <2>2 DEF BlocksDisjoint, Sound, Placed, Apart, Counted
  <1>2. QED
    BY <1>1, FifoAlways, PTL

\* A page with no block is the current one or the one kept aside, and the pool
\* is freed with the last block after mem_fifo_pool_delete, and not before.
THEOREM FifoNoPageLost == ASSUME FifoConstants PROVE Spec => []NoPageLost
  <1>1. FifoInv => NoPageLost
    <2> SUFFICES ASSUME FifoInv PROVE NoPageLost
      OBVIOUS
    <2>1. Sound(page, blocks) /\ (gone <=> (~palive /\ blocks = {}))
      BY DEF FifoInv, Alive, Dying
    <2>2. \A p \in Mapped : page[p].nb = Cardinality({b \in blocks : b.page = p})
      BY <2>1 DEF Sound, Counted, Mapped, BlocksOf
    <2>3. \A p \in Mapped : page[p].nb = 0 => p \in {current, freepage}
      <3>1. CASE palive
        BY <3>1 DEF FifoInv, Alive, Mapped
      <3>2. CASE ~palive
        BY <3>2 DEF FifoInv, Dying, Mapped
      <3>3. QED
        BY <3>1, <3>2
    <2>4. QED
      BY <2>1, <2>2, <2>3 DEF NoPageLost
  <1>2. QED
    BY <1>1, FifoAlways, PTL
=============================================================================
