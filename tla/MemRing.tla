------------------------------- MODULE MemRing -------------------------------
(***************************************************************************)
(* The ring allocator (core/mem-ring.c).  One thread fills the active      *)
(* frame and seals it, any thread releases sealed frames, in any order.    *)
(* Blocks form a ring of links; frames form a list in the order of the     *)
(* ring, and their headers lie in the blocks, between the data.  Memory is *)
(* counted in units: a header takes one.  What depends on the mean size of *)
(* allocations (reuse or destroy a block) is a free choice.  An allocation *)
(* looks for a block with the lock, mem_ring_seal without: the walk over   *)
(* the blocks reads links and writes them in steps of their own.           *)
(***************************************************************************)
EXTENDS Dlist, Sequences, SequencesExt

CONSTANTS Blks,      \* names for blocks
          BlkSize,   \* units in a block
          Sizes,     \* sizes of allocations
          NULL,
          ResetAt,   \* 256: releases after which unused blocks are destroyed
          Racing     \* do releases move blocks while mem_ring_seal, without the
                     \* lock, is between the reads and the writes of links?

VARIABLES links,     \* the links of each block; NULL when it does not exist
          cblk,      \* rp->cblk
          fhead,     \* the list of frames, by address; rp->ring is the last
          free,      \* the frames with FRAME_IS_FREE
          pos,       \* rp->pos
          last,      \* rp->last
          live,      \* the frames users hold
          data,      \* the units allocated in each of them
          cnt,       \* rp->frames_cnt
          nrel,      \* rp->nb_frames_release, up to ResetAt
          alive,     \* rp->alive
          walk,      \* the rp_reserve in progress: what it does next, for whom
                     \* (seal, n), the first frame it has read, and the block
                     \* and the links it works on
          panic      \* mem_ring_newframe has met rp->pos # NULL

ringVars == <<links, cblk, fhead, free, pos, last>>
userVars == <<live, data, cnt, nrel, alive>>
vars == <<ringVars, userVars, walk, panic>>

Addrs == Blks \X (0..(BlkSize - 1))
BlkOf(a) == a[1]
Units(a, n) == {<<BlkOf(a), a[2] + k>> : k \in 0..(n - 1)}
After(a, n) == <<BlkOf(a), a[2] + n>>
Fits(a, n) == a[2] + n <= BlkSize

Exists == {b \in Blks : links[b] # NULL}
Ring == Last(fhead)
NoWalk == [pc |-> "no"]

Init ==
  \E b \in Blks :
    /\ links = [c \in Blks |-> IF c = b THEN Self(b) ELSE NULL]
    /\ cblk = b
    /\ fhead = << <<b, 0>> >>
    /\ free = {}
    /\ pos = NULL /\ last = NULL
    /\ live = {} /\ data = [f \in Addrs |-> {}]
    /\ cnt = 0 /\ nrel = 0 /\ alive = TRUE
    /\ walk = NoWalk
    /\ panic = FALSE

Idle == alive /\ walk = NoWalk /\ ~panic

\* rp->lock is held by rp_alloc during its walk.
Locked == walk.pc \notin {"no", "set"} /\ ~walk.seal

-----------------------------------------------------------------------------
(* The thread that allocates *)

mem_ring_newframe ==
  /\ Idle
  /\ Ring \notin live
  /\ IF pos # NULL
     THEN panic' = TRUE /\ UNCHANGED <<pos, live, data, cnt>>
     ELSE /\ pos' = After(Ring, 1)
          /\ live' = live \cup {Ring}
          /\ data' = [data EXCEPT ![Ring] = {}]
          /\ cnt' = cnt + 1
          /\ UNCHANGED panic
  /\ UNCHANGED <<links, cblk, fhead, free, last, nrel, alive, walk>>

\* The end of rp_alloc, which has reserved n units at a.
Allocated(a, n) ==
  /\ cblk' = BlkOf(a) /\ pos' = After(a, n) /\ last' = a
  /\ data' = [data EXCEPT ![Ring] = @ \cup Units(a, n)]
  /\ walk' = NoWalk

\* The end of rp_reserve in mem_ring_seal: the address of the next header.
Reserved(a) ==
  /\ walk' = [pc |-> "set", at |-> a]
  /\ UNCHANGED <<cblk, pos, last, data>>

\* frame_get_next_blk begins: it reads the first frame.
Looks(seal, n) ==
  /\ walk' = [pc |-> "next", seal |-> seal, n |-> n, start |-> Head(fhead)]
  /\ UNCHANGED <<cblk, pos, last, data>>

\* rp_alloc, with the lock, and mem_ring_seal, without, as far as rp_reserve when
\* it needs another block.
rp_alloc(n) ==
  /\ Idle /\ Ring \in live
  /\ IF Fits(pos, n) THEN Allocated(pos, n) ELSE Looks(FALSE, n)
  /\ UNCHANGED <<links, fhead, free, live, cnt, nrel, alive, panic>>

mem_ring_seal ==
  /\ Idle /\ Ring \in live
  /\ IF Fits(pos, 1) THEN Reserved(pos) ELSE Looks(TRUE, 1)
  /\ UNCHANGED <<links, fhead, free, live, cnt, nrel, alive, panic>>

\* rp_reserve returns the block b.
Found(b) ==
  IF walk.seal THEN Reserved(<<b, 0>>) ELSE Allocated(<<b, 0>>, walk.n)

Goes(pc, blk) ==
  /\ walk' = [pc |-> pc, seal |-> walk.seal, n |-> walk.n, start |-> walk.start,
              blk |-> blk]
  /\ UNCHANGED <<cblk, pos, last, data>>

\* Mutant of frame_get_next_blk: does not stop at the block of the first frame.
frame_get_next_blk_mut ==
  /\ walk.pc = "next"
  /\ LET b == links[cblk].nxt
     IN IF b = cblk THEN Goes("create", NULL)
        ELSE Found(b) \/ Goes("destroy", b)
  /\ UNCHANGED <<links, fhead, free, live, cnt, nrel, alive, panic>>

\* The block after the current one, up to the one that holds the first frame, is
\* free: it is kept, or destroyed for the next one to be looked at.
frame_get_next_blk ==
  /\ walk.pc = "next"
  /\ LET b == links[cblk].nxt
     IN IF b \in {cblk, BlkOf(walk.start)} THEN Goes("create", NULL)
        ELSE Found(b) \/ Goes("destroy", b)
  /\ UNCHANGED <<links, fhead, free, live, cnt, nrel, alive, panic>>

\* blk_destroy and blk_create read the links of the neighbours...
ReadLinks ==
  /\ \/ /\ walk.pc = "destroy"
        /\ walk' = [pc |-> "unlink", seal |-> walk.seal, n |-> walk.n,
                    start |-> walk.start, blk |-> walk.blk, by |-> links[walk.blk]]
     \/ /\ walk.pc = "create"
        /\ walk' = [pc |-> "link", seal |-> walk.seal, n |-> walk.n,
                    start |-> walk.start, blk |-> NULL, by |-> links[cblk]]
  /\ UNCHANGED <<ringVars, userVars, panic>>

\* ...and write them.
blk_destroy ==
  /\ walk.pc = "unlink"
  /\ links' = [Unlink(links, walk.by.prv, walk.by.nxt) EXCEPT ![walk.blk] = NULL]
  /\ walk' = [pc |-> "next", seal |-> walk.seal, n |-> walk.n, start |-> walk.start]
  /\ UNCHANGED <<cblk, fhead, free, pos, last, userVars, panic>>

blk_create ==
  /\ walk.pc = "link"
  /\ \E b \in Blks \ Exists :
        links' = Link(links, b, cblk, walk.by.nxt) /\ Found(b)
  /\ UNCHANGED <<fhead, free, live, cnt, nrel, alive, panic>>

\* rp_realloc of the last allocation, in place (otherwise it is an rp_alloc and
\* a copy, or nothing moves).
rp_realloc(n) ==
  /\ Idle /\ Ring \in live /\ last # NULL
  /\ Fits(last, n)
  /\ pos' = After(last, n)
  /\ data' = [data EXCEPT ![Ring] =
       (@ \ Units(last, pos[2] - last[2])) \cup Units(last, n)]
  /\ UNCHANGED <<links, cblk, fhead, free, last, live, cnt, nrel, alive, walk,
                 panic>>

\* The end of mem_ring_seal, with the lock.
ring_setup_frame ==
  /\ walk.pc = "set"
  /\ fhead' = Append(fhead, walk.at)
  /\ cblk' = BlkOf(walk.at)
  /\ pos' = NULL /\ last' = NULL
  /\ walk' = NoWalk
  /\ UNCHANGED <<links, free, userVars, panic>>

-----------------------------------------------------------------------------
(* Releases *)

\* Blocks strictly between b1 and b2 are moved after the current one.
Splice(b1, b2) ==
  LET first == links[b1].nxt
      end == links[b2].prv
      cut == Unlink(links, b1, b2)
  IN IF b1 = b2 \/ first = b2 THEN links
     ELSE Splice2(cut, cblk, cut[cblk].nxt, first, end)

\* __mem_ring_reset: keeps the current block c, that of the first frame, and
\* maybe one more.
__mem_ring_reset(l, c, first) ==
  LET others == {b \in Blks : l[b] # NULL} \ {c, BlkOf(first)}
      Destroy(b, m) == [DlistRemove(m, b) EXCEPT ![b] = NULL]
  IN {FoldSet(Destroy, l, others \ k) : k \in {{}} \cup {{b} : b \in others}}

\* The release of the active frame: the new list, free frames, blocks, pos
\* (ring_reset_frame, or ring_reset_to_prevframe, which leaves pos).
ReleaseActive(f) ==
  LET prev == fhead[Len(fhead) - 1]
  IN IF Len(fhead) > 1 /\ prev \in free
     THEN [fhead |-> Front(fhead), free |-> free \ {prev}, links |-> links,
           cblk |-> BlkOf(prev), pos |-> pos, last |-> last]
     ELSE [fhead |-> fhead, free |-> free, links |-> links,
           cblk |-> BlkOf(f), pos |-> NULL, last |-> NULL]

\* The release of a sealed frame: it is merged with its free neighbours; the
\* first one leaves the list; when the frame after it is the one to be used next
\* the ring goes back to it.
ReleaseSealed(f) ==
  LET i   == CHOOSE k \in DOMAIN fhead : fhead[k] = f
      nx0 == fhead[i + 1]
      l1  == IF nx0 \in free THEN RemoveAt(fhead, i + 1) ELSE fhead
      fr1 == free \ {nx0}
      nx  == l1[i + 1]
      merge == i > 1 /\ fhead[i - 1] \in free
      l2  == IF merge \/ i = 1 THEN RemoveAt(l1, i) ELSE l1
      g   == IF merge THEN fhead[i - 1] ELSE f
      same == [fhead |-> l2, free |-> fr1, links |-> links, cblk |-> cblk,
               pos |-> pos, last |-> last]
  IN IF i = 1 THEN same
     ELSE IF nx = Ring /\ pos = NULL
          THEN [same EXCEPT !.fhead = Front(l2), !.free = fr1 \ {g},
                            !.cblk = BlkOf(g)]
          ELSE [same EXCEPT !.free = fr1 \cup {g},
                            !.links = Splice(BlkOf(g), BlkOf(nx))]

Empty == [b \in Blks |-> NULL]

\* The release, with the lock, then the counts, the automatic reset and the end of
\* a dead pool.
mem_ring_release(f) ==
  /\ f \in live /\ ~panic /\ ~Locked
  /\ f = Ring => walk = NoWalk
  /\ LET r == IF f = Ring THEN ReleaseActive(f) ELSE ReleaseSealed(f)
         n == IF nrel < ResetAt THEN nrel + 1 ELSE nrel
         reset == n >= ResetAt /\ cnt = 1
     IN /\ Racing \/ walk.pc \notin {"unlink", "link"} \/ r.links = links
        /\ fhead' = r.fhead /\ free' = r.free /\ pos' = r.pos
        /\ last' = r.last /\ cblk' = r.cblk
        /\ nrel' = IF reset THEN 0 ELSE n
        /\ IF cnt = 1 /\ ~alive THEN links' = Empty
           ELSE IF reset
                THEN links' \in __mem_ring_reset(r.links, r.cblk, Head(r.fhead))
                ELSE links' = r.links
  /\ live' = live \ {f}
  /\ data' = [data EXCEPT ![f] = {}]
  /\ cnt' = cnt - 1
  /\ UNCHANGED <<alive, walk, panic>>

mem_ring_reset ==
  /\ Idle /\ cnt = 0
  /\ links' \in __mem_ring_reset(links, cblk, Head(fhead))
  /\ nrel' = 0
  /\ UNCHANGED <<cblk, fhead, free, pos, last, live, data, cnt, alive, walk, panic>>

\* With frames in use, the pool waits for their release.
mem_ring_delete ==
  /\ Idle
  /\ alive' = FALSE
  /\ links' = IF cnt > 0 THEN links ELSE Empty
  /\ UNCHANGED <<cblk, fhead, free, pos, last, live, data, cnt, nrel, walk, panic>>

-----------------------------------------------------------------------------
Next ==
  \/ mem_ring_newframe
  \/ \E n \in Sizes : rp_alloc(n) \/ rp_realloc(n)
  \/ mem_ring_seal \/ frame_get_next_blk \/ ReadLinks \/ blk_destroy \/ blk_create
  \/ ring_setup_frame
  \/ \E f \in live : mem_ring_release(f)
  \/ mem_ring_reset \/ mem_ring_delete

Spec == Init /\ [][Next]_vars

-----------------------------------------------------------------------------
(* Properties *)

\* The blocks that exist are linked in one ring: none is lost, and no link leads to
\* one that was destroyed.
OneRing ==
  Exists # {} =>
    /\ cblk \in Exists
    /\ \A b \in Exists : links[b].nxt \in Exists /\ links[links[b].nxt].prv = b
    /\ ToSet(Walk(links, cblk)) = Exists \ {cblk}

\* The memory of a frame in use is in a block that exists, and no unit of it is
\* given to another frame or to the header of a frame of the list (the reuse of
\* the ring stops at the first frame).
NoOverlap ==
  LET Held(f) == data[f] \cup {f}
      heads == ToSet(fhead)
  IN /\ \A f \in live : \A u \in Held(f) : BlkOf(u) \in Exists
     /\ \A f, g \in live : f # g => Held(f) \cap Held(g) = {}
     /\ \A f \in live : data[f] \cap heads = {}
     /\ Exists # {} => \A h \in heads : BlkOf(h) \in Exists
     /\ walk.pc = "set" => \A f \in live : walk.at \notin Held(f)

\* The list has every frame in use, no two free frames side by side and no free
\* frame at its ends, and the only frame that is neither in use nor free is the
\* active one: what is released is merged and given back.
ListTight ==
  Exists # {} =>
    /\ live \subseteq ToSet(fhead)
    /\ \A i \in DOMAIN fhead : fhead[i] \in free =>
         i > 1 /\ i < Len(fhead) /\ fhead[i + 1] \notin free
    /\ \A f \in ToSet(fhead) \ (live \cup free) : f = Ring

\* A deleted pool is destroyed with the release of its last frame.
DeadPoolFreed == ~alive => (Exists = {} <=> live = {})

\* The memory of the ring is shared out between its frames, and given back,
\* while frames are released during the walk that mem_ring_seal makes without the
\* lock.
RingSound == OneRing /\ NoOverlap /\ ListTight /\ DeadPoolFreed
=============================================================================
