------------------------------- MODULE MemStack -------------------------------
(***************************************************************************)
(* The stack allocator behind t_scope (core/mem-stack.c).  Frames are      *)
(* pushed and popped; their headers and data are taken from a list of      *)
(* blocks that starts with the pool itself (an empty block).  A block is   *)
(* reused, destroyed when too small, or created.                           *)
(***************************************************************************)
EXTENDS Naturals, Sequences, Functions

CONSTANTS Blks,        \* names for blocks
          Root,        \* the pool, first block of the list
          MinSize,     \* sp->minsize, in units (a frame header takes one)
          Sizes,       \* sizes of allocations
          MaxFrames    \* bound on the frames pushed

\* The pool is no other block, and sizes are numbers.
StackConstants == Root \notin Blks /\ MinSize \in Nat /\ Sizes \subseteq Nat

VARIABLES list,        \* sp->blk_list, Root first
          bsize,       \* the sizes of the blocks
          stack        \* the frames: at, blk, pos, last, and the units allocated

vars == <<list, bsize, stack>>

Top == Len(stack)
Units(b, o, n) == {<<b, o + k>> : k \in 0..(n - 1)}

\* frame_set_blk
SetBlk(f, b) == [at |-> f.at, blk |-> b, pos |-> 0, last |-> 0, mem |-> f.mem]

Init ==
  /\ list = <<Root>>
  /\ bsize = [b \in Blks \cup {Root} |-> 0]
  /\ stack = <<[at |-> <<Root, 0>>, blk |-> Root, pos |-> 0, last |-> 0,
                mem |-> {}]>>

\* Mutant of frame_get_next_blk: looks for room from the head of the list.
frame_get_next_blk_mut(cur, n) ==
  {[list |-> list, blk |-> b, size |-> bsize[b]] :
     b \in {c \in Range(list) : bsize[c] >= n}}
  \cup {[list |-> Append(list, b), blk |-> b, size |-> n + MinSize] :
          b \in Blks \ Range(list)}

Index(l, b) == CHOOSE i \in DOMAIN l : l[i] = b

\* What the first k blocks of rest had, and whether the walk over rest for n units
\* ends after them.
Freed(rest, k) == FoldFunction(+, 0, [i \in 1..k |-> bsize[rest[i]]])
Stops(rest, k, n) == k = Len(rest) \/ bsize[rest[k + 1]] >= n \/ Freed(rest, k) >= n

\* The blocks after cur: the first large enough is taken; those before it are
\* destroyed, until they make up for the block to be created.
frame_get_next_blk(cur, n) ==
  LET c == Index(list, cur)
      rest == SubSeq(list, c + 1, Len(list))
      k == CHOOSE i \in 0..Len(rest) :
             Stops(rest, i, n) /\ \A j \in 0..(i - 1) : ~Stops(rest, j, n)
      left == SubSeq(rest, k + 1, Len(rest))
  IN IF left # <<>> /\ bsize[Head(left)] >= n
     THEN {[list |-> SubSeq(list, 1, c) \o left, blk |-> Head(left),
            size |-> bsize[Head(left)]]}
     ELSE {[list |-> SubSeq(list, 1, c) \o <<b>> \o left, blk |-> b,
            size |-> IF n > MinSize THEN n ELSE MinSize] :
              b \in Blks \ Range(list)}

\* sp_reserve for the top frame f: the frame moves to another block when the
\* current one has not enough room.
sp_reserve(f, n) ==
  IF f.pos + n <= bsize[f.blk]
  THEN {[f |-> f, list |-> list, size |-> bsize[f.blk]]}
  ELSE {[f |-> SetBlk(f, r.blk), list |-> r.list, size |-> r.size] :
          r \in frame_get_next_blk(f.blk, n)}

Reserved(r) ==
  /\ list' = r.list
  /\ bsize' = [b \in DOMAIN bsize |->
       IF b = r.f.blk THEN r.size
       ELSE IF b \in Range(r.list) THEN bsize[b] ELSE 0]

\* sp_alloc: not in the base frame.
sp_alloc(n) ==
  /\ Top > 1
  /\ \E r \in sp_reserve(stack[Top], n) :
        /\ Reserved(r)
        /\ stack' = [stack EXCEPT ![Top] =
             [at |-> r.f.at, blk |-> r.f.blk, pos |-> r.f.pos + n, last |-> r.f.pos,
              mem |-> r.f.mem \cup Units(r.f.blk, r.f.pos, n)]]

\* sp_realloc of the last allocation of the top frame, in place (the others are
\* left where they are, or are allocated again and copied).
sp_realloc(n) ==
  /\ Top > 1
  /\ LET f == stack[Top]
     IN /\ <<f.blk, f.last>> \in f.mem
        /\ f.last + n <= bsize[f.blk]
        /\ stack' = [stack EXCEPT ![Top] =
             [at |-> f.at, blk |-> f.blk, pos |-> f.last + n, last |-> f.last,
              mem |-> (f.mem \ Units(f.blk, f.last, f.pos - f.last))
                      \cup Units(f.blk, f.last, n)]]
  /\ UNCHANGED <<list, bsize>>

mem_stack_pool_push ==
  /\ Top < MaxFrames
  /\ \E r \in sp_reserve(stack[Top], 1) :
        /\ Reserved(r)
        /\ stack' = Append([stack EXCEPT ![Top] = r.f],
             [at |-> <<r.f.blk, r.f.pos>>, blk |-> r.f.blk,
              pos |-> r.f.pos + 1, last |-> r.f.pos + 1, mem |-> {}])

\* mem_stack_pool_reset keeps one block at most.
ResetTo(keep) ==
  /\ list' = <<Root>> \o keep
  /\ bsize' = [b \in DOMAIN bsize |-> IF b \in Range(keep) THEN bsize[b] ELSE 0]
  /\ stack' = <<SetBlk(stack[1], IF keep = <<>> THEN Root ELSE keep[1])>>

\* The pop of the last frame may reset the pool (depending on its size and on
\* the time of the last reset).
mem_stack_pool_pop ==
  /\ Top > 1
  /\ \/ stack' = SubSeq(stack, 1, Top - 1) /\ UNCHANGED <<list, bsize>>
     \/ /\ Top = 2
        /\ \E keep \in {<<>>} \cup {<<b>> : b \in Range(Tail(list))} :
              ResetTo(keep)

Next ==
  \/ \E n \in Sizes : sp_alloc(n) \/ sp_realloc(n)
  \/ mem_stack_pool_push \/ mem_stack_pool_pop

Spec == Init /\ [][Next]_vars

-----------------------------------------------------------------------------
\* The header and the data of every frame of the stack stay in a block of the
\* list, within its size, and are shared with no other frame, however the blocks
\* after the current one are destroyed and created (sp_reserve may move the frame
\* below the one being pushed).
FramesKept ==
  LET Held(i) == stack[i].mem \cup {stack[i].at}
  IN \A i \in 2..Top :
       /\ \A u \in Held(i) : u[1] \in Range(list) /\ u[2] < bsize[u[1]]
       /\ stack[i].at \notin stack[i].mem
       /\ \A j \in 2..(i - 1) : Held(i) \cap Held(j) = {}
=============================================================================
