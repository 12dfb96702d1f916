--------------------------- MODULE MemStackProofs ---------------------------
(***************************************************************************)
(* The frames of the stack allocator (MemStack) keep their data, for any   *)
(* blocks, sizes and number of frames.                                     *)
(***************************************************************************)
EXTENDS MemStack, SequenceTheorems, WellFoundedInduction, TLAPS

(* The invariant of the stack allocator.  What a frame holds lies along the list of
   blocks between the cursor of the frame below and its own cursor. *)

Blk == Blks \cup {Root}
Unit == Blk \X Nat
Frame == [at : Unit, blk : Blk, pos : Nat, last : Nat, mem : SUBSET Unit]

ListOK(l) ==
  /\ l \in Seq(Blk) /\ l # <<>> /\ l[1] = Root
  /\ \A i, j \in 1..Len(l) : l[i] = l[j] => i = j

\* The order of the units along the list of blocks.
Before(l, u, v) ==
  \/ Index(l, u[1]) < Index(l, v[1])
  \/ u[1] = v[1] /\ u[2] < v[2]
NotAfter(l, u, v) == Before(l, u, v) \/ u = v

Cursor(f) == <<f.blk, f.pos>>

Has(l, b) == \E i \in 1..Len(l) : l[i] = b

InList(l, bs, u) == Has(l, u[1]) /\ u[2] < bs[u[1]]

\* The base frame has no header of its own and no data.
Sound(l, bs, st) ==
  /\ ListOK(l) /\ bs \in [Blk -> Nat]
  /\ st \in Seq(Frame) /\ st # <<>>
  /\ \A k \in 1..Len(st) :
       /\ Has(l, st[k].blk)
       /\ st[k].pos <= bs[st[k].blk]
  /\ \A k \in 2..Len(st) :
       /\ InList(l, bs, st[k].at) /\ Before(l, st[k].at, Cursor(st[k]))
       /\ \A u \in st[k].mem :
            InList(l, bs, u) /\ Before(l, st[k].at, u) /\ Before(l, u, Cursor(st[k]))
       /\ \A j \in 1..(k - 1) : NotAfter(l, Cursor(st[j]), st[k].at)

StackInv == Sound(list, bsize, stack)

-----------------------------------------------------------------------------
\* A set of numbers that is not empty has a least one.
LEMMA Least ==
  ASSUME NEW T, T \subseteq Nat, T # {}
  PROVE  \E x \in T : \A y \in T : x <= y
  <1> DEFINE R == {ss \in Nat \X Nat : ss[1] < ss[2]}
  <1>1. OpToRel(<, Nat) = R
    BY DEF OpToRel
  <1>2. IsWellFoundedOn(R, Nat)
    BY <1>1, NatLessThanWellFounded, Zenon
  <1> HIDE DEF R
  <1>3. PICK x \in T : \A y \in T : ~(<<y, x>> \in R)
    BY <1>2, WFMin
  <1>4. ASSUME NEW y \in T PROVE x <= y
    <2>1. x \in Nat /\ y \in Nat /\ <<y, x>> \notin R
      BY <1>3
    <2> DEFINE ss == <<y, x>>
    <2>2. ~(ss[1] < ss[2])
      BY <2>1 DEF R
    <2>3. QED
      BY <2>1, <2>2
  <1>5. QED
    BY <1>4

\* The index of a block in the list is the place where it is.
LEMMA IndexIs ==
  ASSUME NEW l, ListOK(l)
  PROVE  /\ \A i \in 1..Len(l) : Index(l, l[i]) = i
         /\ \A b : Has(l, b) => Index(l, b) \in 1..Len(l) /\ l[Index(l, b)] = b
  <1>1. DOMAIN l = 1..Len(l)
    BY LenProperties DEF ListOK
  <1>2. \A b : Has(l, b) => Index(l, b) \in 1..Len(l) /\ l[Index(l, b)] = b
    BY <1>1 DEF Index, Has
  <1>3. QED
    BY <1>2 DEF ListOK, Has

\* Blocks that stay in place keep their order.
LEMMA SameIndex ==
  ASSUME NEW l, NEW m, ListOK(l), ListOK(m), NEW c \in 1..Len(l), c <= Len(m),
         \A i \in 1..c : m[i] = l[i],
         NEW b, Has(l, b), Index(l, b) <= c
  PROVE  Has(m, b) /\ Index(m, b) = Index(l, b)
  <1>1. Len(l) \in Nat /\ Len(m) \in Nat
    BY LenProperties DEF ListOK
  <1> DEFINE i == Index(l, b)
  <1>2. i \in 1..Len(l) /\ l[i] = b
    BY IndexIs
  <1> HIDE DEF i
  <1>3. i \in 1..Len(m) /\ m[i] = b
    BY <1>1, <1>2 DEF i
  <1>4. QED
    BY <1>3, IndexIs DEF Has, i

\* A list from which the blocks after place c and up to place d are taken off.
LEMMA CutOK ==
  ASSUME NEW l, ListOK(l), NEW c \in 1..Len(l), NEW d \in c..Len(l), NEW left \in Seq(Blk),
         Len(left) = Len(l) - d, \A i \in 1..Len(left) : left[i] = l[d + i]
  PROVE  LET m == SubSeq(l, 1, c) \o left
         IN  ListOK(m) /\ c <= Len(m) /\ \A i \in 1..c : m[i] = l[i]
  <1>1. Len(l) \in Nat /\ \A i \in 1..Len(l) : l[i] \in Blk
    BY LenProperties, ElementOfSeq DEF ListOK
  <1> DEFINE a == SubSeq(l, 1, c)
             m == a \o left
  <1>2. a \in Seq(Blk) /\ Len(a) = c /\ \A i \in 1..c : a[i] = l[i]
    BY <1>1, SubSeqProperties
  <1> HIDE DEF a
  <1>3. /\ m \in Seq(Blk) /\ Len(m) = c + Len(left)
        /\ \A i \in 1..(c + Len(left)) : m[i] = IF i <= c THEN a[i] ELSE left[i - c]
    BY <1>2, ConcatProperties
  <1> HIDE DEF m
  <1>4. Len(left) \in Nat
    BY LenProperties
  <1>5. \A i \in 1..Len(m) : m[i] = IF i <= c THEN l[i] ELSE l[d - c + i]
    <2> TAKE i \in 1..Len(m)
    <2>1. CASE i <= c
      BY <1>1, <1>2, <1>3, <1>4, <2>1
    <2>2. CASE ~(i <= c)
      <3>1. i - c \in 1..Len(left) /\ i \in 1..(c + Len(left)) /\ d + (i - c) = d - c + i
        BY <1>1, <1>3, <1>4, <2>2
      <3>2. QED
        BY <1>3, <2>2, <3>1
    <2>3. QED
      BY <2>1, <2>2
  <1>6. \A i, j \in 1..Len(m) : m[i] = m[j] => i = j
    <2> TAKE i, j \in 1..Len(m)
    <2> DEFINE at(x) == IF x <= c THEN x ELSE d - c + x
    <2>1. m[i] = l[at(i)] /\ m[j] = l[at(j)]
      BY <1>5
    <2>2. at(i) \in 1..Len(l) /\ at(j) \in 1..Len(l)
      BY <1>1, <1>3, <1>4
    <2>3. at(i) = at(j) => i = j
      BY <1>1, <1>3, <1>4
    <2> HIDE DEF at
    <2>4. QED
      BY <2>1, <2>2, <2>3 DEF ListOK
  <1>7. m # <<>> /\ m[1] = l[1]
    <2>1. 1 \in 1..Len(m) /\ Len(m) # 0
      BY <1>1, <1>3, <1>4
    <2>2. QED
      BY <1>1, <1>5, <2>1, EmptySeq
  <1>8. c <= Len(m) /\ \A i \in 1..c : m[i] = l[i]
    BY <1>1, <1>3, <1>4, <1>5
  <1>9. ListOK(m)
    BY <1>3, <1>6, <1>7 DEF ListOK
  <1>10. QED
    BY <1>8, <1>9 DEF m, a

\* A block that is added to a list after its first part.
LEMMA AddOK ==
  ASSUME NEW a \in Seq(Blk), NEW left \in Seq(Blk), NEW b \in Blk,
         a # <<>>, ListOK(a \o left), ~Has(a \o left, b)
  PROVE  LET m == a \o <<b>> \o left
         IN  /\ ListOK(m) /\ Len(a) + 1 <= Len(m) /\ m[Len(a) + 1] = b
             /\ \A i \in 1..Len(a) : m[i] = (a \o left)[i]
  <1> DEFINE l == a \o left
             e == a \o <<b>>
             m == e \o left
             c == Len(a)
  <1>1. c \in Nat \ {0} /\ Len(left) \in Nat
    BY EmptySeq, LenProperties
  <1>2. /\ l \in Seq(Blk) /\ Len(l) = c + Len(left)
        /\ \A i \in 1..(c + Len(left)) : l[i] = IF i <= c THEN a[i] ELSE left[i - c]
    BY ConcatProperties
  <1>3. /\ e \in Seq(Blk) /\ Len(e) = c + 1 /\ e[c + 1] = b
        /\ \A i \in 1..c : e[i] = a[i]
    BY <1>1, AppendProperties, AppendIsConcat
  <1> HIDE DEF e, l
  <1>4. /\ m \in Seq(Blk) /\ Len(m) = c + 1 + Len(left)
        /\ \A i \in 1..(c + 1 + Len(left)) : m[i] = IF i <= c + 1 THEN e[i] ELSE left[i - (c + 1)]
    <2>1. /\ m \in Seq(Blk) /\ Len(m) = Len(e) + Len(left)
          /\ \A i \in 1..(Len(e) + Len(left)) : m[i] = IF i <= Len(e) THEN e[i] ELSE left[i - Len(e)]
      BY <1>3, ConcatProperties
    <2>2. QED
      BY <1>3, <2>1
  <1> HIDE DEF m, c
  <1>5. \A i \in 1..Len(m) : m[i] = IF i <= c THEN l[i] ELSE IF i = c + 1 THEN b ELSE l[i - 1]
    <2> TAKE i \in 1..Len(m)
    <2>1. CASE i <= c
      <3>1. i \in 1..c /\ i \in 1..(c + Len(left)) /\ i \in 1..(c + 1 + Len(left)) /\ i <= c + 1
        BY <1>1, <1>4, <2>1
      <3>2. QED
        BY <1>2, <1>3, <1>4, <2>1, <3>1
    <2>2. CASE i = c + 1
      BY <1>1, <1>3, <1>4, <2>2
    <2>3. CASE ~(i <= c) /\ i # c + 1
      <3>1. /\ i \in 1..(c + 1 + Len(left)) /\ ~(i <= c + 1) /\ i - (c + 1) = i - 1 - c
            /\ i - 1 \in 1..(c + Len(left)) /\ ~(i - 1 <= c)
        BY <1>1, <1>4, <2>3
      <3>2. m[i] = left[i - 1 - c]
        BY <1>4, <3>1
      <3>3. l[i - 1] = left[i - 1 - c]
        BY <1>2, <3>1
      <3>4. QED
        BY <2>3, <3>2, <3>3
    <2>4. QED
      BY <2>1, <2>2, <2>3
  <1>6. /\ \A i \in 1..Len(l) : l[i] # b
        /\ l # <<>> /\ l[1] = Root /\ \A i, j \in 1..Len(l) : l[i] = l[j] => i = j
    BY DEF l, ListOK, Has
  <1>7. \A i, j \in 1..Len(m) : m[i] = m[j] => i = j
    <2> TAKE i, j \in 1..Len(m)
    <2> DEFINE at(x) == IF x <= c THEN x ELSE x - 1
    <2>1. \A x \in 1..Len(m) : x # c + 1 => at(x) \in 1..Len(l) /\ m[x] = l[at(x)]
      BY <1>1, <1>2, <1>4, <1>5
    <2>2. i # c + 1 /\ j # c + 1 /\ at(i) = at(j) => i = j
      BY <1>1, <1>4
    <2> HIDE DEF at
    <2>3. m[c + 1] = b
      BY <1>1, <1>4, <1>5
    <2>4. \A x \in 1..Len(m) : x # c + 1 => m[x] # b
      BY <1>6, <2>1
    <2>5. CASE i # c + 1 /\ j # c + 1
      BY <1>6, <2>1, <2>2, <2>5
    <2>6. CASE i = c + 1 \/ j = c + 1
      BY <2>3, <2>4, <2>6
    <2>7. QED
      BY <2>5, <2>6
  <1>8. m # <<>> /\ m[1] = Root
    <2>1. 1 \in 1..Len(m) /\ Len(m) # 0 /\ 1 <= c
      BY <1>1, <1>4
    <2>2. QED
      BY <1>5, <1>6, <2>1, EmptySeq
  <1>9. c + 1 <= Len(m) /\ m[c + 1] = b /\ \A i \in 1..c : m[i] = l[i]
    BY <1>1, <1>4, <1>5
  <1>10. ListOK(m)
    BY <1>4, <1>7, <1>8 DEF ListOK
  <1>11. QED
    BY <1>9, <1>10 DEF m, e, l, c

\* A block found after another one by frame_get_next_blk is just after it, large
\* enough, and nothing before it has moved.
LEMMA NextBlock ==
  ASSUME StackConstants, ListOK(list), bsize \in [Blk -> Nat], NEW cur, Has(list, cur),
         NEW n \in Nat, NEW r \in frame_get_next_blk(cur, n)
  PROVE  LET c == Index(list, cur)
         IN  /\ ListOK(r.list) /\ c + 1 <= Len(r.list) /\ r.list[c + 1] = r.blk
             /\ \A i \in 1..c : r.list[i] = list[i]
             /\ r.blk \in Blk /\ r.size \in Nat /\ n <= r.size
  <1> DEFINE c == Index(list, cur)
             rest == SubSeq(list, c + 1, Len(list))
             stop(i) == Stops(rest, i, n)
             k == CHOOSE i \in 0..Len(rest) : stop(i) /\ \A j \in 0..(i - 1) : ~stop(j)
             left == SubSeq(rest, k + 1, Len(rest))
             a == SubSeq(list, 1, c)
  <1>1. c \in 1..Len(list) /\ Len(list) \in Nat /\ list \in Seq(Blk)
        /\ \A i \in 1..Len(list) : list[i] \in Blk
    BY IndexIs, LenProperties, ElementOfSeq DEF ListOK
  <1>r. \/ /\ left # <<>> /\ bsize[Head(left)] >= n
           /\ r = [list |-> a \o left, blk |-> Head(left), size |-> bsize[Head(left)]]
        \/ \E b \in Blks \ Range(list) :
             r = [list |-> a \o <<b>> \o left, blk |-> b,
                  size |-> IF n > MinSize THEN n ELSE MinSize]
    BY DEF frame_get_next_blk
  <1> HIDE DEF c
  <1>2. rest \in Seq(Blk) /\ Len(rest) = Len(list) - c
        /\ \A i \in 1..Len(rest) : rest[i] = list[c + i]
    <2>1. /\ \A i \in (c + 1)..Len(list) : list[i] \in Blk
          /\ c + 1 \in Int /\ Len(list) \in Int
      BY <1>1
    <2>2. /\ rest \in Seq(Blk)
          /\ Len(rest) = IF c + 1 <= Len(list) THEN Len(list) - (c + 1) + 1 ELSE 0
          /\ \A i \in 1..(Len(list) - (c + 1) + 1) : rest[i] = list[c + 1 + i - 1]
      BY <2>1, SubSeqProperties
    <2> HIDE DEF rest
    <2>3. Len(rest) = Len(list) - c
      BY <1>1, <2>2
    <2>4. ASSUME NEW i \in 1..Len(rest) PROVE rest[i] = list[c + i]
      <3>1. i \in 1..(Len(list) - (c + 1) + 1) /\ c + 1 + i - 1 = c + i
        BY <1>1, <2>3
      <3>2. QED
        BY <2>2, <3>1
    <2>5. QED
      BY <2>2, <2>3, <2>4
  <1> HIDE DEF rest, stop
  <1>3. k \in 0..Len(rest)
    <2> DEFINE T == {i \in 0..Len(rest) : stop(i)}
    <2>1. Len(rest) \in T
      BY <1>1, <1>2 DEF stop, Stops
    <2>2. T \subseteq Nat /\ T # {}
      BY <2>1
    <2>3. PICK i \in T : \A j \in T : i <= j
      BY <2>2, Least, Zenon
    <2>4. \A j \in 0..(i - 1) : ~stop(j)
      BY <1>1, <1>2, <2>3
    <2>5. QED
      BY <2>3, <2>4
  <1> HIDE DEF k
  <1>4. left \in Seq(Blk) /\ Len(left) = Len(list) - (c + k)
        /\ \A i \in 1..Len(left) : left[i] = list[c + k + i]
    <2>1. /\ \A i \in (k + 1)..Len(rest) : rest[i] \in Blk
          /\ k + 1 \in Int /\ Len(rest) \in Int /\ k \in Nat
      BY <1>1, <1>2, <1>3, ElementOfSeq
    <2>2. /\ left \in Seq(Blk)
          /\ Len(left) = IF k + 1 <= Len(rest) THEN Len(rest) - (k + 1) + 1 ELSE 0
          /\ \A i \in 1..(Len(rest) - (k + 1) + 1) : left[i] = rest[k + 1 + i - 1]
      BY <2>1, SubSeqProperties
    <2> HIDE DEF left
    <2>3. Len(left) = Len(list) - (c + k)
      <3>1. \A x, y, z \in Nat : z \in 0..(x - y) /\ y <= x =>
              (IF z + 1 <= x - y THEN x - y - (z + 1) + 1 ELSE 0) = x - (y + z)
        OBVIOUS
      <3>2. k \in 0..(Len(list) - c) /\ c \in Nat /\ c <= Len(list)
        BY <1>1, <1>2, <1>3
      <3>3. Len(left) = IF k + 1 <= Len(list) - c THEN Len(list) - c - (k + 1) + 1 ELSE 0
        BY <1>2, <2>2, Zenon
      <3>4. QED
        BY <1>1, <2>1, <3>1, <3>2, <3>3, Zenon
    <2>4. ASSUME NEW i \in 1..Len(left) PROVE left[i] = list[c + k + i]
      <3>1. /\ i \in 1..(Len(rest) - (k + 1) + 1) /\ k + 1 + i - 1 = k + i
            /\ k + i \in 1..Len(rest) /\ c + (k + i) = c + k + i
        BY <1>1, <1>2, <1>3, <2>3
      <3>2. left[i] = rest[k + i]
        BY <2>2, <3>1
      <3>3. rest[k + i] = list[c + (k + i)]
        BY <1>2, <3>1
      <3>4. QED
        BY <3>1, <3>2, <3>3
    <2>5. QED
      BY <2>2, <2>3, <2>4
  <1> HIDE DEF left
  <1>5. c + k \in c..Len(list)
    BY <1>1, <1>2, <1>3
  <1>6. a \in Seq(Blk) /\ Len(a) = c /\ a # <<>>
    BY <1>1, SubSeqProperties, EmptySeq
  <1>7. /\ ListOK(a \o left) /\ c <= Len(a \o left)
        /\ \A i \in 1..c : (a \o left)[i] = list[i]
    BY <1>1, <1>4, <1>5, CutOK
  <1> HIDE DEF a
  <1>8. CASE /\ left # <<>> /\ bsize[Head(left)] >= n
             /\ r = [list |-> a \o left, blk |-> Head(left), size |-> bsize[Head(left)]]
    <2>1. Head(left) \in Blk /\ Head(left) = left[1] /\ Len(left) \in Nat \ {0}
      BY <1>4, <1>8, EmptySeq, HeadTailProperties
    <2>2. Len(a \o left) = c + Len(left) /\ (a \o left)[c + 1] = left[1]
      <3>1. c + 1 \in 1..(Len(a) + Len(left)) /\ ~(c + 1 <= Len(a)) /\ c + 1 - Len(a) = 1
        BY <1>1, <1>6, <2>1
      <3>2. /\ Len(a \o left) = Len(a) + Len(left)
            /\ \A x \in 1..(Len(a) + Len(left)) :
                 (a \o left)[x] = IF x <= Len(a) THEN a[x] ELSE left[x - Len(a)]
        BY <1>4, <1>6, ConcatProperties
      <3>3. QED
        BY <1>6, <3>1, <3>2
    <2>3. c + 1 <= Len(a \o left)
      BY <1>1, <2>1, <2>2
    <2>4. bsize[Head(left)] \in Nat /\ n <= bsize[Head(left)]
      BY <1>8, <2>1
    <2>5. QED
      BY <1>7, <1>8, <2>1, <2>2, <2>3, <2>4 DEF c
  <1>9. ASSUME NEW b \in Blks \ Range(list),
               r = [list |-> a \o <<b>> \o left, blk |-> b,
                    size |-> IF n > MinSize THEN n ELSE MinSize]
        PROVE  /\ ListOK(r.list) /\ c + 1 <= Len(r.list) /\ r.list[c + 1] = r.blk
               /\ \A i \in 1..c : r.list[i] = list[i]
               /\ r.blk \in Blk /\ r.size \in Nat /\ n <= r.size
    <2>1. \A i \in 1..Len(list) : list[i] # b
      BY <1>1, <1>9, LenProperties DEF Range
    <2>2. ~Has(a \o left, b)
      <3> SUFFICES ASSUME NEW i \in 1..Len(a \o left), (a \o left)[i] = b PROVE FALSE
        BY DEF Has
      <3>1. Len(a \o left) = c + Len(left) /\ Len(left) \in Nat
            /\ \A x \in 1..(c + Len(left)) : (a \o left)[x] = IF x <= c THEN a[x] ELSE left[x - c]
        <4>1. /\ Len(a \o left) = Len(a) + Len(left)
              /\ \A x \in 1..(Len(a) + Len(left)) :
                   (a \o left)[x] = IF x <= Len(a) THEN a[x] ELSE left[x - Len(a)]
          BY <1>4, <1>6, ConcatProperties
        <4>2. QED
          BY <1>4, <1>6, <4>1, LenProperties
      <3>2. CASE i <= c
        <4>1. i \in 1..c /\ i \in 1..Len(list)
          BY <1>1, <3>1, <3>2
        <4>2. QED
          BY <1>7, <2>1, <4>1
      <3>3. CASE ~(i <= c)
        <4>1. i - c \in 1..Len(left) /\ i \in 1..(c + Len(left)) /\ c + k + (i - c) \in 1..Len(list)
          BY <1>1, <1>3, <1>4, <1>2, <3>1, <3>3
        <4>2. b = list[c + k + (i - c)]
          BY <1>4, <3>1, <3>3, <4>1
        <4>3. QED
          BY <2>1, <4>1, <4>2
      <3>4. QED
        BY <3>2, <3>3
    <2>3. b \in Blk
      BY DEF Blk
    <2>4. /\ ListOK(a \o <<b>> \o left) /\ c + 1 <= Len(a \o <<b>> \o left)
          /\ (a \o <<b>> \o left)[c + 1] = b
          /\ \A i \in 1..c : (a \o <<b>> \o left)[i] = (a \o left)[i]
      BY <1>4, <1>6, <1>7, <2>2, <2>3, AddOK
    <2>5. r.size \in Nat /\ n <= r.size
      BY <1>9 DEF StackConstants
    <2>6. QED
      BY <1>7, <1>9, <2>3, <2>4, <2>5
  <1>10. QED
    BY <1>r, <1>8, <1>9 DEF c

-----------------------------------------------------------------------------
\* The order of units is transitive and strict.
LEMMA OrderOK ==
  ASSUME NEW l, ListOK(l), NEW u \in Unit, NEW v \in Unit, NEW w \in Unit,
         Has(l, u[1]), Has(l, v[1]), Has(l, w[1])
  PROVE  /\ Before(l, u, v) /\ NotAfter(l, v, w) => Before(l, u, w)
         /\ NotAfter(l, u, v) /\ Before(l, v, w) => Before(l, u, w)
         /\ ~Before(l, u, u)
  <1>1. /\ Index(l, u[1]) \in Nat /\ Index(l, v[1]) \in Nat /\ Index(l, w[1]) \in Nat
        /\ u[2] \in Nat /\ v[2] \in Nat /\ w[2] \in Nat
    <2>1. Len(l) \in Nat
      BY LenProperties DEF ListOK
    <2>2. QED
      BY <2>1, IndexIs DEF Unit
  <1>2. QED
    BY <1>1 DEF Before, NotAfter

\* No unit is before itself.
LEMMA Irreflexive ==
  ASSUME NEW l, ListOK(l), NEW u \in Unit, Has(l, u[1]) PROVE ~Before(l, u, u)
  BY OrderOK

\* The parts of a frame.
LEMMA FrameParts ==
  ASSUME NEW f \in Frame
  PROVE  /\ f.at \in Unit /\ f.blk \in Blk /\ f.pos \in Nat /\ f.last \in Nat
         /\ f.mem \subseteq Unit
         /\ Cursor(f) \in Unit /\ Cursor(f)[1] = f.blk /\ Cursor(f)[2] = f.pos
  <1>1. f.at \in Unit /\ f.blk \in Blk /\ f.pos \in Nat /\ f.last \in Nat /\ f.mem \subseteq Unit
    BY DEF Frame
  <1>2. QED
    BY <1>1 DEF Cursor, Unit

\* What the frames hold is in the list, before the cursor of the top frame.
LEMMA TopIsLast ==
  ASSUME NEW l, NEW bs, NEW st, Sound(l, bs, st)
  PROVE  LET f == st[Len(st)]
         IN  /\ Len(st) \in Nat \ {0} /\ \A k \in 1..Len(st) : st[k] \in Frame
             /\ \A k \in 1..Len(st) : NotAfter(l, Cursor(st[k]), Cursor(f))
             /\ \A k \in 2..Len(st) :
                  /\ Before(l, st[k].at, Cursor(f))
                  /\ \A u \in st[k].mem : Before(l, u, Cursor(f))
  <1> DEFINE f == st[Len(st)]
  <1>1. Len(st) \in Nat \ {0} /\ \A k \in 1..Len(st) : st[k] \in Frame
    BY EmptySeq, ElementOfSeq DEF Sound
  <1>2. ListOK(l) /\ f \in Frame
    BY <1>1 DEF Sound
  <1>3. ASSUME NEW k \in 1..Len(st) PROVE NotAfter(l, Cursor(st[k]), Cursor(f))
    <2>1. CASE k = Len(st)
      BY <2>1 DEF NotAfter
    <2>2. CASE k # Len(st)
      <3>1. Len(st) \in 2..Len(st) /\ k \in 1..(Len(st) - 1)
        BY <1>1, <2>2
      <3>2. /\ NotAfter(l, Cursor(st[k]), f.at) /\ Before(l, f.at, Cursor(f))
            /\ Has(l, st[k].blk) /\ Has(l, f.blk) /\ Has(l, f.at[1])
        BY <1>1, <3>1 DEF Sound, InList
      <3>3. Before(l, Cursor(st[k]), Cursor(f))
        BY <1>1, <1>2, <3>2, FrameParts, OrderOK
      <3>4. QED
        BY <3>3 DEF NotAfter
    <2>3. QED
      BY <2>1, <2>2
  <1>4. ASSUME NEW k \in 2..Len(st)
        PROVE  Before(l, st[k].at, Cursor(f)) /\ \A u \in st[k].mem : Before(l, u, Cursor(f))
    <2>1. /\ k \in 1..Len(st) /\ Len(st) \in 1..Len(st)
          /\ st[k] \in Frame /\ NotAfter(l, Cursor(st[k]), Cursor(f))
      BY <1>1, <1>3
    <2>2. /\ InList(l, bs, st[k].at) /\ Before(l, st[k].at, Cursor(st[k]))
          /\ Has(l, st[k].blk) /\ Has(l, f.blk)
          /\ \A u \in st[k].mem : InList(l, bs, u) /\ Before(l, u, Cursor(st[k]))
      BY <2>1 DEF Sound
    <2>3. ASSUME NEW u \in Unit, Has(l, u[1]), Before(l, u, Cursor(st[k]))
          PROVE  Before(l, u, Cursor(f))
      BY <1>2, <2>1, <2>2, <2>3, FrameParts, OrderOK
    <2>4. QED
      BY <2>1, <2>2, <2>3, FrameParts DEF InList
  <1>5. QED
    BY <1>1, <1>3, <1>4

\* The top frame moves on, and nothing at or before its cursor moves: the list may
\* change after the block of the cursor.
LEMMA MoveTop ==
  ASSUME NEW l, NEW bs, NEW st, Sound(l, bs, st), NEW m, ListOK(m), NEW ms \in [Blk -> Nat],
         NEW g \in Frame, g.at = st[Len(st)].at, g.mem = st[Len(st)].mem,
         Has(m, g.blk), g.pos <= ms[g.blk],
         NotAfter(m, Cursor(st[Len(st)]), Cursor(g)),
         \A b \in Blk : Has(l, b) /\ Index(l, b) <= Index(l, st[Len(st)].blk) =>
           Has(m, b) /\ Index(m, b) = Index(l, b) /\ ms[b] = bs[b]
  PROVE  Sound(m, ms, [st EXCEPT ![Len(st)] = g])
  <1> DEFINE f == st[Len(st)]
             t == [st EXCEPT ![Len(st)] = g]
  <1>1. /\ Len(st) \in Nat \ {0} /\ \A k \in 1..Len(st) : st[k] \in Frame
        /\ \A k \in 1..Len(st) : NotAfter(l, Cursor(st[k]), Cursor(f))
        /\ \A k \in 2..Len(st) : /\ Before(l, st[k].at, Cursor(f))
                                 /\ \A u \in st[k].mem : Before(l, u, Cursor(f))
    BY TopIsLast
  <1>2. /\ t \in Seq(Frame) /\ Len(t) = Len(st)
        /\ \A k \in 1..Len(st) : t[k] = IF k = Len(st) THEN g ELSE st[k]
    <2>1. st \in Seq(Frame) /\ Len(st) \in 1..Len(st)
      BY <1>1 DEF Sound
    <2>2. QED
      BY <2>1, ExceptSeq
  <1>3. ListOK(l) /\ f \in Frame /\ Has(l, f.blk)
    BY <1>1 DEF Sound
  <1> HIDE DEF t, f
  \* The units that are kept.
  <1> DEFINE Low(u) == u \in Unit /\ Has(l, u[1]) /\ Index(l, u[1]) <= Index(l, f.blk)
  <1>4. ASSUME NEW u \in Unit, Has(l, u[1]), NotAfter(l, u, Cursor(f)) PROVE Low(u)
    <2>1. Index(l, u[1]) \in Nat /\ Index(l, f.blk) \in Nat
      <3>1. Len(l) \in Nat
        BY <1>3, LenProperties DEF ListOK
      <3>2. QED
        BY <1>3, <1>4, <3>1, IndexIs
    <2>2. Index(l, u[1]) <= Index(l, f.blk)
      BY <1>3, <1>4, <2>1, FrameParts DEF NotAfter, Before
    <2>3. QED
      BY <1>4, <2>2
  <1>5. ASSUME NEW u, Low(u)
        PROVE  Has(m, u[1]) /\ Index(m, u[1]) = Index(l, u[1]) /\ ms[u[1]] = bs[u[1]]
    BY <1>5 DEF f, Unit
  <1>6. ASSUME NEW u, NEW v, Low(u), Low(v)
        PROVE  /\ Before(l, u, v) => Before(m, u, v)
               /\ NotAfter(l, u, v) => NotAfter(m, u, v)
    BY <1>5, <1>6 DEF Before, NotAfter
  <1>7. \A k \in 1..Len(st) : Low(Cursor(st[k]))
    <2> TAKE k \in 1..Len(st)
    <2>1. Has(l, st[k].blk)
      BY DEF Sound
    <2>2. QED
      BY <1>1, <1>4, <2>1, FrameParts
  <1>8. \A k \in 2..Len(st) : Low(st[k].at) /\ \A u \in st[k].mem : Low(u)
    <2> TAKE k \in 2..Len(st)
    <2>1. k \in 1..Len(st)
      BY <1>1
    <2>2. Has(l, st[k].at[1]) /\ \A u \in st[k].mem : Has(l, u[1])
      BY DEF Sound, InList
    <2>3. st[k].at \in Unit /\ st[k].mem \subseteq Unit
      BY <1>1, <2>1, FrameParts
    <2>4. NotAfter(l, st[k].at, Cursor(f)) /\ \A u \in st[k].mem : NotAfter(l, u, Cursor(f))
      BY <1>1 DEF NotAfter
    <2>5. QED
      BY <1>4, <2>2, <2>3, <2>4
  <1> HIDE DEF Low
  <1>9. \A k \in 1..Len(st) : Has(m, st[k].blk) /\ st[k].pos <= ms[st[k].blk]
    <2> TAKE k \in 1..Len(st)
    <2>1. Has(m, st[k].blk) /\ ms[st[k].blk] = bs[st[k].blk]
      BY <1>1, <1>5, <1>7, FrameParts
    <2>2. QED
      BY <2>1 DEF Sound
  <1>10. \A k \in 1..Len(t) : Has(m, t[k].blk) /\ t[k].pos <= ms[t[k].blk]
    BY <1>2, <1>9
  <1>11. ASSUME NEW k \in 2..Len(st)
         PROVE  /\ InList(m, ms, st[k].at) /\ Before(m, st[k].at, Cursor(st[k]))
                /\ \A u \in st[k].mem : /\ InList(m, ms, u) /\ Before(m, st[k].at, u)
                                        /\ Before(m, u, Cursor(st[k]))
                /\ \A j \in 1..(k - 1) : NotAfter(m, Cursor(st[j]), st[k].at)
    <2>1. k \in 1..Len(st) /\ \A j \in 1..(k - 1) : j \in 1..Len(st)
      BY <1>1
    <2>2. /\ InList(l, bs, st[k].at) /\ Before(l, st[k].at, Cursor(st[k]))
          /\ \A u \in st[k].mem :
               InList(l, bs, u) /\ Before(l, st[k].at, u) /\ Before(l, u, Cursor(st[k]))
          /\ \A j \in 1..(k - 1) : NotAfter(l, Cursor(st[j]), st[k].at)
      BY DEF Sound
    <2>3. Low(st[k].at) /\ Low(Cursor(st[k])) /\ \A u \in st[k].mem : Low(u)
      BY <1>7, <1>8, <2>1
    <2>4. \A j \in 1..(k - 1) : Low(Cursor(st[j]))
      BY <1>7, <2>1
    <2>5. InList(m, ms, st[k].at) /\ \A u \in st[k].mem : InList(m, ms, u)
      BY <1>5, <2>2, <2>3 DEF InList
    <2>6. QED
      BY <1>6, <2>2, <2>3, <2>4, <2>5
  <1>12. ASSUME NEW k \in 2..Len(t)
         PROVE  /\ InList(m, ms, t[k].at) /\ Before(m, t[k].at, Cursor(t[k]))
                /\ \A u \in t[k].mem : /\ InList(m, ms, u) /\ Before(m, t[k].at, u)
                                       /\ Before(m, u, Cursor(t[k]))
                /\ \A j \in 1..(k - 1) : NotAfter(m, Cursor(t[j]), t[k].at)
    <2>1. k \in 2..Len(st) /\ k \in 1..Len(st)
          /\ \A j \in 1..(k - 1) : j \in 1..Len(st) /\ j # Len(st)
      BY <1>1, <1>2
    <2>2. \A j \in 1..(k - 1) : t[j] = st[j]
      BY <1>2, <2>1
    <2>3. CASE k # Len(st)
      BY <1>2, <1>11, <2>1, <2>2, <2>3
    <2>4. CASE k = Len(st)
      <3>1. t[k] = g /\ g.at = st[k].at /\ g.mem = st[k].mem /\ f = st[k]
        BY <1>2, <2>1, <2>4 DEF f
      <3>2. ASSUME NEW u \in Unit, Has(m, u[1]), Before(m, u, Cursor(f))
            PROVE  Before(m, u, Cursor(g))
        BY <1>3, <1>9, <2>1, <3>1, <3>2, FrameParts, OrderOK DEF f
      <3>3. st[k].at \in Unit /\ \A u \in st[k].mem : u \in Unit
        BY <1>1, <2>1, FrameParts
      <3>4. /\ InList(m, ms, st[k].at) /\ Before(m, st[k].at, Cursor(f))
            /\ \A u \in st[k].mem : InList(m, ms, u) /\ Before(m, st[k].at, u) /\ Before(m, u, Cursor(f))
            /\ \A j \in 1..(k - 1) : NotAfter(m, Cursor(st[j]), st[k].at)
        BY <1>11, <2>1, <3>1
      <3>5. Before(m, g.at, Cursor(g)) /\ \A u \in g.mem : Before(m, u, Cursor(g))
        BY <3>1, <3>2, <3>3, <3>4 DEF InList
      <3>6. QED
        BY <2>2, <3>1, <3>4, <3>5
    <2>5. QED
      BY <2>3, <2>4
  <1>13. t # <<>>
    BY <1>1, <1>2, EmptySeq
  <1>14. Sound(m, ms, t)
    BY <1>2, <1>10, <1>12, <1>13 DEF Sound
  <1>15. QED
    BY <1>14 DEF t

\* The top frame has other data, all between its header and its cursor.
LEMMA FillTop ==
  ASSUME NEW l, NEW bs, NEW st, Sound(l, bs, st),
         NEW g \in Frame, g.at = st[Len(st)].at, g.blk = st[Len(st)].blk, g.pos <= bs[g.blk],
         Before(l, g.at, Cursor(g)),
         \A u \in g.mem : InList(l, bs, u) /\ Before(l, g.at, u) /\ Before(l, u, Cursor(g))
  PROVE  Sound(l, bs, [st EXCEPT ![Len(st)] = g])
  <1> DEFINE t == [st EXCEPT ![Len(st)] = g]
  <1>1. Len(st) \in Nat \ {0} /\ \A k \in 1..Len(st) : st[k] \in Frame
    BY TopIsLast
  <1>2. /\ t \in Seq(Frame) /\ Len(t) = Len(st)
        /\ \A k \in 1..Len(st) : t[k] = IF k = Len(st) THEN g ELSE st[k]
    <2>1. st \in Seq(Frame) /\ Len(st) \in 1..Len(st)
      BY <1>1 DEF Sound
    <2>2. QED
      BY <2>1, ExceptSeq
  <1> HIDE DEF t
  <1>3. \A k \in 1..Len(t) : Has(l, t[k].blk) /\ t[k].pos <= bs[t[k].blk]
    <2>1. \A k \in 1..Len(st) : Has(l, st[k].blk) /\ st[k].pos <= bs[st[k].blk]
      BY DEF Sound
    <2>2. QED
      BY <1>1, <1>2, <2>1
  <1>4. ASSUME NEW k \in 2..Len(t)
        PROVE  /\ InList(l, bs, t[k].at) /\ Before(l, t[k].at, Cursor(t[k]))
               /\ \A u \in t[k].mem : /\ InList(l, bs, u) /\ Before(l, t[k].at, u)
                                      /\ Before(l, u, Cursor(t[k]))
               /\ \A j \in 1..(k - 1) : NotAfter(l, Cursor(t[j]), t[k].at)
    <2>1. k \in 2..Len(st) /\ k \in 1..Len(st)
          /\ \A j \in 1..(k - 1) : j \in 1..Len(st) /\ j # Len(st)
      BY <1>1, <1>2
    <2>2. \A j \in 1..(k - 1) : t[j] = st[j]
      BY <1>2, <2>1
    <2>3. /\ InList(l, bs, st[k].at) /\ Before(l, st[k].at, Cursor(st[k]))
          /\ \A u \in st[k].mem :
               InList(l, bs, u) /\ Before(l, st[k].at, u) /\ Before(l, u, Cursor(st[k]))
          /\ \A j \in 1..(k - 1) : NotAfter(l, Cursor(st[j]), st[k].at)
      BY <2>1 DEF Sound
    <2>4. CASE k # Len(st)
      BY <1>2, <2>1, <2>2, <2>3, <2>4
    <2>5. CASE k = Len(st)
      BY <1>2, <2>1, <2>2, <2>3, <2>5
    <2>6. QED
      BY <2>4, <2>5
  <1>5. t # <<>>
    BY <1>1, <1>2, EmptySeq
  <1>6. Sound(l, bs, t)
    BY <1>2, <1>3, <1>4, <1>5 DEF Sound
  <1>7. QED
    BY <1>6 DEF t

\* A frame is pushed whose header is the unit at the cursor of the top one.
LEMMA PushTop ==
  ASSUME NEW l, NEW bs, NEW st, Sound(l, bs, st), NEW h \in Frame, NEW g, g = st[Len(st)],
         h.at = Cursor(g), h.blk = g.blk, h.pos = g.pos + 1, h.pos <= bs[h.blk], h.mem = {}
  PROVE  Sound(l, bs, Append(st, h))
  <1> DEFINE t == Append(st, h)
             n == Len(st)
  <1>1. n \in Nat \ {0} /\ \A k \in 1..n : st[k] \in Frame /\ NotAfter(l, Cursor(st[k]), Cursor(g))
    BY TopIsLast
  <1>2. /\ t \in Seq(Frame) /\ t # <<>> /\ Len(t) = n + 1
        /\ \A k \in 1..n : t[k] = st[k]
        /\ t[n + 1] = h
    BY AppendProperties DEF Sound
  <1> HIDE DEF t, n
  <1>3. /\ g \in Frame /\ Has(l, g.blk) /\ bs \in [Blk -> Nat]
        /\ \A k \in 1..n : Has(l, st[k].blk) /\ st[k].pos <= bs[st[k].blk]
    BY <1>1 DEF Sound, n
  <1>4. \A k \in 1..Len(t) : Has(l, t[k].blk) /\ t[k].pos <= bs[t[k].blk]
    <2> TAKE k \in 1..Len(t)
    <2>1. CASE k \in 1..n
      BY <1>2, <1>3, <2>1
    <2>2. CASE k = n + 1
      BY <1>2, <1>3, <2>2
    <2>3. QED
      BY <1>1, <1>2, <2>1, <2>2
  <1>5. ASSUME NEW k \in 2..Len(t)
        PROVE  /\ InList(l, bs, t[k].at) /\ Before(l, t[k].at, Cursor(t[k]))
               /\ \A u \in t[k].mem : /\ InList(l, bs, u) /\ Before(l, t[k].at, u)
                                      /\ Before(l, u, Cursor(t[k]))
               /\ \A j \in 1..(k - 1) : NotAfter(l, Cursor(t[j]), t[k].at)
    <2>1. \A j \in 1..(k - 1) : j \in 1..n /\ t[j] = st[j]
      BY <1>1, <1>2
    <2>2. CASE k # n + 1
      <3>1. k \in 2..n /\ t[k] = st[k]
        BY <1>1, <1>2, <2>2
      <3>2. /\ InList(l, bs, st[k].at) /\ Before(l, st[k].at, Cursor(st[k]))
            /\ \A u \in st[k].mem :
                 InList(l, bs, u) /\ Before(l, st[k].at, u) /\ Before(l, u, Cursor(st[k]))
            /\ \A j \in 1..(k - 1) : NotAfter(l, Cursor(st[j]), st[k].at)
        BY <3>1 DEF Sound, n
      <3>3. QED
        BY <2>1, <3>1, <3>2
    <2>3. CASE k = n + 1
      <3>1. t[k] = h /\ h.mem = {}
        BY <1>2, <2>3
      <3>2. InList(l, bs, h.at)
        <4>1. h.at[1] = g.blk /\ h.at[2] = g.pos /\ g.pos \in Nat /\ bs[g.blk] \in Nat
          BY <1>3, FrameParts
        <4>2. QED
          BY <1>3, <4>1 DEF InList
      <3>3. Before(l, h.at, Cursor(h))
        <4>1. /\ h.at[1] = g.blk /\ h.at[2] = g.pos /\ g.pos \in Nat
              /\ Cursor(h)[1] = g.blk /\ Cursor(h)[2] = g.pos + 1
          BY <1>3, FrameParts
        <4>2. QED
          BY <4>1 DEF Before
      <3>4. QED
        BY <1>1, <2>1, <3>1, <3>2, <3>3
    <2>4. QED
      BY <2>2, <2>3
  <1>6. Sound(l, bs, t)
    BY <1>2, <1>4, <1>5 DEF Sound
  <1>7. QED
    BY <1>6 DEF t

\* sp_reserve: the top frame has room for n units, and nothing has moved.
LEMMA ReserveOK ==
  ASSUME StackConstants, StackInv, NEW n \in Nat,
         NEW r \in sp_reserve(stack[Len(stack)], n), Reserved(r)
  PROVE  /\ Sound(list', bsize', [stack EXCEPT ![Len(stack)] = r.f])
         /\ r.f \in Frame /\ r.f.pos + n <= bsize'[r.f.blk]
         /\ r.f.at = stack[Len(stack)].at /\ r.f.mem = stack[Len(stack)].mem
  <1> DEFINE f == stack[Len(stack)]
             c == Index(list, f.blk)
  <1>1. /\ Sound(list, bsize, stack) /\ ListOK(list) /\ bsize \in [Blk -> Nat]
        /\ f \in Frame /\ Has(list, f.blk) /\ f.pos <= bsize[f.blk]
    BY TopIsLast DEF StackInv, Sound
  <1>2. /\ f.at \in Unit /\ f.blk \in Blk /\ f.pos \in Nat /\ f.last \in Nat
        /\ f.mem \subseteq Unit
    BY <1>1, FrameParts
  <1>3. /\ list' = r.list
        /\ bsize' = [b \in Blk |-> IF b = r.f.blk THEN r.size
                                   ELSE IF b \in Range(r.list) THEN bsize[b] ELSE 0]
    BY <1>1 DEF Reserved
  <1>4. \A l : ListOK(l) => Range(l) = {b \in Blk : Has(l, b)}
    <2> TAKE l
    <2> HAVE ListOK(l)
    <2>1. DOMAIN l = 1..Len(l) /\ \A i \in 1..Len(l) : l[i] \in Blk
      BY LenProperties, ElementOfSeq DEF ListOK
    <2>2. QED
      BY <2>1 DEF Range, Has
  <1>5. \/ /\ f.pos + n <= bsize[f.blk]
           /\ r = [f |-> f, list |-> list, size |-> bsize[f.blk]]
        \/ \E q \in frame_get_next_blk(f.blk, n) :
             r = [f |-> SetBlk(f, q.blk), list |-> q.list, size |-> q.size]
    BY DEF sp_reserve
  <1> HIDE DEF f
  <1>6. CASE /\ f.pos + n <= bsize[f.blk]
             /\ r = [f |-> f, list |-> list, size |-> bsize[f.blk]]
    <2>1. r.f = f /\ r.list = list /\ r.size = bsize[f.blk]
      BY <1>6
    <2>2. bsize' \in [Blk -> Nat] /\ \A b \in Blk : Has(list, b) => bsize'[b] = bsize[b]
      BY <1>1, <1>2, <1>3, <1>4, <2>1
    <2>3. NotAfter(list, Cursor(f), Cursor(f)) /\ f.pos <= bsize'[f.blk]
          /\ f.pos + n <= bsize'[f.blk]
      BY <1>1, <1>2, <1>6, <2>2 DEF NotAfter
    <2>4. Sound(list, bsize', [stack EXCEPT ![Len(stack)] = f])
      BY <1>1, <2>2, <2>3, MoveTop DEF f
    <2>5. QED
      BY <1>1, <1>3, <2>1, <2>3, <2>4 DEF f
  <1>7. ASSUME NEW q \in frame_get_next_blk(f.blk, n),
               r = [f |-> SetBlk(f, q.blk), list |-> q.list, size |-> q.size]
        PROVE  /\ Sound(list', bsize', [stack EXCEPT ![Len(stack)] = r.f])
               /\ r.f \in Frame /\ r.f.pos + n <= bsize'[r.f.blk]
               /\ r.f.at = f.at /\ r.f.mem = f.mem
    <2>1. /\ ListOK(q.list) /\ c + 1 <= Len(q.list) /\ q.list[c + 1] = q.blk
          /\ \A i \in 1..c : q.list[i] = list[i]
          /\ q.blk \in Blk /\ q.size \in Nat /\ n <= q.size
      BY <1>1, NextBlock
    <2>2. /\ r.list = q.list /\ r.size = q.size /\ r.f \in Frame
          /\ r.f.at = f.at /\ r.f.mem = f.mem /\ r.f.blk = q.blk /\ r.f.pos = 0
      BY <1>2, <1>7, <2>1 DEF SetBlk, Frame
    <2>3. c \in 1..Len(list) /\ Len(list) \in Nat /\ Len(q.list) \in Nat
      BY <1>1, <2>1, IndexIs, LenProperties DEF ListOK
    <2> HIDE DEF c
    <2>4. c + 1 \in 1..Len(q.list) /\ c <= Len(q.list) /\ c + 1 # c
      BY <2>1, <2>3
    <2>5. Has(q.list, q.blk) /\ Index(q.list, q.blk) = c + 1
      BY <2>1, <2>4, IndexIs DEF Has
    <2>6. ASSUME NEW b \in Blk, Has(list, b), Index(list, b) <= c
          PROVE  /\ Has(q.list, b) /\ Index(q.list, b) = Index(list, b)
                 /\ bsize'[b] = bsize[b]
      <3>1. Has(q.list, b) /\ Index(q.list, b) = Index(list, b)
        BY <1>1, <2>1, <2>3, <2>4, <2>6, SameIndex
      <3>2. b # q.blk
        <4>1. Index(list, b) \in Nat
          BY <1>1, <2>3, <2>6, IndexIs
        <4>2. QED
          BY <2>3, <2>5, <2>6, <3>1, <4>1
      <3>3. QED
        BY <1>3, <1>4, <2>1, <2>2, <3>1, <3>2
    <2>7. bsize' \in [Blk -> Nat] /\ bsize'[q.blk] = q.size
      BY <1>1, <1>3, <2>1, <2>2
    <2>8. r.f.pos <= bsize'[q.blk] /\ r.f.pos + n <= bsize'[q.blk]
      BY <2>1, <2>2, <2>7
    <2>9. NotAfter(q.list, Cursor(f), Cursor(r.f))
      <3>1. Index(q.list, f.blk) = c
        <4>1. Index(list, f.blk) <= c
          BY <2>3 DEF c
        <4>2. QED
          BY <1>1, <1>2, <2>6, <4>1 DEF c
      <3>2. Cursor(f)[1] = f.blk /\ Cursor(r.f)[1] = q.blk
        BY <1>1, <2>2, FrameParts
      <3>3. QED
        BY <2>3, <2>5, <3>1, <3>2 DEF NotAfter, Before
    <2>10. Sound(q.list, bsize', [stack EXCEPT ![Len(stack)] = r.f])
      <3>1. /\ \A b \in Blk :
                 Has(list, b) /\ Index(list, b) <= Index(list, stack[Len(stack)].blk) =>
                   Has(q.list, b) /\ Index(q.list, b) = Index(list, b) /\ bsize'[b] = bsize[b]
            /\ r.f.at = stack[Len(stack)].at /\ r.f.mem = stack[Len(stack)].mem
            /\ NotAfter(q.list, Cursor(stack[Len(stack)]), Cursor(r.f))
        BY <2>2, <2>6, <2>9 DEF f, c
      <3>2. Has(q.list, r.f.blk) /\ r.f.pos <= bsize'[r.f.blk]
        BY <2>2, <2>5, <2>8
      <3>3. Sound(list, bsize, stack) /\ ListOK(q.list) /\ bsize' \in [Blk -> Nat] /\ r.f \in Frame
        BY <1>1, <2>1, <2>2, <2>7
      <3> HIDE DEF Sound
      <3>4. QED
        BY <3>1, <3>2, <3>3, MoveTop, Zenon
    <2>11. QED
      BY <1>3, <2>2, <2>8, <2>10
  <1>8. QED
    BY <1>5, <1>6, <1>7 DEF f

-----------------------------------------------------------------------------
\* The units of an allocation.
LEMMA UnitsOf ==
  ASSUME NEW b \in Blk, NEW o \in Nat, NEW n \in Nat
  PROVE  Units(b, o, n) = {u \in Unit : u[1] = b /\ o <= u[2] /\ u[2] < o + n}
  <1>1. ASSUME NEW k \in 0..(n - 1)
        PROVE  <<b, o + k>> \in Unit /\ o <= o + k /\ o + k < o + n
    BY DEF Unit
  <1>2. ASSUME NEW u \in Unit, u[1] = b, o <= u[2], u[2] < o + n
        PROVE  \E k \in 0..(n - 1) : u = <<b, o + k>>
    <2>1. u[2] \in Nat /\ u = <<u[1], u[2]>>
      BY DEF Unit
    <2>2. u[2] - o \in 0..(n - 1) /\ o + (u[2] - o) = u[2]
      BY <1>2, <2>1
    <2>3. u = <<b, o + (u[2] - o)>>
      BY <1>2, <2>1, <2>2
    <2>4. QED
      BY <2>2, <2>3
  <1>3. ASSUME NEW u \in Units(b, o, n)
        PROVE  u \in Unit /\ u[1] = b /\ o <= u[2] /\ u[2] < o + n
    BY <1>1, <1>3 DEF Units
  <1>4. ASSUME NEW u \in Unit, u[1] = b, o <= u[2], u[2] < o + n
        PROVE  u \in Units(b, o, n)
    BY <1>2, <1>4 DEF Units
  <1>5. QED
    BY <1>3, <1>4

\* sp_alloc takes units after the cursor of the top frame.
LEMMA AllocNext ==
  ASSUME StackConstants, StackInv, NEW n \in Sizes, sp_alloc(n) PROVE StackInv'
  <1> DEFINE top == Len(stack)
  <1>1. PICK r \in sp_reserve(stack[top], n) :
          /\ Reserved(r)
          /\ stack' = [stack EXCEPT ![top] =
               [at |-> r.f.at, blk |-> r.f.blk, pos |-> r.f.pos + n, last |-> r.f.pos,
                mem |-> r.f.mem \cup Units(r.f.blk, r.f.pos, n)]]
    BY DEF sp_alloc, Top
  <1>2. n \in Nat /\ top > 1
    BY DEF StackConstants, sp_alloc, Top
  <1> DEFINE st == [stack EXCEPT ![top] = r.f]
             g == [at |-> r.f.at, blk |-> r.f.blk, pos |-> r.f.pos + n, last |-> r.f.pos,
                   mem |-> r.f.mem \cup Units(r.f.blk, r.f.pos, n)]
  <1>3. Sound(list', bsize', st) /\ r.f \in Frame /\ r.f.pos + n <= bsize'[r.f.blk]
    BY <1>1, <1>2, ReserveOK
  <1>4. /\ top \in Nat \ {0} /\ stack \in Seq(Frame)
        /\ Len(st) = top /\ st[top] = r.f /\ stack' = [st EXCEPT ![top] = g]
    <2>1. top \in Nat \ {0} /\ stack \in Seq(Frame)
      BY TopIsLast DEF StackInv, Sound
    <2>2. top \in 1..Len(stack)
      BY <2>1
    <2>3. Len(st) = top /\ st[top] = r.f
      BY <1>3, <2>1, <2>2, ExceptSeq
    <2>4. [stack EXCEPT ![top] = g] = [st EXCEPT ![top] = g]
      OBVIOUS
    <2>5. QED
      BY <1>1, <2>1, <2>3, <2>4
  <1> DEFINE U == Units(r.f.blk, r.f.pos, n)
  <1>5. /\ r.f.at \in Unit /\ r.f.blk \in Blk /\ r.f.pos \in Nat /\ r.f.mem \subseteq Unit
        /\ Cursor(r.f) \in Unit /\ Cursor(r.f)[1] = r.f.blk /\ Cursor(r.f)[2] = r.f.pos
    BY <1>3, FrameParts
  <1>6. U = {u \in Unit : u[1] = r.f.blk /\ r.f.pos <= u[2] /\ u[2] < r.f.pos + n}
    BY <1>2, <1>5, UnitsOf
  <1> HIDE DEF U
  <1>7. g \in Frame /\ g.at = r.f.at /\ g.blk = r.f.blk /\ g.pos = r.f.pos + n /\ g.mem = r.f.mem \cup U
    BY <1>2, <1>5, <1>6 DEF Frame, U
  <1> HIDE DEF g, st
  <1>8. Cursor(g) \in Unit /\ Cursor(g)[1] = r.f.blk /\ Cursor(g)[2] = r.f.pos + n
    BY <1>7, FrameParts
  <1>9. /\ ListOK(list') /\ bsize' \in [Blk -> Nat] /\ Has(list', r.f.blk)
        /\ InList(list', bsize', r.f.at) /\ Before(list', r.f.at, Cursor(r.f))
        /\ \A u \in r.f.mem : /\ InList(list', bsize', u) /\ Before(list', r.f.at, u)
                              /\ Before(list', u, Cursor(r.f))
    <2>1. top \in 2..Len(st) /\ top \in 1..Len(st)
      BY <1>2, <1>4
    <2>2. QED
      BY <1>3, <1>4, <2>1 DEF Sound
  <1>10. NotAfter(list', Cursor(r.f), Cursor(g))
    <2>1. CASE n = 0
      <3>1. Cursor(g) = Cursor(r.f)
        BY <1>5, <1>7, <2>1 DEF Cursor
      <3>2. QED
        BY <3>1 DEF NotAfter
    <2>2. CASE n # 0
      BY <1>2, <1>5, <1>8, <2>2 DEF NotAfter, Before
    <2>3. QED
      BY <2>1, <2>2
  <1>11. ASSUME NEW u \in Unit, Has(list', u[1]), Before(list', u, Cursor(r.f))
         PROVE  Before(list', u, Cursor(g))
    BY <1>5, <1>8, <1>9, <1>10, <1>11, OrderOK
  <1>12. ASSUME NEW u \in U
         PROVE  /\ InList(list', bsize', u) /\ Before(list', r.f.at, u)
                /\ Before(list', u, Cursor(g))
    <2>1. u \in Unit /\ u[1] = r.f.blk /\ r.f.pos <= u[2] /\ u[2] < r.f.pos + n /\ u[2] \in Nat
      BY <1>6 DEF Unit
    <2>2. InList(list', bsize', u)
      BY <1>2, <1>3, <1>5, <1>9, <2>1 DEF InList
    <2>3. Before(list', u, Cursor(g))
      BY <1>8, <2>1 DEF Before
    <2>4. NotAfter(list', Cursor(r.f), u)
      <3>1. CASE u[2] = r.f.pos
        <4>1. u = <<u[1], u[2]>>
          BY <2>1 DEF Unit
        <4>2. QED
          BY <2>1, <3>1, <4>1 DEF NotAfter, Cursor
      <3>2. CASE u[2] # r.f.pos
        BY <1>5, <2>1, <3>2 DEF NotAfter, Before
      <3>3. QED
        BY <3>1, <3>2
    <2>5. Before(list', r.f.at, u)
      BY <1>5, <1>9, <2>1, <2>4, OrderOK DEF InList
    <2>6. QED
      BY <2>2, <2>3, <2>5
  <1>13. Before(list', g.at, Cursor(g))
    BY <1>5, <1>7, <1>9, <1>11 DEF InList
  <1>14. \A u \in g.mem : /\ InList(list', bsize', u) /\ Before(list', g.at, u)
                          /\ Before(list', u, Cursor(g))
    BY <1>5, <1>7, <1>9, <1>11, <1>12 DEF InList
  <1>15. g.pos <= bsize'[g.blk]
    BY <1>3, <1>7
  <1>16. Sound(list', bsize', [st EXCEPT ![Len(st)] = g])
    BY <1>3, <1>4, <1>7, <1>13, <1>14, <1>15, FillTop
  <1>17. QED
    BY <1>4, <1>16 DEF StackInv

\* sp_realloc: the last allocation of the top frame grows or shrinks in place.
LEMMA ReallocNext ==
  ASSUME StackConstants, StackInv, NEW n \in Sizes, sp_realloc(n) PROVE StackInv'
  <1> DEFINE f == stack[Len(stack)]
             g == [at |-> f.at, blk |-> f.blk, pos |-> f.last + n, last |-> f.last,
                   mem |-> (f.mem \ Units(f.blk, f.last, f.pos - f.last))
                           \cup Units(f.blk, f.last, n)]
  <1>1. /\ Len(stack) > 1 /\ <<f.blk, f.last>> \in f.mem /\ f.last + n <= bsize[f.blk]
        /\ stack' = [stack EXCEPT ![Len(stack)] = g]
        /\ list' = list /\ bsize' = bsize /\ n \in Nat
    BY DEF sp_realloc, Top, StackConstants
  <1>2. Sound(list, bsize, stack) /\ Len(stack) \in Nat \ {0} /\ f \in Frame
    BY TopIsLast DEF StackInv
  <1>3. /\ f.at \in Unit /\ f.blk \in Blk /\ f.pos \in Nat /\ f.mem \subseteq Unit /\ f.last \in Nat
        /\ Cursor(f) \in Unit /\ Cursor(f)[1] = f.blk /\ Cursor(f)[2] = f.pos
    BY <1>2, FrameParts
  <1>4. /\ ListOK(list) /\ bsize \in [Blk -> Nat] /\ Has(list, f.blk)
        /\ InList(list, bsize, f.at) /\ Before(list, f.at, Cursor(f))
        /\ \A u \in f.mem : InList(list, bsize, u) /\ Before(list, f.at, u) /\ Before(list, u, Cursor(f))
    <2>1. Len(stack) \in 2..Len(stack) /\ Len(stack) \in 1..Len(stack)
      BY <1>1, <1>2
    <2>2. QED
      BY <1>2, <2>1 DEF Sound
  <1> DEFINE v == <<f.blk, f.last>>
             U == Units(f.blk, f.last, n)
             W == Units(f.blk, f.last, f.pos - f.last)
  <1>5. v \in f.mem /\ v \in Unit /\ v[1] = f.blk /\ v[2] = f.last
    BY <1>1, <1>3 DEF Unit
  <1> HIDE DEF v
  <1>6. Before(list, f.at, v) /\ Before(list, v, Cursor(f))
    BY <1>4, <1>5
  <1>7. f.last < f.pos /\ f.pos - f.last \in Nat /\ f.last + (f.pos - f.last) = f.pos
    <2>1. Index(list, f.blk) \in Nat
      <3>1. Len(list) \in Nat
        BY <1>4, LenProperties DEF ListOK
      <3>2. QED
        BY <1>4, <3>1, IndexIs
    <2>2. f.last < f.pos
      BY <1>3, <1>5, <1>6, <2>1 DEF Before
    <2>3. QED
      BY <1>3, <2>2
  <1>8. /\ U = {u \in Unit : u[1] = f.blk /\ f.last <= u[2] /\ u[2] < f.last + n}
        /\ W = {u \in Unit : u[1] = f.blk /\ f.last <= u[2] /\ u[2] < f.last + (f.pos - f.last)}
    BY <1>1, <1>3, <1>7, UnitsOf
  <1> HIDE DEF U, W
  <1>9. g \in Frame /\ g.at = f.at /\ g.blk = f.blk /\ g.pos = f.last + n /\ g.mem = (f.mem \ W) \cup U
    BY <1>1, <1>3, <1>8 DEF Frame, U, W
  <1> HIDE DEF g, f
  <1>10. Cursor(g) \in Unit /\ Cursor(g)[1] = f.blk /\ Cursor(g)[2] = f.last + n
    BY <1>9, FrameParts
  <1>11. NotAfter(list, v, Cursor(g))
    <2>1. CASE n = 0
      <3>1. Cursor(g) = <<Cursor(g)[1], Cursor(g)[2]>> /\ v = <<v[1], v[2]>>
        BY <1>5, <1>10 DEF Unit
      <3>2. f.last + n = f.last
        BY <1>3, <2>1
      <3>3. QED
        BY <1>5, <1>10, <3>1, <3>2 DEF NotAfter
    <2>2. CASE n # 0
      BY <1>1, <1>3, <1>5, <1>10, <2>2 DEF NotAfter, Before
    <2>3. QED
      BY <2>1, <2>2
  <1>12. Has(list, v[1]) /\ Has(list, Cursor(g)[1]) /\ Has(list, f.at[1])
    BY <1>4, <1>5, <1>10 DEF InList
  <1>13. Before(list, f.at, Cursor(g))
    BY <1>3, <1>4, <1>5, <1>6, <1>10, <1>11, <1>12, OrderOK
  <1>14. ASSUME NEW u \in f.mem \ W
         PROVE  InList(list, bsize, u) /\ Before(list, f.at, u) /\ Before(list, u, Cursor(g))
    <2>1. u \in Unit /\ u[2] \in Nat /\ Has(list, u[1]) /\ Before(list, u, Cursor(f))
      BY <1>3, <1>4 DEF InList, Unit
    <2>2. u[1] = f.blk => u[2] < f.last \/ f.pos <= u[2]
      BY <1>3, <1>7, <1>8, <2>1
    <2>3. Before(list, u, v)
      <3>1. Index(list, f.blk) \in Nat
        <4>1. Len(list) \in Nat
          BY <1>4, LenProperties DEF ListOK
        <4>2. QED
          BY <1>4, <4>1, IndexIs
      <3>2. QED
        BY <1>3, <1>5, <2>1, <2>2, <3>1 DEF Before
    <2>4. Before(list, u, Cursor(g))
      BY <1>4, <1>5, <1>10, <1>11, <1>12, <2>1, <2>3, OrderOK
    <2>5. QED
      BY <1>4, <2>4
  <1>15. ASSUME NEW u \in U
         PROVE  InList(list, bsize, u) /\ Before(list, f.at, u) /\ Before(list, u, Cursor(g))
    <2>1. u \in Unit /\ u[1] = f.blk /\ f.last <= u[2] /\ u[2] < f.last + n /\ u[2] \in Nat
      BY <1>8 DEF Unit
    <2>2. InList(list, bsize, u)
      <3>1. f.last + n <= bsize[f.blk]
        BY <1>1 DEF f
      <3>2. QED
        BY <1>1, <1>3, <1>4, <2>1, <3>1 DEF InList
    <2>3. Before(list, u, Cursor(g))
      BY <1>10, <2>1 DEF Before
    <2>4. NotAfter(list, v, u)
      <3>1. CASE u[2] = f.last
        <4>1. u = <<u[1], u[2]>> /\ v = <<v[1], v[2]>>
          BY <1>5, <2>1 DEF Unit
        <4>2. QED
          BY <1>5, <2>1, <3>1, <4>1 DEF NotAfter
      <3>2. CASE u[2] # f.last
        BY <1>3, <1>5, <2>1, <3>2 DEF NotAfter, Before
      <3>3. QED
        BY <3>1, <3>2
    <2>5. Before(list, f.at, u)
      BY <1>3, <1>4, <1>5, <1>6, <1>12, <2>1, <2>4, OrderOK
    <2>6. QED
      BY <2>2, <2>3, <2>5
  <1>16. \A u \in g.mem : InList(list, bsize, u) /\ Before(list, g.at, u) /\ Before(list, u, Cursor(g))
    BY <1>9, <1>14, <1>15
  <1>17. g.pos <= bsize[g.blk] /\ Before(list, g.at, Cursor(g))
    BY <1>1, <1>9, <1>13 DEF f
  <1>18. Sound(list, bsize, [stack EXCEPT ![Len(stack)] = g])
    BY <1>2, <1>9, <1>16, <1>17, FillTop DEF f
  <1>19. QED
    BY <1>1, <1>18 DEF StackInv

\* mem_stack_pool_push: the header takes one unit, and the frame below may move.
LEMMA PushNext ==
  ASSUME StackConstants, StackInv, mem_stack_pool_push PROVE StackInv'
  <1> DEFINE top == Len(stack)
  <1>1. PICK r \in sp_reserve(stack[top], 1) :
          /\ Reserved(r)
          /\ stack' = Append([stack EXCEPT ![top] = r.f],
               [at |-> <<r.f.blk, r.f.pos>>, blk |-> r.f.blk,
                pos |-> r.f.pos + 1, last |-> r.f.pos + 1, mem |-> {}])
    BY DEF mem_stack_pool_push, Top
  <1> DEFINE st == [stack EXCEPT ![top] = r.f]
             h == [at |-> <<r.f.blk, r.f.pos>>, blk |-> r.f.blk,
                   pos |-> r.f.pos + 1, last |-> r.f.pos + 1, mem |-> {}]
  <1>2. Sound(list', bsize', st) /\ r.f \in Frame /\ r.f.pos + 1 <= bsize'[r.f.blk]
    BY <1>1, ReserveOK
  <1>3. Len(st) = top /\ st[top] = r.f
    <2>1. top \in Nat \ {0} /\ stack \in Seq(Frame)
      BY TopIsLast DEF StackInv, Sound
    <2>2. top \in 1..Len(stack)
      BY <2>1
    <2>3. QED
      BY <1>2, <2>1, <2>2, ExceptSeq
  <1>4. r.f.blk \in Blk /\ r.f.pos \in Nat
    BY <1>2, FrameParts
  <1>5. /\ h \in Frame /\ h.at = Cursor(r.f) /\ h.blk = r.f.blk /\ h.pos = r.f.pos + 1
        /\ h.mem = {} /\ h.pos <= bsize'[h.blk]
    <2>1. <<r.f.blk, r.f.pos>> \in Unit /\ r.f.pos + 1 \in Nat
      BY <1>4 DEF Unit
    <2>2. h \in Frame
      BY <1>4, <2>1 DEF Frame
    <2>3. h.at = Cursor(r.f)
      BY DEF Cursor
    <2>4. QED
      BY <1>2, <2>2, <2>3
  <1> HIDE DEF h, st
  <1>6. Sound(list', bsize', Append(st, h))
    BY <1>2, <1>3, <1>5, PushTop
  <1>7. QED
    BY <1>1, <1>6 DEF StackInv, h, st

\* A pool with the base frame only, as after mem_stack_pool_init and
\* mem_stack_pool_reset.
LEMMA BaseOnly ==
  ASSUME NEW l, ListOK(l), NEW bs \in [Blk -> Nat], NEW f \in Frame, Has(l, f.blk), f.pos = 0
  PROVE  Sound(l, bs, <<f>>)
  <1>1. /\ <<f>> \in Seq(Frame) /\ Len(<<f>>) = 1 /\ <<f>> # <<>>
        /\ \A k \in 1..1 : <<f>>[k] = f
    OBVIOUS
  <1>2. bs[f.blk] \in Nat
    BY FrameParts
  <1>3. \A k \in 1..1 : Has(l, <<f>>[k].blk) /\ <<f>>[k].pos <= bs[<<f>>[k].blk]
    BY <1>1, <1>2
  <1> DEFINE t == <<f>>
  <1> HIDE DEF t
  <1>4. 2..Len(t) = {}
    BY <1>1 DEF t
  <1>5. Sound(l, bs, t)
    BY <1>1, <1>3, <1>4 DEF Sound, t
  <1>6. QED
    BY <1>5 DEF t

\* The list after mem_stack_pool_reset.
LEMMA ResetList ==
  ASSUME StackConstants, NEW b \in Blks
  PROVE  ListOK(<<Root>> \o <<b>>) /\ Has(<<Root>> \o <<b>>, b)
  <1> DEFINE r == <<Root>>
             l == r \o <<b>>
  <1>1. r \in Seq(Blk) /\ Len(r) = 1 /\ r[1] = Root /\ b \in Blk /\ Root # b
    BY DEF Blk, StackConstants
  <1> HIDE DEF r
  <1>2. /\ Append(r, b) \in Seq(Blk) /\ Append(r, b) # <<>> /\ Len(Append(r, b)) = Len(r) + 1
        /\ \A i \in 1..Len(r) : Append(r, b)[i] = r[i]
        /\ Append(r, b)[Len(r) + 1] = b
    <2>1. r \in Seq(Blk) /\ b \in Blk
      BY <1>1
    <2>2. QED
      BY <2>1, AppendProperties
  <1>3. Append(r, b) = l
    BY <1>1, AppendIsConcat
  <1> HIDE DEF l
  <1>4. l \in Seq(Blk) /\ l # <<>> /\ Len(l) = 2 /\ l[1] = Root /\ l[2] = b
    BY <1>1, <1>2, <1>3
  <1>5. ListOK(l) /\ Has(l, b)
    BY <1>1, <1>4 DEF ListOK, Has
  <1>6. QED
    BY <1>5 DEF l, r

\* mem_stack_pool_pop forgets the top frame, and may reset the pool with the last
\* one.
LEMMA PopNext ==
  ASSUME StackConstants, StackInv, mem_stack_pool_pop PROVE StackInv'
  <1>1. /\ Len(stack) > 1 /\ Len(stack) \in Nat /\ Sound(list, bsize, stack)
        /\ \A k \in 1..Len(stack) : stack[k] \in Frame
    BY TopIsLast DEF StackInv, mem_stack_pool_pop, Top
  <1>2. CASE stack' = SubSeq(stack, 1, Len(stack) - 1) /\ UNCHANGED <<list, bsize>>
    <2> DEFINE t == SubSeq(stack, 1, Len(stack) - 1)
               n == Len(stack) - 1
    <2>1. n \in Nat \ {0} /\ n \in Int /\ 1 <= n /\ n - 1 + 1 = n /\ \A k \in 1..n : stack[k] \in Frame
      BY <1>1
    <2>2. /\ t \in Seq(Frame) /\ Len(t) = n
          /\ \A k \in 1..n : t[k] = stack[k]
      <3>1. /\ t \in Seq(Frame)
            /\ Len(t) = IF 1 <= n THEN n - 1 + 1 ELSE 0
            /\ \A k \in 1..(n - 1 + 1) : t[k] = stack[1 + k - 1]
        BY <2>1, SubSeqProperties
      <3>2. \A k \in 1..n : 1 + k - 1 = k
        OBVIOUS
      <3> HIDE DEF t, n
      <3>3. QED
        BY <2>1, <3>1, <3>2
    <2>3. n <= Len(stack) /\ \A k \in 1..n : k \in 1..Len(stack)
      BY <1>1
    <2>4. \A k \in 2..n : k \in 2..Len(stack) /\ k \in 1..n /\ \A j \in 1..(k - 1) : j \in 1..n
      BY <1>1
    <2> HIDE DEF t, n
    <2>5. \A k \in 1..n : Has(list, t[k].blk) /\ t[k].pos <= bsize[t[k].blk]
      BY <1>1, <2>2, <2>3 DEF Sound
    <2>6. ASSUME NEW k \in 2..n
          PROVE  /\ InList(list, bsize, t[k].at) /\ Before(list, t[k].at, Cursor(t[k]))
                 /\ \A u \in t[k].mem : /\ InList(list, bsize, u) /\ Before(list, t[k].at, u)
                                        /\ Before(list, u, Cursor(t[k]))
                 /\ \A j \in 1..(k - 1) : NotAfter(list, Cursor(t[j]), t[k].at)
      <3>1. t[k] = stack[k] /\ k \in 2..Len(stack) /\ \A j \in 1..(k - 1) : t[j] = stack[j]
        BY <2>2, <2>4
      <3>2. /\ InList(list, bsize, stack[k].at) /\ Before(list, stack[k].at, Cursor(stack[k]))
            /\ \A u \in stack[k].mem : /\ InList(list, bsize, u) /\ Before(list, stack[k].at, u)
                                       /\ Before(list, u, Cursor(stack[k]))
            /\ \A j \in 1..(k - 1) : NotAfter(list, Cursor(stack[j]), stack[k].at)
        BY <1>1, <3>1 DEF Sound
      <3>3. QED
        BY <3>1, <3>2
    <2>7. t # <<>>
      BY <2>1, <2>2, EmptySeq
    <2>8. Sound(list, bsize, t)
      BY <1>1, <2>2, <2>5, <2>6, <2>7 DEF Sound
    <2>9. QED
      BY <1>2, <2>8 DEF StackInv, t
  <1>3. ASSUME NEW keep \in {<<>>} \cup {<<b>> : b \in Range(Tail(list))}, ResetTo(keep)
        PROVE  StackInv'
    <2>1. ListOK(list) /\ bsize \in [Blk -> Nat] /\ stack[1] \in Frame
      BY <1>1 DEF Sound
    <2>2. /\ stack[1].at \in Unit /\ stack[1].mem \subseteq Unit
      BY <2>1, FrameParts
    <2>3. Root \in Blk /\ \A b \in Blk : SetBlk(stack[1], b) \in Frame
                                         /\ SetBlk(stack[1], b).blk = b
                                         /\ SetBlk(stack[1], b).pos = 0
      BY <2>2 DEF SetBlk, Frame, Blk
    <2>4. /\ list' = <<Root>> \o keep
          /\ stack' = <<SetBlk(stack[1], IF keep = <<>> THEN Root ELSE keep[1])>>
          /\ bsize' \in [Blk -> Nat]
      <3>1. DOMAIN bsize = Blk /\ \A b \in Blk : bsize[b] \in Nat
        BY <2>1
      <3>2. QED
        BY <1>3, <3>1 DEF ResetTo
    <2>5. CASE keep = <<>>
      <3>1. list' = <<Root>> /\ stack' = <<SetBlk(stack[1], Root)>>
        <4>1. <<Root>> \in Seq(Blk)
          BY <2>3
        <4>2. QED
          BY <2>4, <2>5, <4>1, ConcatEmptySeq
      <3>2. ListOK(<<Root>>) /\ Has(<<Root>>, Root)
        BY DEF ListOK, Has, Blk
      <3>3. Sound(list', bsize', stack')
        BY <2>3, <2>4, <3>1, <3>2, BaseOnly
      <3>4. QED
        BY <3>3 DEF StackInv
    <2>6. ASSUME NEW b \in Range(Tail(list)), keep = <<b>> PROVE StackInv'
      <3>1. b \in Blks
        <4>1. PICK i \in DOMAIN Tail(list) : b = Tail(list)[i]
          BY DEF Range
        <4>2. /\ list \in Seq(Blk) /\ list # <<>> /\ list[1] = Root /\ Len(list) \in Nat \ {0}
              /\ \A x, y \in 1..Len(list) : list[x] = list[y] => x = y
              /\ \A x \in 1..Len(list) : list[x] \in Blk
          BY <2>1, EmptySeq, ElementOfSeq DEF ListOK
        <4>3. /\ Tail(list) \in Seq(Blk) /\ Len(Tail(list)) = Len(list) - 1
              /\ \A x \in 1..Len(Tail(list)) : Tail(list)[x] = list[x + 1]
          BY <4>2, HeadTailProperties
        <4>4. i \in 1..Len(Tail(list))
          BY <4>1, <4>3, LenProperties
        <4>5. i + 1 \in 1..Len(list) /\ 1 \in 1..Len(list) /\ i + 1 # 1 /\ b = list[i + 1]
          BY <4>1, <4>2, <4>3, <4>4
        <4>6. b \in Blk /\ b # Root
          BY <4>2, <4>5
        <4>7. QED
          BY <4>6 DEF Blk
      <3>2. list' = <<Root>> \o <<b>> /\ stack' = <<SetBlk(stack[1], b)>>
        <4>1. <<b>> # <<>> /\ <<b>>[1] = b
          OBVIOUS
        <4>2. QED
          BY <2>4, <2>6, <4>1
      <3>3. Sound(list', bsize', stack')
        <4>1. b \in Blk
          BY <3>1 DEF Blk
        <4>2. QED
          BY <2>3, <2>4, <3>1, <3>2, <4>1, ResetList, BaseOnly
      <3>4. QED
        BY <3>3 DEF StackInv
    <2>7. QED
      BY <1>3, <2>5, <2>6
  <1>4. QED
    BY <1>2, <1>3 DEF mem_stack_pool_pop, Top

\* A new pool has its base frame only.
LEMMA StackInit == ASSUME StackConstants, Init PROVE StackInv
  <1> DEFINE f == [at |-> <<Root, 0>>, blk |-> Root, pos |-> 0, last |-> 0, mem |-> {}]
  <1>1. f \in Frame /\ f.blk = Root /\ f.pos = 0 /\ bsize \in [Blk -> Nat]
    BY DEF Frame, Unit, Blk, Init
  <1>2. ListOK(<<Root>>) /\ Has(<<Root>>, Root)
    BY DEF ListOK, Has, Blk
  <1>3. Sound(<<Root>>, bsize, <<f>>)
    BY <1>1, <1>2, BaseOnly
  <1>4. QED
    BY <1>3 DEF Init, StackInv

\* What the frames hold is in order along the list of blocks, in every state.
THEOREM StackAlways == ASSUME StackConstants PROVE Spec => []StackInv
  <1>1. ASSUME StackInv, [Next]_(vars) PROVE StackInv'
    <2>1. ASSUME UNCHANGED vars PROVE StackInv'
      BY <1>1, <2>1 DEF StackInv, vars
    <2>2. QED
      BY <1>1, <2>1, AllocNext, ReallocNext, PushNext, PopNext DEF Next
  <1>2. QED
    BY <1>1, StackInit, PTL DEF Spec

\* However t_scopes nest and grow, and whichever blocks are reused, destroyed or
\* created after the current one, the header and the data of a frame stay in a
\* block of the list and are no other frame's (mem_stack_pool_push, sp_alloc,
\* sp_realloc, mem_stack_pool_pop).
THEOREM StackFramesKept == ASSUME StackConstants PROVE Spec => []FramesKept
  <1>1. StackInv => FramesKept
    <2> SUFFICES ASSUME StackInv PROVE FramesKept
      OBVIOUS
    <2> DEFINE held(i) == stack[i].mem \cup {stack[i].at}
    <2>1. /\ Sound(list, bsize, stack) /\ ListOK(list) /\ Len(stack) \in Nat \ {0}
          /\ \A k \in 1..Len(stack) : stack[k] \in Frame
      BY TopIsLast DEF StackInv, Sound
    <2>2. Range(list) = {list[i] : i \in 1..Len(list)}
      BY <2>1, LenProperties DEF Range, ListOK
    <2>3. ASSUME NEW i \in 2..Len(stack)
          PROVE  /\ stack[i] \in Frame /\ Has(list, stack[i].blk)
                 /\ \A u \in held(i) : /\ u \in Unit /\ InList(list, bsize, u)
                                       /\ Before(list, u, Cursor(stack[i]))
                                       /\ \A j \in 1..(i - 1) : NotAfter(list, Cursor(stack[j]), u)
                 /\ stack[i].at \notin stack[i].mem
      <3>1. i \in 1..Len(stack) /\ \A j \in 1..(i - 1) : j \in 1..Len(stack)
        BY <2>1
      <3>2. /\ stack[i] \in Frame /\ Has(list, stack[i].blk)
            /\ \A j \in 1..(i - 1) : stack[j] \in Frame /\ Has(list, stack[j].blk)
            /\ InList(list, bsize, stack[i].at) /\ Before(list, stack[i].at, Cursor(stack[i]))
            /\ \A u \in stack[i].mem : /\ InList(list, bsize, u) /\ Before(list, stack[i].at, u)
                                       /\ Before(list, u, Cursor(stack[i]))
            /\ \A j \in 1..(i - 1) : NotAfter(list, Cursor(stack[j]), stack[i].at)
        BY <2>1, <3>1 DEF Sound
      <3>3. stack[i].at \in Unit /\ Has(list, stack[i].at[1])
            /\ \A u \in stack[i].mem : u \in Unit /\ Has(list, u[1])
        BY <3>2, FrameParts DEF InList
      <3>4. ASSUME NEW u \in stack[i].mem, NEW j \in 1..(i - 1)
            PROVE  NotAfter(list, Cursor(stack[j]), u)
        <4>1. Cursor(stack[j]) \in Unit /\ Has(list, Cursor(stack[j])[1])
          BY <3>2, FrameParts
        <4>2. Before(list, Cursor(stack[j]), u)
          BY <2>1, <3>2, <3>3, <4>1, OrderOK
        <4>3. QED
          BY <4>2 DEF NotAfter
      <3>5. stack[i].at \notin stack[i].mem
        <4> SUFFICES ASSUME stack[i].at \in stack[i].mem PROVE FALSE
          OBVIOUS
        <4>1. Before(list, stack[i].at, stack[i].at)
          BY <3>2
        <4>2. QED
          BY <2>1, <3>3, <4>1, Irreflexive
      <3>6. QED
        BY <3>2, <3>3, <3>4, <3>5
    <2>4. ASSUME NEW i \in 2..Len(stack), NEW j \in 2..(i - 1) PROVE held(i) \cap held(j) = {}
      <3> SUFFICES ASSUME NEW u \in held(i), u \in held(j) PROVE FALSE
        OBVIOUS
      <3>1. j \in 2..Len(stack) /\ j \in 1..(i - 1)
        BY <2>1
      <3>2. /\ u \in Unit /\ Has(list, u[1]) /\ Before(list, u, Cursor(stack[j]))
            /\ NotAfter(list, Cursor(stack[j]), u)
            /\ stack[j] \in Frame /\ Has(list, stack[j].blk)
        BY <2>3, <3>1 DEF InList
      <3>3. QED
        BY <2>1, <3>2, FrameParts, OrderOK
    <2> HIDE DEF held
    <2>5. \A i \in 2..Len(stack) :
            /\ \A u \in held(i) : u[1] \in Range(list) /\ u[2] < bsize[u[1]]
            /\ stack[i].at \notin stack[i].mem
            /\ \A j \in 2..(i - 1) : held(i) \cap held(j) = {}
      BY <2>2, <2>3, <2>4 DEF InList, Has
    <2>6. QED
      BY <2>5 DEF FramesKept, Top, held
  <1>2. QED
    BY <1>1, StackAlways, PTL
=============================================================================
