----------------------------- MODULE ListProofs -----------------------------
(***************************************************************************)
(* Proofs about two linked lists and the pointer into them that must not   *)
(* be out of date: the lock-free stack of the thread data of syns (ThrTd)  *)
(* and the messages of a channel, by priority (IcQueue).                   *)
(***************************************************************************)
EXTENDS ThrTd, TLAPS

-----------------------------------------------------------------------------
(* ThrTd, for any threads, thread data and sequence numbers. *)

Pcs == {"idle", "acq_next", "acq_cas", "acq_got", "acq_new", "rel_link", "rel_cas"}
Pointer == Tds \cup {NULL}
Tagged == [ptr : Pointer, seq : 0..(NbSeq - 1)]

TypeOK ==
  /\ head \in Tagged
  /\ next \in [Tds -> Pointer]
  /\ made \in SUBSET Tds
  /\ held \in [Threads -> SUBSET Tds]
  /\ pc \in [Threads -> Pcs]
  /\ ptr \in [Threads -> Tagged]
  /\ nxt \in [Threads -> Pointer]
  /\ td \in [Threads -> Pointer]
  /\ wipe \in {"no", "wait", "free", "done"}
  /\ wptr \in Pointer
  /\ calm \in BOOLEAN
  /\ freed \in [Tds -> Nat]
  /\ stack \in Seq(Tds)

PlaceInv ==
  \A t \in Threads :
    /\ pc[t] \in {"acq_next", "acq_cas", "acq_got"} => ptr[t].ptr # NULL
    /\ pc[t] \in {"rel_link", "rel_cas"} => td[t] # NULL /\ td[t] \notin held[t]

(***************************************************************************)
(* The inductive invariant.  A thread data is owned by one thread or is at *)
(* one place of the stack.  A thread whose copy of the head has the        *)
(* current sequence number has the current head, and what it has read in   *)
(* its 'next' is still there: its exchange leaves a linked stack.  Once    *)
(* the jobs are gone the wipe walks down the stack.                        *)
(***************************************************************************)

OwnInv ==
  /\ \A t \in Threads : Owned(t) \subseteq made
  /\ \A t, u \in Threads : t # u => Owned(t) \cap Owned(u) = {}
  /\ \A i \in 1..Len(stack) : stack[i] \in made /\ \A t \in Threads : stack[i] \notin Owned(t)
  /\ \A i, j \in 1..Len(stack) : stack[i] = stack[j] => i = j
  /\ \A n \in made : \/ \E t \in Threads : n \in Owned(t)
                     \/ \E i \in 1..Len(stack) : n = stack[i]

SeqInv ==
  \A t \in InLoop :
    /\ ptr[t].seq = head.seq =>
         /\ ptr[t] = head
         /\ pc[t] = "acq_cas" => nxt[t] = next[ptr[t].ptr]
    /\ pc[t] = "rel_cas" => next[td[t]] = ptr[t].ptr

\* The wipe started at place top of the stack, and is at place k.
WipeAt(top, k) ==
  /\ wptr = IF k = 0 THEN NULL ELSE stack[k]
  /\ \A i \in 1..Len(stack) : freed[stack[i]] = IF k < i /\ i <= top THEN 1 ELSE 0
  /\ calm => top = Len(stack)
  /\ wipe = "done" => k = 0

WipeInv ==
  /\ wipe = "no" => ~calm
  /\ wipe \in {"no", "wait"} => \A n \in Tds : freed[n] = 0
  /\ wipe = "wait" => wptr \in made \cup {NULL} /\ (calm => JobsDone /\ wptr = head.ptr)
  /\ wipe \in {"free", "done"} =>
        /\ JobsDone
        /\ \A n \in Tds \ made : freed[n] = 0
        /\ \E top \in 0..Len(stack) : \E k \in 0..top : WipeAt(top, k)

IInv == TypeOK /\ PlaceInv /\ OwnInv /\ Linked /\ SeqInv /\ WipeInv

-----------------------------------------------------------------------------
(* Lemmas about the operators. *)

\* What is pushed on a stack is on top of it.
LEMMA PushedFacts ==
  ASSUME NEW S, NEW s \in Seq(S), NEW x \in S
  PROVE  /\ Append(s, x) # <<>> /\ Len(s) \in Nat /\ Len(Append(s, x)) = Len(s) + 1
         /\ Append(s, x)[Len(s) + 1] = x
         /\ \A i \in 1..Len(s) : Append(s, x)[i] = s[i]
  <1>1. Len(s) \in Nat /\ Len(Append(s, x)) = Len(s) + 1 /\ Append(s, x)[Len(s) + 1] = x
    OBVIOUS
  <1>2. \A i \in 1..Len(s) : Append(s, x)[i] = s[i]
    OBVIOUS
  <1>3. Append(s, x) # <<>>
    <2>1. Len(<<>>) = 0 /\ Len(s) + 1 # 0
      BY <1>1
    <2>2. QED
      BY <1>1, <2>1, Zenon
  <1>4. QED
    BY <1>1, <1>2, <1>3

\* What is left of a stack when its top is taken.
LEMMA PoppedFacts ==
  ASSUME NEW S, NEW s \in Seq(S), s # <<>>
  PROVE  /\ Popped(s) \in Seq(S)
         /\ Len(s) \in Nat \ {0}
         /\ Len(Popped(s)) = Len(s) - 1
         /\ \A i \in 1..(Len(s) - 1) : Popped(s)[i] = s[i]
  <1>1. Len(s) \in Nat \ {0}
    OBVIOUS
  <1>2. 1 \in 1..(Len(s) + 1) /\ Len(s) - 1 \in 0..Len(s)
    BY <1>1
  <1> DEFINE m == 1
             n == Len(s) - 1
  <1>3. /\ SubSeq(s, m, n) \in Seq(S)
        /\ Len(SubSeq(s, m, n)) = IF m <= n THEN n - m + 1 ELSE 0
        /\ \A i \in 1..(n - m + 1) : SubSeq(s, m, n)[i] = s[m + i - 1]
    <2> HIDE DEF m, n
    <2> QED
      BY <1>2 DEF m, n
  <1>4. Len(SubSeq(s, m, n)) = Len(s) - 1
    <2>1. \A l, k : k \in Nat \ {0} /\ l = (IF 1 <= k - 1 THEN k - 1 - 1 + 1 ELSE 0)
                    => l = k - 1
      OBVIOUS
    <2>2. QED
      BY <1>1, <1>3, <2>1, Zenon
  <1>5. ASSUME NEW i \in 1..(Len(s) - 1) PROVE SubSeq(s, m, n)[i] = s[i]
    <2>1. i \in 1..(n - m + 1) /\ m + i - 1 = i
      BY <1>1
    <2>2. QED
      BY <1>3, <2>1
  <1>6. QED
    BY <1>1, <1>3, <1>4, <1>5 DEF Popped

\* The next tagged pointer: the pointer, with a sequence number of the same width.
LEMMA NextTagged ==
  ASSUME TdConstants, NEW c \in Tagged, NEW n \in Pointer
  PROVE  thr_syn_next_td_ptr(c, n) \in Tagged
  <1>1. (c.seq + 1) % NbSeq \in 0..(NbSeq - 1)
    BY DEF TdConstants, Tagged
  <1>2. QED
    BY <1>1 DEF thr_syn_next_td_ptr, Tagged

-----------------------------------------------------------------------------
(* Types and places *)

\* Every step keeps the types.
LEMMA TypeNext == ASSUME TdConstants, IInv, [Next]_vars PROVE TypeOK'
  <1> USE DEF TypeOK, Pcs, Pointer, wiping, locals
  <1>0. TypeOK /\ PlaceInv
    BY DEF IInv
  <1>e. Nowhere \in Tagged
    BY DEF TdConstants, Nowhere, Tagged
  <1>f. head.ptr \in Pointer /\ \A t \in Threads : ptr[t].ptr \in Pointer
    BY <1>0 DEF Tagged
  <1>1. ASSUME NEW t \in Threads, AcquireLoad(t) PROVE TypeOK'
    BY <1>1, <1>0, <1>e, <1>f DEF AcquireLoad, LoadHead, Goto, AcquireFrom, PlaceInv
  <1>2. ASSUME NEW t \in Threads, AcquireNext(t) PROVE TypeOK'
    BY <1>2, <1>0, <1>e, <1>f DEF AcquireNext, Goto, PlaceInv
  <1>3. ASSUME NEW t \in Threads, AcquireCas(t) PROVE TypeOK'
    <2>1. head' \in Tagged
      BY <1>3, <1>0, NextTagged DEF AcquireCas, SetHead
    <2>2. stack' \in Seq(Tds)
      BY <1>3, <1>0, <1>f, PoppedFacts DEF AcquireCas, PlaceInv, IInv, Linked
    <2>3. QED
      BY <1>3, <1>0, <1>e, <2>1, <2>2 DEF AcquireCas, Return, Goto
  <1>4. ASSUME NEW t \in Threads, AcquireRetry(t) PROVE TypeOK'
    BY <1>4, <1>0, <1>e, <1>f DEF AcquireRetry, LoadHead, Goto, AcquireFrom, PlaceInv
  <1>5. ASSUME NEW t \in Threads, AcquireGot(t) PROVE TypeOK'
    BY <1>5, <1>0, <1>e, <1>f DEF AcquireGot, Return, Goto, PlaceInv
  <1>6. ASSUME NEW t \in Threads, AcquireNew(t) PROVE TypeOK'
    BY <1>6, <1>0, <1>e DEF AcquireNew, Return, Goto
  <1>7. ASSUME NEW t \in Threads, ReleaseLoad(t) PROVE TypeOK'
    BY <1>7, <1>0, <1>e, <1>f DEF ReleaseLoad, LoadHead, Goto, PlaceInv
  <1>8. ASSUME NEW t \in Threads, ReleaseLink(t) PROVE TypeOK'
    BY <1>8, <1>0, <1>e, <1>f DEF ReleaseLink, Goto, PlaceInv
  <1>9. ASSUME NEW t \in Threads, ReleaseCas(t) PROVE TypeOK'
    <2>1. head' \in Tagged
      BY <1>9, <1>0, NextTagged DEF ReleaseCas, SetHead
    <2>2. stack' \in Seq(Tds)
      BY <1>9, <1>0, <1>f, PoppedFacts DEF ReleaseCas, PlaceInv, IInv, Linked
    <2>3. QED
      BY <1>9, <1>0, <1>e, <2>1, <2>2 DEF ReleaseCas, Return, Goto
  <1>10. ASSUME NEW t \in Threads, ReleaseRetry(t) PROVE TypeOK'
    BY <1>10, <1>0, <1>e, <1>f DEF ReleaseRetry, LoadHead, Goto, PlaceInv
  <1>11. ASSUME WipeLoad PROVE TypeOK'
    <2>1. calm' \in BOOLEAN
      BY <1>11, Zenon DEF WipeLoad, JobsDone
    <2>2. QED
      BY <1>11, <1>0, <1>f, <2>1 DEF WipeLoad
  <1>12. ASSUME WipeReleased PROVE TypeOK'
    BY <1>12, <1>0, <1>f DEF WipeReleased
  <1>13. ASSUME WipeFree PROVE TypeOK'
    BY <1>13, <1>0, <1>f DEF WipeFree
  <1>14. ASSUME WipeEnd PROVE TypeOK'
    BY <1>14, <1>0, <1>f DEF WipeEnd
  <1>15. CASE UNCHANGED vars
    BY <1>15, <1>0 DEF vars
  <1>16. QED
    BY <1>1, <1>2, <1>3, <1>4, <1>5, <1>6, <1>7, <1>8, <1>9, <1>10, <1>11, <1>12, <1>13, <1>14, <1>15 DEF Next, thr_syn_acquire_td, thr_syn_release_td, thr_syn_wipe

\* A thread that works on a thread data has one.
LEMMA PlaceNext == ASSUME TdConstants, IInv, [Next]_vars PROVE PlaceInv'
  <1> USE DEF TypeOK, Pcs, Pointer, PlaceInv, wiping, locals
  <1>0. TypeOK /\ PlaceInv /\ NULL \notin Tds
    BY DEF IInv, TdConstants
  <1>1. ASSUME NEW t \in Threads, AcquireLoad(t) PROVE PlaceInv'
    BY <1>1, <1>0 DEF AcquireLoad, LoadHead, Goto, AcquireFrom
  <1>2. ASSUME NEW t \in Threads, AcquireNext(t) PROVE PlaceInv'
    BY <1>2, <1>0 DEF AcquireNext, Goto
  <1>3. ASSUME NEW t \in Threads, AcquireCas(t) PROVE PlaceInv'
    BY <1>3, <1>0 DEF AcquireCas, Goto
  <1>4. ASSUME NEW t \in Threads, AcquireRetry(t) PROVE PlaceInv'
    BY <1>4, <1>0 DEF AcquireRetry, LoadHead, Goto, AcquireFrom
  <1>5. ASSUME NEW t \in Threads, AcquireGot(t) PROVE PlaceInv'
    BY <1>5, <1>0 DEF AcquireGot, Return, Goto
  <1>6. ASSUME NEW t \in Threads, AcquireNew(t) PROVE PlaceInv'
    BY <1>6, <1>0 DEF AcquireNew, Return, Goto
  <1>7. ASSUME NEW t \in Threads, ReleaseLoad(t) PROVE PlaceInv'
    BY <1>7, <1>0 DEF ReleaseLoad, LoadHead, Goto
  <1>8. ASSUME NEW t \in Threads, ReleaseLink(t) PROVE PlaceInv'
    BY <1>8, <1>0 DEF ReleaseLink, Goto
  <1>9. ASSUME NEW t \in Threads, ReleaseCas(t) PROVE PlaceInv'
    BY <1>9, <1>0 DEF ReleaseCas, Return, Goto
  <1>10. ASSUME NEW t \in Threads, ReleaseRetry(t) PROVE PlaceInv'
    BY <1>10, <1>0 DEF ReleaseRetry, LoadHead, Goto
  <1>11. ASSUME thr_syn_wipe \/ UNCHANGED vars PROVE PlaceInv'
    BY <1>11, <1>0 DEF thr_syn_wipe, WipeLoad, WipeReleased, WipeFree, WipeEnd, vars
  <1>12. QED
    BY <1>1, <1>2, <1>3, <1>4, <1>5, <1>6, <1>7, <1>8, <1>9, <1>10, <1>11 DEF Next, thr_syn_acquire_td, thr_syn_release_td

-----------------------------------------------------------------------------
(* Owners.  A step keeps the owners, pops, makes or pushes a thread data. *)

Keeps ==
  /\ UNCHANGED <<made, stack>>
  /\ \A u \in Threads : Owned(u)' = Owned(u)

Gets(t, n) ==
  /\ Owned(t)' = Owned(t) \cup {n}
  /\ \A u \in Threads \ {t} : Owned(u)' = Owned(u)

Pops(t) ==
  /\ stack # <<>>
  /\ stack' = Popped(stack)
  /\ made' = made
  /\ Gets(t, stack[Len(stack)])

Makes(t, n) ==
  /\ n \in Tds \ made
  /\ made' = made \cup {n}
  /\ stack' = stack
  /\ Gets(t, n)

Pushes(t) ==
  /\ td[t] \in Owned(t)
  /\ stack' = Append(stack, td[t])
  /\ made' = made
  /\ Owned(t)' = Owned(t) \ {td[t]}
  /\ \A u \in Threads \ {t} : Owned(u)' = Owned(u)

\* thr_syn_acquire_td takes the top of the stack.
LEMMA CasPops ==
  ASSUME TdConstants, IInv, NEW t \in Threads, AcquireCas(t)
  PROVE  /\ Pops(t)
         /\ ptr[t].ptr = stack[Len(stack)]
         /\ nxt[t] = next[stack[Len(stack)]]
         /\ head'.ptr = nxt[t]
         /\ \A u \in InLoop : head'.seq # ptr[u].seq
  <1>1. stack # <<>> /\ head.ptr = stack[Len(stack)] /\ head = ptr[t]
    BY DEF IInv, PlaceInv, Linked, AcquireCas
  <1>2. Owned(t)' = Owned(t) \cup {head.ptr} /\ \A u \in Threads \ {t} : Owned(u)' = Owned(u)
    BY <1>1 DEF IInv, TypeOK, Owned, AcquireCas, Goto, locals, wiping
  <1>3. Pops(t)
    BY <1>1, <1>2 DEF Pops, Gets, AcquireCas
  <1>4. nxt[t] = next[stack[Len(stack)]]
    BY <1>1 DEF IInv, SeqInv, InLoop, AcquireCas
  <1>5. head'.ptr = nxt[t] /\ \A u \in InLoop : head'.seq # ptr[u].seq
    BY <1>1 DEF AcquireCas, SetHead, thr_syn_next_td_ptr
  <1>6. QED
    BY <1>1, <1>3, <1>4, <1>5

\* thr_syn_release_td puts its thread data on top.
LEMMA CasPushes ==
  ASSUME TdConstants, IInv, NEW t \in Threads, ReleaseCas(t)
  PROVE  /\ Pushes(t)
         /\ td[t] \in Tds
         /\ next[td[t]] = head.ptr
         /\ head'.ptr = td[t]
         /\ \A u \in InLoop : head'.seq # ptr[u].seq
  <1>1. td[t] \in Tds /\ head = ptr[t] /\ pc[t] = "rel_cas" /\ td[t] \notin held[t]
    BY DEF IInv, PlaceInv, TypeOK, Pointer, ReleaseCas
  <1>2. /\ td[t] \in Owned(t) /\ Owned(t)' = Owned(t) \ {td[t]}
        /\ \A u \in Threads \ {t} : Owned(u)' = Owned(u)
    BY <1>1 DEF IInv, TypeOK, Owned, ReleaseCas, Return, Goto, wiping
  <1>3. Pushes(t)
    BY <1>2 DEF Pushes, ReleaseCas
  <1>4. next[td[t]] = head.ptr
    BY <1>1 DEF IInv, SeqInv, InLoop
  <1>5. head'.ptr = td[t] /\ \A u \in InLoop : head'.seq # ptr[u].seq
    BY <1>1 DEF ReleaseCas, SetHead, thr_syn_next_td_ptr
  <1>6. QED
    BY <1>1, <1>3, <1>4, <1>5

\* Every other step moves no thread data between the stack and the owners.
LEMMA StepKinds ==
  ASSUME TdConstants, IInv, [Next]_vars
  PROVE  \/ Keeps
         \/ \E t \in Threads : Pops(t) \/ Pushes(t) \/ \E n \in Tds : Makes(t, n)
  <1>0. TypeOK /\ PlaceInv
    BY DEF IInv
  <1> USE DEF locals, wiping
  <1>1. ASSUME NEW t \in Threads, AcquireLoad(t) \/ AcquireRetry(t) PROVE Keeps
    BY <1>1, <1>0 DEF Keeps, Owned, TypeOK, AcquireLoad, AcquireRetry, LoadHead, Goto, AcquireFrom
  <1>2. ASSUME NEW t \in Threads, AcquireNext(t) PROVE Keeps
    BY <1>2, <1>0 DEF Keeps, Owned, TypeOK, AcquireNext, Goto
  <1>3. ASSUME NEW t \in Threads, AcquireGot(t) PROVE Keeps
    BY <1>3, <1>0 DEF Keeps, Owned, TypeOK, AcquireGot, Return, Goto
  <1>4. ASSUME NEW t \in Threads, AcquireNew(t) PROVE \E n \in Tds : Makes(t, n)
    BY <1>4, <1>0 DEF Makes, Gets, Owned, TypeOK, AcquireNew, Return, Goto
  <1>5. ASSUME NEW t \in Threads, ReleaseLoad(t) PROVE Keeps
    BY <1>5, <1>0 DEF Keeps, Owned, TypeOK, ReleaseLoad, LoadHead, Goto
  <1>6. ASSUME NEW t \in Threads, ReleaseLink(t) \/ ReleaseRetry(t) PROVE Keeps
    BY <1>6, <1>0 DEF Keeps, Owned, TypeOK, ReleaseLink, ReleaseRetry, LoadHead, Goto
  <1>7. ASSUME thr_syn_wipe \/ UNCHANGED vars PROVE Keeps
    BY <1>7 DEF Keeps, Owned, vars, thr_syn_wipe, WipeLoad, WipeReleased, WipeFree, WipeEnd
  <1>8. QED
    BY <1>1, <1>2, <1>3, <1>4, <1>5, <1>6, <1>7, CasPops, CasPushes
       DEF Next, thr_syn_acquire_td, thr_syn_release_td

\* One owner or one place on the stack, before and after.
LEMMA OwnNext == ASSUME TdConstants, IInv, [Next]_vars PROVE OwnInv'
  <1>0. OwnInv /\ stack \in Seq(Tds) /\ made \in SUBSET Tds /\ Len(stack) \in Nat
    BY DEF IInv, TypeOK
  <1>1. CASE Keeps
    BY <1>0, <1>1 DEF Keeps, OwnInv
  <1>2. ASSUME NEW t \in Threads, Pops(t) PROVE OwnInv'
    <2> DEFINE l == Len(stack)
    <2>1. /\ l \in Nat \ {0} /\ Len(stack') = l - 1
          /\ \A i \in 1..(l - 1) : stack'[i] = stack[i]
      BY <1>0, <1>2, PoppedFacts DEF Pops
    <2>2. /\ made' = made /\ Owned(t)' = Owned(t) \cup {stack[l]}
          /\ \A u \in Threads \ {t} : Owned(u)' = Owned(u)
      BY <1>2 DEF Pops, Gets
    <2>3. l \in 1..l /\ \A i \in 1..(l - 1) : i \in 1..l /\ i # l
      BY <2>1
    <2>4. (\A u \in Threads : Owned(u) \subseteq made)'
      BY <1>0, <2>2, <2>3 DEF OwnInv
    <2>5. (\A u, v \in Threads : u # v => Owned(u) \cap Owned(v) = {})'
      BY <1>0, <2>2, <2>3 DEF OwnInv
    <2>6. (\A i \in 1..Len(stack) : stack[i] \in made /\ \A u \in Threads : stack[i] \notin Owned(u))'
      BY <1>0, <2>1, <2>2, <2>3 DEF OwnInv
    <2>7. (\A i, j \in 1..Len(stack) : stack[i] = stack[j] => i = j)'
      BY <1>0, <2>1, <2>3 DEF OwnInv
    <2>8. ASSUME NEW n \in made
          PROVE  (\E u \in Threads : n \in Owned(u)') \/ (\E i \in 1..(l - 1) : n = stack'[i])
      <3>1. CASE \E u \in Threads : n \in Owned(u)
        BY <3>1, <2>2
      <3>2. ASSUME NEW i \in 1..l, n = stack[i] PROVE <2>8!2
        <4>1. i = l \/ i \in 1..(l - 1)
          BY <2>1
        <4>2. QED
          BY <3>2, <4>1, <2>1, <2>2
      <3>3. QED
        BY <1>0, <3>1, <3>2 DEF OwnInv
    <2>9. QED
      BY <2>1, <2>2, <2>4, <2>5, <2>6, <2>7, <2>8 DEF OwnInv
  <1>3. ASSUME NEW t \in Threads, NEW n \in Tds, Makes(t, n) PROVE OwnInv'
    BY <1>0, <1>3 DEF Makes, Gets, OwnInv
  <1>4. ASSUME NEW t \in Threads, Pushes(t) PROVE OwnInv'
    <2> DEFINE l == Len(stack)
               n == td[t]
    <2>1. /\ n \in Tds /\ l \in Nat /\ Len(stack') = l + 1 /\ stack'[l + 1] = n
          /\ \A i \in 1..l : stack'[i] = stack[i]
      BY <1>0, <1>4 DEF Pushes, OwnInv
    <2>2. /\ made' = made /\ n \in Owned(t) /\ Owned(t)' = Owned(t) \ {n}
          /\ \A u \in Threads \ {t} : Owned(u)' = Owned(u)
      BY <1>4 DEF Pushes
    <2>3. \A i \in 1..(l + 1) : i = l + 1 \/ i \in 1..l
      BY <2>1
    <2>4. n \in made /\ \A u \in Threads : n \notin Owned(u)'
      BY <1>0, <2>2 DEF OwnInv
    <2>5. (\A u \in Threads : Owned(u) \subseteq made)'
      BY <1>0, <2>2 DEF OwnInv
    <2>6. (\A u, v \in Threads : u # v => Owned(u) \cap Owned(v) = {})'
      BY <1>0, <2>2 DEF OwnInv
    <2>7. \A i \in 1..(l + 1) : stack'[i] \in made /\ \A u \in Threads : stack'[i] \notin Owned(u)'
      BY <1>0, <2>1, <2>2, <2>3, <2>4 DEF OwnInv
    <2>8. \A i \in 1..l : stack[i] # n
      BY <1>0, <2>2 DEF OwnInv
    <2>9. \A i, j \in 1..(l + 1) : stack'[i] = stack'[j] => i = j
      BY <1>0, <2>1, <2>3, <2>8 DEF OwnInv
    <2>10. ASSUME NEW m \in made
           PROVE  (\E u \in Threads : m \in Owned(u)') \/ (\E i \in 1..(l + 1) : m = stack'[i])
      <3>1. CASE m = n
        BY <3>1, <2>1
      <3>2. ASSUME NEW u \in Threads, m \in Owned(u), m # n PROVE m \in Owned(u)'
        BY <3>2, <2>2
      <3>3. ASSUME NEW i \in 1..l, m = stack[i] PROVE i \in 1..(l + 1) /\ m = stack'[i]
        BY <3>3, <2>1
      <3>4. QED
        BY <1>0, <3>1, <3>2, <3>3 DEF OwnInv
    <2>11. QED
      BY <2>1, <2>2, <2>5, <2>6, <2>7, <2>9, <2>10 DEF OwnInv
  <1>5. QED
    BY <1>1, <1>2, <1>3, <1>4, StepKinds

-----------------------------------------------------------------------------
(* Links *)

\* The 'next' that a step writes is the one of a thread data that its thread owns.
LEMMA OwnWrites ==
  ASSUME TdConstants, IInv, [Next]_vars
  PROVE  \/ next' = next
         \/ \E t \in Threads : \E n \in Owned(t) : \E v \in Pointer :
               /\ AcquireGot(t) \/ (ReleaseLink(t) /\ n = td[t] /\ v = ptr[t].ptr)
               /\ next' = [next EXCEPT ![n] = v]
  <1> USE DEF locals, wiping
  <1>1. ASSUME NEW t \in Threads, AcquireGot(t)
        PROVE  ptr[t].ptr \in Owned(t) /\ next' = [next EXCEPT ![ptr[t].ptr] = NULL]
    BY <1>1 DEF AcquireGot, Owned
  <1>2. ASSUME NEW t \in Threads, ReleaseLink(t)
        PROVE  td[t] \in Owned(t) /\ next' = [next EXCEPT ![td[t]] = ptr[t].ptr]
    BY <1>2 DEF ReleaseLink, Owned
  <1>3. \A t \in Threads : NULL \in Pointer /\ ptr[t].ptr \in Pointer
    BY DEF IInv, TypeOK, Tagged, Pointer
  <1>4. ASSUME NEW t \in Threads,
               \/ AcquireLoad(t) \/ AcquireNext(t) \/ AcquireCas(t) \/ AcquireRetry(t)
               \/ AcquireNew(t) \/ ReleaseLoad(t) \/ ReleaseCas(t) \/ ReleaseRetry(t)
        PROVE  next' = next
    BY <1>4 DEF AcquireLoad, AcquireNext, AcquireCas, AcquireRetry, AcquireNew, ReleaseLoad,
       ReleaseCas, ReleaseRetry
  <1>5. ASSUME thr_syn_wipe \/ UNCHANGED vars PROVE next' = next
    BY <1>5 DEF vars, thr_syn_wipe, WipeLoad, WipeReleased, WipeFree, WipeEnd
  <1>6. QED
    BY <1>1, <1>2, <1>3, <1>4, <1>5 DEF Next, thr_syn_acquire_td, thr_syn_release_td

\* The links still lead down the stack.
LEMMA LinkNext == ASSUME TdConstants, IInv, [Next]_vars PROVE Linked'
  <1>0. TypeOK /\ OwnInv /\ Linked /\ Len(stack) \in Nat
    BY DEF IInv, TypeOK
  <1> USE DEF locals, wiping
  <1>1. ASSUME NEW t \in Threads, AcquireCas(t) PROVE Linked'
    <2> DEFINE l == Len(stack)
    <2>1. /\ stack # <<>> /\ stack' = Popped(stack) /\ next' = next
          /\ head'.ptr = next[stack[l]]
      BY <1>1, CasPops DEF Pops, AcquireCas
    <2>2. /\ l \in Nat \ {0} /\ Len(stack') = l - 1 /\ stack' \in Seq(Tds)
          /\ \A i \in 1..(l - 1) : stack'[i] = stack[i]
      BY <1>0, <2>1, PoppedFacts DEF TypeOK
    <2>3. next[stack[l]] = IF l = 1 THEN NULL ELSE stack[l - 1]
      BY <1>0, <2>2 DEF Linked
    <2>4. stack' = <<>> <=> l = 1
      BY <2>2
    <2>5. l # 1 => l - 1 \in 1..(l - 1)
      BY <2>2
    <2>6. head'.ptr = IF stack' = <<>> THEN NULL ELSE stack'[Len(stack')]
      BY <2>1, <2>2, <2>3, <2>4, <2>5
    <2>7. ASSUME NEW i \in 1..(l - 1)
          PROVE  next[stack'[i]] = IF i = 1 THEN NULL ELSE stack'[i - 1]
      <3>1. i \in 1..l /\ (i # 1 => i - 1 \in 1..(l - 1))
        BY <2>2
      <3>2. QED
        BY <1>0, <2>2, <3>1 DEF Linked
    <2>8. QED
      BY <2>1, <2>2, <2>6, <2>7 DEF Linked
  <1>2. ASSUME NEW t \in Threads, ReleaseCas(t) PROVE Linked'
    <2> DEFINE l == Len(stack)
    <2>1. /\ td[t] \in Tds /\ stack' = Append(stack, td[t]) /\ next' = next
          /\ next[td[t]] = head.ptr /\ head'.ptr = td[t]
      BY <1>2, CasPushes DEF Pushes, ReleaseCas
    <2>2. /\ l \in Nat /\ Len(stack') = l + 1 /\ stack'[l + 1] = td[t]
          /\ stack' # <<>> /\ \A i \in 1..l : stack'[i] = stack[i]
      BY <1>0, <2>1, PushedFacts DEF TypeOK
    <2>3. stack = <<>> <=> l = 0
      BY <1>0 DEF TypeOK
    <2>4. ASSUME NEW i \in 1..(l + 1)
          PROVE  next[stack'[i]] = IF i = 1 THEN NULL ELSE stack'[i - 1]
      <3>1. CASE i = l + 1
        <4>1. next[stack'[i]] = IF l = 0 THEN NULL ELSE stack[l]
          BY <1>0, <2>1, <2>2, <2>3, <3>1 DEF Linked
        <4>2. l # 0 => l \in 1..l
          BY <2>2
        <4>3. QED
          BY <2>2, <3>1, <4>1, <4>2
      <3>2. CASE i \in 1..l
        <4>1. i # 1 => i - 1 \in 1..l
          BY <2>2
        <4>2. QED
          BY <1>0, <2>2, <3>2, <4>1 DEF Linked
      <3>3. QED
        BY <2>2, <3>1, <3>2
    <2>5. QED
      BY <2>1, <2>2, <2>4 DEF Linked
  <1>3. ASSUME UNCHANGED <<head, stack>> PROVE Linked'
    <2>1. CASE next' = next
      BY <1>0, <1>3, <2>1 DEF Linked
    <2>2. ASSUME NEW t \in Threads, NEW n \in Owned(t), NEW v \in Pointer,
                 next' = [next EXCEPT ![n] = v]
          PROVE  Linked'
      <3>1. \A i \in 1..Len(stack) : stack[i] # n /\ stack[i] \in Tds
        BY <1>0 DEF OwnInv, TypeOK
      <3>2. QED
        BY <1>0, <1>3, <2>2, <3>1 DEF Linked, TypeOK
    <2>3. QED
      BY <2>1, <2>2, OwnWrites
  <1>4. ASSUME NEW t \in Threads,
               \/ AcquireLoad(t) \/ AcquireNext(t) \/ AcquireRetry(t) \/ AcquireGot(t)
               \/ AcquireNew(t) \/ ReleaseLoad(t) \/ ReleaseLink(t) \/ ReleaseRetry(t)
        PROVE  UNCHANGED <<head, stack>>
    BY <1>4 DEF AcquireLoad, AcquireNext, AcquireRetry, AcquireGot, AcquireNew, ReleaseLoad,
       ReleaseLink, ReleaseRetry
  <1>5. ASSUME thr_syn_wipe \/ UNCHANGED vars PROVE UNCHANGED <<head, stack>>
    BY <1>5 DEF vars, thr_syn_wipe, WipeLoad, WipeReleased, WipeFree, WipeEnd
  <1>6. QED
    BY <1>1, <1>2, <1>3, <1>4, <1>5 DEF Next, thr_syn_acquire_td, thr_syn_release_td

-----------------------------------------------------------------------------
(* Sequence numbers *)

\* What a thread in its loop knows of the head.
Knows(t) ==
  /\ ptr[t].seq = head.seq =>
       /\ ptr[t] = head
       /\ pc[t] = "acq_cas" => nxt[t] = next[ptr[t].ptr]
  /\ pc[t] = "rel_cas" => next[td[t]] = ptr[t].ptr

\* The step of a thread leaves what the others know of the head.
LEMMA OthersKnow ==
  ASSUME TdConstants, IInv, [Next]_vars, NEW u \in InLoop,
         UNCHANGED <<pc[u], ptr[u], nxt[u], td[u]>>
  PROVE  Knows(u)'
  <1>0. TypeOK /\ OwnInv /\ Linked /\ Knows(u) /\ u \in Threads /\ PlaceInv
    BY DEF IInv, SeqInv, InLoop, Knows
  <1>1. pc[u] = "rel_cas" => next'[td[u]] = next[td[u]]
    <2>1. CASE next' = next
      BY <2>1
    <2>2. ASSUME NEW t \in Threads, NEW n \in Owned(t), NEW v \in Pointer, pc[u] = "rel_cas",
                 AcquireGot(t) \/ (ReleaseLink(t) /\ n = td[t] /\ v = ptr[t].ptr),
                 next' = [next EXCEPT ![n] = v]
          PROVE  next'[td[u]] = next[td[u]]
      <3>1. t # u
        BY <2>2 DEF AcquireGot, ReleaseLink
      <3>2. td[u] \in Owned(u) /\ td[u] \in Tds
        BY <1>0, <2>2 DEF Owned, PlaceInv, TypeOK, Pointer
      <3>3. td[u] # n
        BY <1>0, <3>1, <3>2 DEF OwnInv
      <3>4. QED
        BY <1>0, <2>2, <3>2, <3>3 DEF TypeOK
    <2>3. QED
      BY <2>1, <2>2, OwnWrites
  <1>2. ASSUME pc[u] = "acq_cas", ptr[u] = head PROVE next'[head.ptr] = next[head.ptr]
    <2>1. stack # <<>> /\ head.ptr = stack[Len(stack)] /\ Len(stack) \in 1..Len(stack)
      BY <1>0, <1>2 DEF PlaceInv, Linked, TypeOK
    <2>2. head.ptr \in Tds /\ \A t \in Threads : head.ptr \notin Owned(t)
      BY <1>0, <2>1 DEF OwnInv, TypeOK
    <2>3. QED
      BY <1>0, <2>2, OwnWrites DEF TypeOK
  <1>3. head' = head \/ head'.seq # ptr[u].seq
    <2>1. ASSUME NEW t \in Threads, AcquireCas(t) \/ ReleaseCas(t) PROVE head'.seq # ptr[u].seq
      BY <2>1, CasPops, CasPushes
    <2>2. ASSUME NEW t \in Threads,
                 \/ AcquireLoad(t) \/ AcquireNext(t) \/ AcquireRetry(t) \/ AcquireGot(t)
                 \/ AcquireNew(t) \/ ReleaseLoad(t) \/ ReleaseLink(t) \/ ReleaseRetry(t)
          PROVE  head' = head
      BY <2>2 DEF AcquireLoad, AcquireNext, AcquireRetry, AcquireGot, AcquireNew, ReleaseLoad,
         ReleaseLink, ReleaseRetry
    <2>3. ASSUME thr_syn_wipe \/ UNCHANGED vars PROVE head' = head
      BY <2>3 DEF vars, thr_syn_wipe, WipeLoad, WipeReleased, WipeFree, WipeEnd
    <2>4. QED
      BY <2>1, <2>2, <2>3 DEF Next, thr_syn_acquire_td, thr_syn_release_td
  <1>4. QED
    BY <1>0, <1>1, <1>2, <1>3 DEF Knows

\* A copy of the head with the current sequence number is the current head.
LEMMA SeqNext == ASSUME TdConstants, IInv, [Next]_vars PROVE SeqInv'
  <1>0. TypeOK /\ PlaceInv /\ SeqInv
    BY DEF IInv
  <1> SUFFICES ASSUME NEW u \in InLoop' PROVE Knows(u)'
    BY DEF SeqInv, Knows, InLoop
  <1>u. u \in Threads
    BY DEF InLoop
  <1>1. CASE u \in InLoop /\ UNCHANGED <<pc[u], ptr[u], nxt[u], td[u]>>
    BY <1>1, OthersKnow
  <1> USE DEF locals, wiping
  <1>2. ASSUME AcquireLoad(u) \/ AcquireRetry(u) PROVE Knows(u)'
    BY <1>2, <1>0, <1>u DEF Knows, TypeOK, AcquireLoad, AcquireRetry, LoadHead, AcquireFrom, Goto
  <1>3. ASSUME AcquireNext(u) PROVE Knows(u)'
    BY <1>3, <1>0, <1>u DEF Knows, TypeOK, SeqInv, InLoop, AcquireNext, Goto
  <1>4. ASSUME ReleaseLoad(u) \/ ReleaseRetry(u) PROVE Knows(u)'
    BY <1>4, <1>0, <1>u DEF Knows, TypeOK, ReleaseLoad, ReleaseRetry, LoadHead, Goto
  <1>5. ASSUME ReleaseLink(u) PROVE Knows(u)'
    BY <1>5, <1>0, <1>u DEF Knows, TypeOK, Pointer, PlaceInv, SeqInv, InLoop, ReleaseLink, Goto
  <1>6. ASSUME AcquireCas(u) \/ AcquireGot(u) \/ AcquireNew(u) \/ ReleaseCas(u) PROVE FALSE
    BY <1>6, <1>0, <1>u DEF TypeOK, InLoop, AcquireCas, AcquireGot, AcquireNew, ReleaseCas,
       Return, Goto
  <1>7. ASSUME NEW t \in Threads \ {u}, thr_syn_acquire_td(t) \/ thr_syn_release_td(t)
        PROVE  u \in InLoop /\ UNCHANGED <<pc[u], ptr[u], nxt[u], td[u]>>
    BY <1>7, <1>0, <1>u DEF TypeOK, InLoop, thr_syn_acquire_td, thr_syn_release_td,
       AcquireLoad, AcquireNext, AcquireCas, AcquireRetry, AcquireGot, AcquireNew,
       ReleaseLoad, ReleaseLink, ReleaseCas, ReleaseRetry, LoadHead, Goto, Return
  <1>8. ASSUME thr_syn_wipe \/ UNCHANGED vars
        PROVE  u \in InLoop /\ UNCHANGED <<pc[u], ptr[u], nxt[u], td[u]>>
    BY <1>8 DEF InLoop, vars, thr_syn_wipe, WipeLoad, WipeReleased, WipeFree, WipeEnd
  <1>9. QED
    BY <1>1, <1>2, <1>3, <1>4, <1>5, <1>6, <1>7, <1>8, <1>u
       DEF Next, thr_syn_acquire_td, thr_syn_release_td

-----------------------------------------------------------------------------
(* The wipe *)

\* No thread data is owned when the jobs are done: all of them are on the stack.
LEMMA DoneAllStacked ==
  ASSUME IInv, JobsDone
  PROVE  /\ \A t \in Threads : Owned(t) = {}
         /\ \A n \in made : \E i \in 1..Len(stack) : n = stack[i]
  <1>1. \A t \in Threads : Owned(t) = {}
    BY DEF JobsDone, Owned
  <1>2. QED
    BY <1>1 DEF IInv, OwnInv

\* Once the wipe frees, or has begun with no job, the jobs and the stack stay put.
LEMMA DoneStays ==
  ASSUME IInv, [Next]_vars, JobsDone, wipe \notin {"no", "wait"} \/ calm
  PROVE  JobsDone' /\ UNCHANGED <<head, next, made, stack>>
  <1> USE DEF locals, wiping
  <1>1. ASSUME NEW t \in Threads, thr_syn_acquire_td(t) \/ thr_syn_release_td(t) PROVE FALSE
    BY <1>1 DEF JobsDone, thr_syn_acquire_td, thr_syn_release_td,
       AcquireLoad, AcquireNext, AcquireCas, AcquireRetry, AcquireGot, AcquireNew,
       ReleaseLoad, ReleaseLink, ReleaseCas, ReleaseRetry
  <1>2. ASSUME thr_syn_wipe \/ UNCHANGED vars
        PROVE  JobsDone' /\ UNCHANGED <<head, next, made, stack>>
    BY <1>2 DEF JobsDone, vars, thr_syn_wipe, WipeLoad, WipeReleased, WipeFree, WipeEnd
  <1>3. QED
    BY <1>1, <1>2 DEF Next

\* A step of a job leaves the wipe where it is, and unmakes no thread data.
LEMMA JobsLeaveWipe ==
  ASSUME IInv, NEW t \in Threads, thr_syn_acquire_td(t) \/ thr_syn_release_td(t)
  PROVE  UNCHANGED wiping /\ made \subseteq made'
  BY DEF thr_syn_acquire_td, thr_syn_release_td, wiping, locals,
     AcquireLoad, AcquireNext, AcquireCas, AcquireRetry, AcquireGot, AcquireNew,
     ReleaseLoad, ReleaseLink, ReleaseCas, ReleaseRetry

\* The wipe goes down the stack, one thread data at a time.
LEMMA WipeNext == ASSUME TdConstants, IInv, [Next]_vars PROVE WipeInv'
  <1>0. /\ TypeOK /\ OwnInv /\ Linked /\ WipeInv /\ NULL \notin Tds
        /\ Len(stack) \in Nat /\ stack \in Seq(Tds)
    BY DEF IInv, TypeOK, TdConstants
  <1> DEFINE l == Len(stack)
  <1>1. ASSUME NEW t \in Threads, thr_syn_acquire_td(t) \/ thr_syn_release_td(t) PROVE WipeInv'
    <2>1. UNCHANGED <<wipe, wptr, calm, freed>> /\ made \subseteq made'
      BY <1>1, JobsLeaveWipe DEF wiping
    <2>2. CASE JobsDone /\ (wipe \notin {"no", "wait"} \/ calm)
      BY <1>0, <2>1, <2>2, DoneStays DEF WipeInv, WipeAt
    <2>3. CASE wipe \in {"no", "wait"} /\ ~calm
      BY <1>0, <2>1, <2>3 DEF WipeInv
    <2>4. QED
      BY <1>0, <2>2, <2>3 DEF WipeInv, TypeOK
  <1>2. CASE UNCHANGED vars
    BY <1>0, <1>2 DEF WipeInv, WipeAt, JobsDone, vars
  <1>3. CASE WipeLoad
    <2>1. head.ptr \in made \cup {NULL}
      BY <1>0 DEF Linked, OwnInv
    <2>2. /\ wipe' = "wait" /\ wptr' = head.ptr /\ (calm' <=> JobsDone)
          /\ UNCHANGED <<head, made, pc, held, freed>> /\ wipe = "no"
      BY <1>3 DEF WipeLoad
    <2>3. JobsDone => JobsDone'
      BY <2>2 DEF JobsDone
    <2>4. QED
      BY <1>0, <2>1, <2>2, <2>3 DEF WipeInv
  <1>4. CASE WipeReleased
    <2>1. /\ wipe = "wait" /\ JobsDone /\ JobsDone' /\ wipe' = "free"
          /\ UNCHANGED <<head, made, stack, wptr, calm, freed>>
      BY <1>4 DEF WipeReleased, JobsDone
    <2>2. \A i \in 1..l : stack[i] \in Tds
      BY <1>0
    <2>3. PICK k \in 0..l : /\ wptr = IF k = 0 THEN NULL ELSE stack[k]
                            /\ calm => k = l
      <3>1. CASE calm
        <4>1. wptr = IF l = 0 THEN NULL ELSE stack[l]
          BY <1>0, <2>1, <3>1 DEF WipeInv, Linked
        <4>2. QED
          BY <1>0, <4>1
      <3>2. CASE ~calm /\ wptr = NULL
        BY <1>0, <3>2
      <3>3. CASE ~calm /\ wptr # NULL
        <4>1. PICK i \in 1..l : wptr = stack[i]
          BY <1>0, <2>1, <3>3, DoneAllStacked DEF WipeInv
        <4>2. QED
          BY <1>0, <3>3, <4>1
      <3>4. QED
        BY <3>1, <3>2, <3>3
    <2>4. WipeAt(k, k)'
      <3>1. \A i \in 1..l : freed[stack[i]] = 0 /\ ~(k < i /\ i <= k)
        BY <1>0, <2>1, <2>2 DEF WipeInv
      <3>2. QED
        BY <1>0, <2>1, <2>3, <3>1 DEF WipeAt
    <2>5. \A n \in Tds \ made : freed[n] = 0
      BY <1>0, <2>1 DEF WipeInv
    <2>6. k \in 0..Len(stack') /\ k \in 0..k
      BY <1>0, <2>1
    <2>7. QED
      BY <2>1, <2>4, <2>5, <2>6 DEF WipeInv
  <1>5. CASE WipeFree
    <2>1. /\ wipe = "free" /\ wptr # NULL /\ JobsDone /\ JobsDone'
          /\ freed' = [freed EXCEPT ![wptr] = @ + 1] /\ wptr' = next[wptr]
          /\ UNCHANGED <<head, next, made, stack, wipe, calm>>
      BY <1>0, <1>5 DEF WipeFree, JobsDone, WipeInv
    <2>a. PICK top \in 0..l : \E k \in 0..top : WipeAt(top, k)
      BY <1>0, <2>1 DEF WipeInv
    <2>2. PICK k \in 0..top : WipeAt(top, k)
      BY <2>a
    <2>3. k \in 1..l /\ k # 0 /\ wptr = stack[k] /\ top \in Nat
      BY <1>0, <2>1, <2>2 DEF WipeAt
    <2>4. k - 1 \in 0..top /\ (k = 1 <=> k - 1 = 0)
      BY <2>2, <2>3
    <2>5. wptr' = IF k - 1 = 0 THEN NULL ELSE stack[k - 1]
      BY <1>0, <2>1, <2>3, <2>4 DEF Linked
    <2>6. ASSUME NEW i \in 1..l
          PROVE  freed'[stack[i]] = IF k - 1 < i /\ i <= top THEN 1 ELSE 0
      <3>1. stack[i] \in Tds /\ stack[k] \in Tds
        BY <1>0, <2>3
      <3>2. CASE i = k
        <4>1. freed[stack[k]] = 0
          BY <2>2, <2>3 DEF WipeAt
        <4>2. freed'[stack[i]] = 1
          BY <1>0, <2>1, <2>3, <3>1, <3>2, <4>1 DEF TypeOK
        <4>3. k - 1 < i /\ i <= top
          BY <2>2, <2>3, <3>2
        <4>4. QED
          BY <4>2, <4>3
      <3>3. CASE i # k
        <4>1. freed'[stack[i]] = freed[stack[i]]
          BY <1>0, <2>1, <2>3, <3>1, <3>3 DEF OwnInv, TypeOK
        <4>2. k - 1 < i <=> k < i
          BY <2>3, <3>3
        <4>3. QED
          BY <2>2, <4>1, <4>2 DEF WipeAt
      <3>4. QED
        BY <3>2, <3>3
    <2>7. WipeAt(top, k - 1)'
      BY <2>1, <2>2, <2>5, <2>6 DEF WipeAt
    <2>8. \A n \in Tds \ made : freed'[n] = 0
      <3>1. wptr \in made
        BY <1>0, <2>3 DEF OwnInv
      <3>2. QED
        BY <1>0, <2>1, <3>1 DEF WipeInv, TypeOK
    <2>9. QED
      BY <2>1, <2>2, <2>4, <2>7, <2>8 DEF WipeInv
  <1>6. CASE WipeEnd
    <2>1. /\ wipe = "free" /\ wptr = NULL /\ wipe' = "done" /\ JobsDone /\ JobsDone'
          /\ UNCHANGED <<made, stack, wptr, calm, freed>>
      BY <1>0, <1>6 DEF WipeEnd, JobsDone, WipeInv
    <2>a. PICK top \in 0..l : \E k \in 0..top : WipeAt(top, k)
      BY <1>0, <2>1 DEF WipeInv
    <2>2. PICK k \in 0..top : WipeAt(top, k)
      BY <2>a
    <2>3. k = 0
      <3>1. k # 0 => k \in 1..l
        BY <1>0, <2>2
      <3>2. k # 0 => stack[k] # NULL
        BY <1>0, <3>1
      <3>3. QED
        BY <2>1, <2>2, <3>2 DEF WipeAt
    <2>4. WipeAt(top, k)'
      BY <2>1, <2>2, <2>3 DEF WipeAt
    <2>5. QED
      BY <1>0, <2>1, <2>2, <2>4 DEF WipeInv
  <1>7. QED
    BY <1>1, <1>2, <1>3, <1>4, <1>5, <1>6 DEF Next, thr_syn_wipe

-----------------------------------------------------------------------------
(* The theorems *)

\* A new syn has an empty stack.
LEMMA InitInv == ASSUME TdConstants, Init PROVE IInv
  <1>1. stack \in Seq(Tds) /\ Len(stack) = 0
    BY DEF Init
  <1>2. TypeOK
    <2>1. Nowhere \in Tagged /\ NULL \in Pointer
      BY DEF TdConstants, Nowhere, Tagged, Pointer
    <2>2. calm \in BOOLEAN
      BY Zenon DEF Init
    <2>3. /\ head \in Tagged /\ next \in [Tds -> Pointer] /\ ptr \in [Threads -> Tagged]
          /\ nxt \in [Threads -> Pointer] /\ td \in [Threads -> Pointer] /\ wptr \in Pointer
      BY <2>1 DEF Init
    <2>4. /\ made \in SUBSET Tds /\ held \in [Threads -> SUBSET Tds]
          /\ pc \in [Threads -> Pcs] /\ wipe \in {"no", "wait", "free", "done"}
          /\ freed \in [Tds -> Nat]
      BY DEF Init, Pcs
    <2>5. QED
      BY <1>1, <2>2, <2>3, <2>4 DEF TypeOK
  <1>3. OwnInv
    BY <1>1 DEF Init, OwnInv, Owned
  <1>4. PlaceInv /\ SeqInv /\ Linked
    BY <1>1 DEF Init, PlaceInv, SeqInv, InLoop, Linked, Nowhere
  <1>5. WipeInv
    BY DEF Init, WipeInv
  <1>6. QED
    BY <1>2, <1>3, <1>4, <1>5 DEF IInv

\* Every step keeps the invariant.
LEMMA InvNext == ASSUME TdConstants, IInv, [Next]_vars PROVE IInv'
  BY TypeNext, PlaceNext, OwnNext, LinkNext, SeqNext, WipeNext DEF IInv

\* The stack, its owners and the threads' copies of its head agree in every state.
THEOREM Invariance == ASSUME TdConstants PROVE Spec => []IInv
  BY InitInv, InvNext, PTL DEF Spec

\* However the loads and the compare-and-swaps of thr_syn_acquire_td and
\* thr_syn_release_td interleave, each thread data has one owner or one place on
\* the stack, the links lead through the stack, and thr_syn_wipe frees none that
\* is owned, nor one twice, and all of them when it begins after the last job.
THEOREM AllTdsAccounted == ASSUME TdConstants PROVE Spec => []TdsAccounted
  <1>1. ASSUME IInv PROVE TdsAccounted
    <2>0. TypeOK /\ OwnInv /\ Linked /\ WipeInv /\ stack \in Seq(Tds) /\ Len(stack) \in Nat
      BY <1>1 DEF IInv, TypeOK
    <2>1. \A n : n \in Stacked <=> \E i \in 1..Len(stack) : n = stack[i]
      BY <2>0 DEF Stacked
    <2>2. OneOwner
      BY <2>0, <2>1 DEF OneOwner, OwnInv
    <2>3. StackComplete
      <3>1. \A i, j \in DOMAIN stack : stack[i] = stack[j] => i = j
        BY <2>0 DEF OwnInv
      <3>2. Stacked = made \ UNION {Owned(t) : t \in Threads}
        BY <2>0, <2>1 DEF OwnInv
      <3>3. QED
        BY <2>0, <3>1, <3>2 DEF StackComplete
    <2>4. WipeFrees
      <3>1. CASE wipe \in {"no", "wait"}
        BY <2>0, <3>1 DEF WipeFrees, WipeInv
      <3>2. CASE wipe \in {"free", "done"}
        <4>a. PICK top \in 0..Len(stack) : \E k \in 0..top : WipeAt(top, k)
          BY <2>0, <3>2 DEF WipeInv
        <4>1. PICK k \in 0..top : WipeAt(top, k)
          BY <4>a
        <4>2. JobsDone /\ \A n \in Tds \ made : freed[n] = 0
          BY <2>0, <3>2 DEF WipeInv
        <4>3. /\ \A t \in Threads : Owned(t) = {}
              /\ \A n \in made : \E i \in 1..Len(stack) : n = stack[i]
          BY <1>1, <4>2, DoneAllStacked
        <4>4. \A n \in Tds : freed[n] <= 1
          BY <4>1, <4>2, <4>3 DEF WipeAt
        <4>5. ASSUME wipe = "done", calm, NEW n \in made PROVE freed[n] = 1
          <5>1. PICK i \in 1..Len(stack) : n = stack[i]
            BY <4>3
          <5>2. k < i /\ i <= top
            BY <2>0, <4>1, <4>5 DEF WipeAt
          <5>3. QED
            BY <4>1, <5>1, <5>2 DEF WipeAt
        <4>6. QED
          BY <4>3, <4>4, <4>5 DEF WipeFrees
      <3>3. QED
        BY <2>0, <3>1, <3>2 DEF TypeOK
    <2>5. QED
      BY <2>2, <2>3, <2>4 DEF TdsAccounted
  <1>2. QED
    BY <1>1, Invariance, PTL

-----------------------------------------------------------------------------
(* IcQueue, for any number of messages. *)

CONSTANTS Ids, NONE
VARIABLES msg_list, last_normal_prio_msg, is_closing

Q == INSTANCE IcQueue

Msg == [id : Ids, prio : Q!LOW..Q!HIGH, query : BOOLEAN]

\* The list holds messages; until the filter of a BYE it is by priority, and the
\* shortcut, when there is one, is a message of the list of normal priority.
QueueInv ==
  /\ msg_list \in Seq(Msg)
  /\ is_closing \in BOOLEAN
  /\ last_normal_prio_msg \in Q!IdsOf(msg_list) \cup {NONE}
  /\ ~is_closing =>
       /\ \A i \in 2..Len(msg_list) : msg_list[i].prio <= msg_list[i - 1].prio
       /\ \A i \in 1..Len(msg_list) :
            msg_list[i].id = last_normal_prio_msg => msg_list[i].prio = Q!NORMAL

\* What the invariant says of the list, index by index.
LEMMA QueueFacts ==
  ASSUME QueueInv
  PROVE  /\ Len(msg_list) \in Nat /\ DOMAIN msg_list = 1..Len(msg_list)
         /\ \A i \in 1..Len(msg_list) : /\ msg_list[i] \in Msg /\ msg_list[i].id \in Ids
                                        /\ msg_list[i].prio \in 0..2
         /\ \A x : x \in Q!IdsOf(msg_list) <=> \E i \in 1..Len(msg_list) : msg_list[i].id = x
  <1>1. /\ Len(msg_list) \in Nat /\ DOMAIN msg_list = 1..Len(msg_list)
        /\ \A i \in 1..Len(msg_list) : msg_list[i] \in Msg
    BY DEF QueueInv
  <1>2. \A m \in Msg : m.id \in Ids /\ m.prio \in 0..2
    BY DEF Msg, Q!LOW, Q!HIGH
  <1>3. \A x : x \in Q!IdsOf(msg_list) <=> \E i \in 1..Len(msg_list) : msg_list[i].id = x
    BY <1>1 DEF Q!IdsOf
  <1>4. QED
    BY <1>1, <1>2, <1>3

\* The neighbours of a message at its place.
LEMMA PlaceOK ==
  ASSUME QueueInv, ~is_closing, NEW prio \in 0..2, NEW k \in 0..Len(msg_list), Q!Place(prio, k)
  PROVE  /\ k > 0 => prio <= msg_list[k].prio
         /\ k < Len(msg_list) => msg_list[k + 1].prio <= prio
  <1> DEFINE n == Len(msg_list)
             last == last_normal_prio_msg
  <1>1. n \in Nat /\ \A i \in 1..n : msg_list[i].prio \in 0..2
    BY QueueFacts
  <1>2. /\ \A i \in 2..n : msg_list[i].prio <= msg_list[i - 1].prio
        /\ \A i \in 1..n : msg_list[i].id = last => msg_list[i].prio = 1
    BY DEF QueueInv, Q!NORMAL
  <1>3. \/ k = n /\ (n = 0 \/ prio <= msg_list[n].prio)
        \/ k = 0 /\ n # 0 /\ prio > msg_list[1].prio
        \/ k # 0 /\ prio = 1 /\ msg_list[k].id = last
        \/ /\ n # 0 /\ ~(prio <= msg_list[n].prio)
           /\ \A i \in 1..k : msg_list[i].prio = 2
           /\ k < n => msg_list[k + 1].prio # 2
    BY DEF Q!Place, Q!NORMAL, Q!HIGH
  <1> HIDE DEF n, last
  <1>4. k \in 0..n
    BY DEF n
  <1>5. /\ k > 0 => k \in 1..n /\ k \in 1..k
        /\ k < n => k + 1 \in 1..n
        /\ k > 0 /\ k < n => k + 1 \in 2..n /\ k + 1 - 1 = k
        /\ n # 0 => n \in 1..n
    BY <1>1, <1>4
  <1>6. (k > 0 => prio <= msg_list[k].prio) /\ (k < n => msg_list[k + 1].prio <= prio)
    <2>1. CASE k = n /\ (n = 0 \/ prio <= msg_list[n].prio)
      BY <1>1, <2>1
    <2>2. CASE k = 0 /\ n # 0 /\ prio > msg_list[1].prio
      BY <1>1, <1>5, <2>2
    <2>3. CASE k # 0 /\ prio = 1 /\ msg_list[k].id = last
      <3>1. k > 0 /\ msg_list[k].prio = 1
        BY <1>2, <1>4, <1>5, <2>3
      <3>2. k < n => msg_list[k + 1].prio <= msg_list[k].prio
        BY <1>2, <1>5, <3>1
      <3>3. QED
        BY <2>3, <3>1, <3>2
    <2>4. CASE /\ n # 0 /\ ~(prio <= msg_list[n].prio)
               /\ \A i \in 1..k : msg_list[i].prio = 2
               /\ k < n => msg_list[k + 1].prio # 2
      <3>1. prio > 0
        BY <1>1, <1>5, <2>4
      <3>2. QED
        BY <1>1, <1>5, <2>4, <3>1
    <2>5. QED
      BY <1>3, <2>1, <2>2, <2>3, <2>4
  <1>7. QED
    BY <1>6 DEF n

\* ic_queue: the message goes between its neighbours.
LEMMA QueueNext ==
  ASSUME Q!QueueConstants, QueueInv, NEW x \in Ids, NEW prio \in Q!LOW..Q!HIGH,
         NEW query \in BOOLEAN, Q!ic_queue(x, prio, query)
  PROVE  QueueInv'
  <1> DEFINE n == Len(msg_list)
             m == [id |-> x, prio |-> prio, query |-> query]
             last == last_normal_prio_msg
             t == msg_list'
  <1>1. m \in Msg /\ m.id = x /\ m.prio = prio /\ prio \in 0..2
    BY DEF Msg, Q!LOW, Q!HIGH
  <1>2. /\ n \in Nat /\ \A i \in 1..n : msg_list[i] \in Msg /\ msg_list[i].id \in Ids
        /\ \A y : y \in Q!IdsOf(msg_list) <=> \E i \in 1..n : msg_list[i].id = y
    BY QueueFacts
  <1>3. PICK k \in 0..n :
          /\ Q!Place(prio, k)
          /\ t = [i \in 1..(n + 1) |->
                    IF i <= k THEN msg_list[i] ELSE IF i = k + 1 THEN m ELSE msg_list[i - 1]]
    BY DEF Q!ic_queue, Q!Added
  <1>4. /\ \A i \in 1..n : msg_list[i].id # x
        /\ last' = (IF prio = Q!NORMAL THEN x ELSE last) /\ is_closing' = is_closing
    BY <1>2 DEF Q!ic_queue
  <1> HIDE DEF n, m
  <1>5. \A i \in 1..(n + 1) : /\ i <= k => i \in 1..n
                              /\ ~(i <= k) /\ i # k + 1 => i - 1 \in 1..n
    BY <1>2
  <1>6. t \in Seq(Msg) /\ Len(t) = n + 1
    <2>1. t \in [1..(n + 1) -> Msg]
      BY <1>1, <1>2, <1>3, <1>5
    <2>2. n + 1 \in Nat
      BY <1>2
    <2> HIDE DEF t
    <2>3. QED
      BY <2>1, <2>2
  <1>7. /\ \A i \in 1..k : t[i] = msg_list[i]
        /\ t[k + 1] = m
        /\ \A i \in (k + 2)..(n + 1) : t[i] = msg_list[i - 1]
    BY <1>2, <1>3
  <1> HIDE DEF t
  <1>8. k + 1 \in 1..(n + 1)
    BY <1>2
  <1>9. ASSUME NEW i \in 1..(n + 1), i # k + 1 PROVE \E j \in 1..n : t[i] = msg_list[j]
    <2>1. \/ i \in 1..k /\ i \in 1..n
          \/ i \in (k + 2)..(n + 1) /\ i - 1 \in 1..n
      BY <1>2, <1>9
    <2>2. QED
      BY <1>7, <2>1
  <1>10. ASSUME NEW j \in 1..n PROVE \E i \in 1..(n + 1) : t[i] = msg_list[j]
    <2>1. \/ j \in 1..k /\ j \in 1..(n + 1)
          \/ j + 1 \in (k + 2)..(n + 1) /\ j + 1 \in 1..(n + 1) /\ j + 1 - 1 = j
      BY <1>2
    <2>2. QED
      BY <1>7, <2>1
  <1>11. DOMAIN t = 1..(n + 1)
    BY <1>6
  <1>12. last' \in Q!IdsOf(t) \cup {NONE}
    <2>1. CASE prio = Q!NORMAL
      BY <1>1, <1>4, <1>7, <1>8, <1>11, <2>1 DEF Q!IdsOf
    <2>2. CASE prio # Q!NORMAL
      <3>1. last' = last /\ last \in Q!IdsOf(msg_list) \cup {NONE}
        BY <1>4, <2>2 DEF QueueInv
      <3>2. QED
        BY <1>2, <1>10, <1>11, <3>1 DEF Q!IdsOf
    <2>3. QED
      BY <2>1, <2>2
  <1>13. ASSUME ~is_closing, NEW i \in 1..(n + 1), t[i].id = last' PROVE t[i].prio = Q!NORMAL
    <2>1. CASE i = k + 1
      <3>1. t[i].id = x /\ t[i].prio = prio
        BY <1>1, <1>7, <2>1
      <3>2. last = x => FALSE
        BY <1>2, <1>4 DEF QueueInv, Q!QueueConstants
      <3>3. QED
        BY <1>4, <1>13, <3>1, <3>2
    <2>2. CASE i # k + 1
      <3>1. PICK j \in 1..n : t[i] = msg_list[j]
        BY <1>9, <2>2
      <3>2. last' = last
        BY <1>4, <1>13, <3>1
      <3>3. QED
        BY <1>13, <3>1, <3>2 DEF QueueInv, n
    <2>3. QED
      BY <2>1, <2>2
  <1>14. ASSUME ~is_closing, NEW i \in 2..(n + 1) PROVE t[i].prio <= t[i - 1].prio
    <2>1. /\ k > 0 => prio <= msg_list[k].prio
          /\ k < n => msg_list[k + 1].prio <= prio
      BY <1>1, <1>3, <1>14, PlaceOK DEF n
    <2>2. \A j \in 2..n : msg_list[j].prio <= msg_list[j - 1].prio
      BY <1>14 DEF QueueInv, n
    <2>3. CASE i <= k
      <3>1. i \in 1..k /\ i - 1 \in 1..k /\ i \in 2..n
        BY <1>2, <2>3
      <3>2. QED
        BY <1>7, <2>2, <3>1
    <2>4. CASE i = k + 1
      <3>1. k > 0 /\ i - 1 = k /\ k \in 1..k
        BY <1>2, <2>4
      <3>2. QED
        BY <1>1, <1>7, <2>1, <2>4, <3>1
    <2>5. CASE i = k + 2
      <3>1. k < n /\ i - 1 = k + 1 /\ i \in (k + 2)..(n + 1)
        BY <1>2, <2>5
      <3>2. QED
        BY <1>1, <1>7, <2>1, <3>1
    <2>6. CASE i > k + 2
      <3>1. i \in (k + 2)..(n + 1) /\ i - 1 \in (k + 2)..(n + 1) /\ i - 1 \in 2..n
        BY <1>2, <2>6
      <3>2. QED
        BY <1>7, <2>2, <3>1
    <2>7. QED
      BY <1>2, <2>3, <2>4, <2>5, <2>6
  <1>15. is_closing' \in BOOLEAN
    BY <1>4 DEF QueueInv
  <1>16. QED
    BY <1>4, <1>6, <1>12, <1>13, <1>14, <1>15 DEF QueueInv, t

\* The list after a pop, and after a message was popped and put back.
LEMMA PopNext ==
  ASSUME Q!QueueConstants, QueueInv, Q!ic_pop_msg \/ Q!PopAndPutBack PROVE QueueInv'
  <1> DEFINE n == Len(msg_list)
             last == last_normal_prio_msg
             t == msg_list'
  <1>1. /\ n \in Nat /\ \A i \in 1..n : msg_list[i] \in Msg /\ msg_list[i].id \in Ids
        /\ \A y : y \in Q!IdsOf(msg_list) <=> \E i \in 1..n : msg_list[i].id = y
    BY QueueFacts
  <1>2. /\ n # 0 /\ is_closing' = is_closing
        /\ last' = (IF msg_list[1].id = last THEN NONE ELSE last)
    BY DEF QueueInv, Q!ic_pop_msg, Q!PopAndPutBack
  <1>3. PICK d \in 0..1 : /\ t \in Seq(Msg) /\ Len(t) = n - d
                          /\ \A i \in 1..(n - d) : t[i] = msg_list[i + d]
    <2>1. CASE Q!ic_pop_msg
      <3>1. t = Tail(msg_list) /\ msg_list \in Seq(Msg) /\ msg_list # <<>>
        BY <2>1 DEF Q!ic_pop_msg, QueueInv
      <3>2. t \in Seq(Msg) /\ Len(t) = n - 1 /\ \A i \in 1..(n - 1) : t[i] = msg_list[i + 1]
        BY <3>1
      <3>3. QED
        BY <3>2
    <2>2. CASE Q!PopAndPutBack
      <3>1. t = msg_list /\ msg_list \in Seq(Msg)
        BY <2>2 DEF Q!PopAndPutBack, QueueInv
      <3>2. t \in Seq(Msg) /\ Len(t) = n - 0 /\ \A i \in 1..(n - 0) : t[i] = msg_list[i + 0]
        BY <1>1, <3>1
      <3>3. QED
        BY <3>2
    <2>3. QED
      BY <2>1, <2>2
  <1>4. /\ last \in Q!IdsOf(msg_list) \cup {NONE}
        /\ ~is_closing => \A i \in 1..n : msg_list[i].id = last => msg_list[i].prio = Q!NORMAL
        /\ ~is_closing => \A i \in 2..n : msg_list[i].prio <= msg_list[i - 1].prio
    BY DEF QueueInv
  <1>5. DOMAIN t = 1..(n - d)
    BY <1>3
  <1> HIDE DEF n, t
  <1>6. last' \in Q!IdsOf(t) \cup {NONE}
    <2> SUFFICES ASSUME last' # NONE PROVE last' \in Q!IdsOf(t)
      OBVIOUS
    <2>1. last' = last /\ msg_list[1].id # last
      BY <1>2
    <2>2. PICK i \in 1..n : msg_list[i].id = last
      BY <1>1, <1>4, <2>1
    <2>3. i - d \in 1..(n - d) /\ i - d + d = i
      BY <1>1, <2>1, <2>2
    <2>4. QED
      BY <1>3, <1>5, <2>1, <2>2, <2>3 DEF Q!IdsOf
  <1>7. ASSUME ~is_closing, NEW i \in 1..(n - d), t[i].id = last' PROVE t[i].prio = Q!NORMAL
    <2>1. i + d \in 1..n /\ t[i] = msg_list[i + d]
      BY <1>1, <1>3
    <2>2. last' = last
      BY <1>1, <1>2, <1>7, <2>1 DEF Q!QueueConstants
    <2>3. QED
      BY <1>4, <1>7, <2>1, <2>2
  <1>8. ASSUME ~is_closing, NEW i \in 2..(n - d) PROVE t[i].prio <= t[i - 1].prio
    <2>1. i \in 1..(n - d) /\ i - 1 \in 1..(n - d) /\ i + d \in 2..n /\ i - 1 + d = i + d - 1
      BY <1>1
    <2>2. QED
      BY <1>3, <1>4, <1>8, <2>1
  <1>9. QED
    BY <1>2, <1>3, <1>6, <1>7, <1>8 DEF QueueInv, t

\* ic_msg_filter_on_bye: the shortcut is the head of what is left.
LEMMA ByeNext ==
  ASSUME QueueInv, Q!ic_msg_filter_on_bye PROVE QueueInv'
  <1> DEFINE keep == {i \in DOMAIN msg_list : ~msg_list[i].query}
             last == last_normal_prio_msg
  <1>1. PICK n \in 0..Len(msg_list) : \E f \in [1..n -> keep] :
          /\ \A k \in keep : \E i \in 1..n : f[i] = k
          /\ msg_list' = [i \in 1..n |-> msg_list[f[i]]]
    BY DEF Q!ic_msg_filter_on_bye
  <1>2. PICK f \in [1..n -> keep] :
          /\ \A k \in keep : \E i \in 1..n : f[i] = k
          /\ msg_list' = [i \in 1..n |-> msg_list[f[i]]]
    BY <1>1
  <1>3. last' = IF \E i \in keep : msg_list[i].prio = Q!NORMAL THEN msg_list'[1].id ELSE NONE
    BY DEF Q!ic_msg_filter_on_bye
  <1>4. is_closing' /\ is_closing' \in BOOLEAN
    BY Zenon DEF Q!ic_msg_filter_on_bye
  <1>5. \A i \in keep : msg_list[i] \in Msg
    BY QueueFacts
  <1>6. n \in Nat /\ (keep # {} => 1 \in 1..n)
    BY <1>2
  <1> HIDE DEF keep
  <1>7. msg_list' \in [1..n -> Msg]
    BY <1>2, <1>5
  <1>8. msg_list' \in Seq(Msg) /\ DOMAIN msg_list' = 1..n
    BY <1>6, <1>7
  <1>9. last' \in Q!IdsOf(msg_list') \cup {NONE}
    BY <1>3, <1>6, <1>8 DEF Q!IdsOf
  <1>10. QED
    BY <1>4, <1>8, <1>9 DEF QueueInv

\* Nothing is queued at the start, and after ic_cancel_all.
LEMMA QueueInit == (Q!Init => QueueInv) /\ (Q!ic_cancel_all => QueueInv')
  <1>1. (Q!Init => is_closing \in BOOLEAN) /\ (Q!ic_cancel_all => is_closing' \in BOOLEAN)
    BY Zenon DEF Q!Init, Q!ic_cancel_all
  <1>2. Q!Init => QueueInv
    BY <1>1 DEF Q!Init, QueueInv
  <1>3. Q!ic_cancel_all => QueueInv'
    BY <1>1 DEF Q!ic_cancel_all, QueueInv
  <1>4. QED
    BY <1>2, <1>3

\* The invariant holds always.
THEOREM QueueAlways ==
  ASSUME Q!QueueConstants PROVE Q!Spec => []QueueInv
  <1>1. ASSUME QueueInv, [Q!Next]_(Q!vars) PROVE QueueInv'
    <2>1. CASE Q!Next
      BY <1>1, <2>1, QueueNext, PopNext, ByeNext, QueueInit DEF Q!Next
    <2>2. CASE UNCHANGED Q!vars
      BY <1>1, <2>2 DEF Q!vars, QueueInv, Q!IdsOf
    <2>3. QED
      BY <1>1, <2>1, <2>2
  <1>2. QED
    BY <1>1, QueueInit, PTL DEF Q!Spec

\* ic_queue: for any number of messages, the shortcut to the last message of
\* normal priority is NULL or a message still queued, and until a BYE is filtered
\* messages leave by decreasing priority.
THEOREM ShortcutSound ==
  ASSUME Q!QueueConstants PROVE Q!Spec => []Q!QueueSound
  <1>1. QueueInv => Q!QueueSound
    BY DEF QueueInv, Q!QueueSound, Q!ByPriority
  <1>2. QED
    BY <1>1, QueueAlways, PTL
=============================================================================
