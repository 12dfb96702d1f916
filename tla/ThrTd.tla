-------------------------------- MODULE ThrTd --------------------------------
(***************************************************************************)
(* The thread data of a thr_syn_t (core/thr-job.blk): a lock-free stack    *)
(* from which jobs take a thread data and onto which they put it back.     *)
(* The head is a pointer with a sequence number in its 16 high bits, so    *)
(* that a compare-and-swap fails when the head has gone away and come back *)
(* (one load and one compare-and-swap are each a step).                    *)
(***************************************************************************)
EXTENDS Integers, FiniteSets, Sequences

CONSTANTS Threads,  \* threads that run jobs of the syn
          Tds,      \* the thread data that new_td can return
          NULL,
          NbSeq     \* 2^16

\* The pointer NULL is no thread data, and sequence numbers count.
TdConstants == NULL \notin Tds /\ NbSeq \in Nat \ {0}

VARIABLES head,     \* syn->head: a pointer and a sequence number
          next,     \* td->next
          made,     \* the thread data that new_td has made
          held,     \* the ones each thread owns
          pc,       \* each thread's place
          ptr,      \* its 'ptr', tagged
          nxt,      \* what it has read in ptr->next
          td,       \* the thread data it releases
          wipe,     \* thr_syn_wipe: "no", "wait" for the jobs, "free", "done"
          wptr,     \* its 'ptr'
          calm,     \* the wipe began when no job was left
          freed,    \* how often delete_td was called on each
          stack     \* history: what the exchanges have left on the stack, from
                    \* the bottom

vars == <<head, next, made, held, pc, ptr, nxt, td, wipe, wptr, calm, freed, stack>>
locals == <<ptr, nxt, td>>
wiping == <<wipe, wptr, calm, freed>>

Nowhere == [ptr |-> NULL, seq |-> 0]

Init ==
  /\ head = Nowhere
  /\ next = [n \in Tds |-> NULL]
  /\ made = {}
  /\ held = [t \in Threads |-> {}]
  /\ pc = [t \in Threads |-> "idle"]
  /\ ptr = [t \in Threads |-> Nowhere]
  /\ nxt = [t \in Threads |-> NULL]
  /\ td = [t \in Threads |-> NULL]
  /\ wipe = "no"
  /\ wptr = NULL
  /\ calm = FALSE
  /\ freed = [n \in Tds |-> 0]
  /\ stack = <<>>

\* What a pop leaves on the stack.
Popped(s) == SubSeq(s, 1, Len(s) - 1)

Goto(t, l) == pc' = [pc EXCEPT ![t] = l]

\* The locals of the call are gone.
Return(t) ==
  /\ ptr' = [ptr EXCEPT ![t] = Nowhere]
  /\ nxt' = [nxt EXCEPT ![t] = NULL]
  /\ td' = [td EXCEPT ![t] = NULL]
  /\ Goto(t, "idle")

\* Mutant of thr_syn_next_td_ptr: the sequence number does not move.
thr_syn_next_td_ptr_mut(cur, n) == [ptr |-> n, seq |-> cur.seq]

thr_syn_next_td_ptr(cur, n) == [ptr |-> n, seq |-> (cur.seq + 1) % NbSeq]

InLoop == {t \in Threads : pc[t] \in {"acq_next", "acq_cas", "rel_link", "rel_cas"}}

\* Bound: the sequence number wraps, but the head changes fewer than NbSeq times
\* during one loop of a thread.
SetHead(n, cur) ==
  /\ \A t \in InLoop : (head.seq + 1) % NbSeq # ptr[t].seq
  /\ head' = thr_syn_next_td_ptr(cur, n)

\* Both loops start from the head, and again when the exchange fails.
LoadHead(t, l) ==
  /\ ptr' = [ptr EXCEPT ![t] = head]
  /\ Goto(t, l)

-----------------------------------------------------------------------------
(* thr_syn_acquire_td *)

AcquireFrom == IF head.ptr = NULL THEN "acq_new" ELSE "acq_next"

\* A job holds a reference: the syn is not wiped, or the wipe waits for jobs.
AcquireLoad(t) ==
  /\ pc[t] = "idle"
  /\ wipe \in {"no", "wait"} /\ ~calm
  /\ LoadHead(t, AcquireFrom)
  /\ UNCHANGED <<head, next, made, held, nxt, td, wiping, stack>>

AcquireNext(t) ==
  /\ pc[t] = "acq_next"
  /\ nxt' = [nxt EXCEPT ![t] = next[ptr[t].ptr]]
  /\ Goto(t, "acq_cas")
  /\ UNCHANGED <<head, next, made, held, ptr, td, wiping, stack>>

AcquireCas(t) ==
  /\ pc[t] = "acq_cas"
  /\ head = ptr[t]
  /\ SetHead(nxt[t], ptr[t])
  /\ stack' = Popped(stack)
  /\ Goto(t, "acq_got")
  /\ UNCHANGED <<next, made, held, locals, wiping>>

\* The weak exchange may also fail on equal values.
AcquireRetry(t) ==
  /\ pc[t] = "acq_cas"
  /\ LoadHead(t, AcquireFrom)
  /\ UNCHANGED <<head, next, made, held, nxt, td, wiping, stack>>

AcquireGot(t) ==
  /\ pc[t] = "acq_got"
  /\ next' = [next EXCEPT ![ptr[t].ptr] = NULL]
  /\ held' = [held EXCEPT ![t] = @ \cup {ptr[t].ptr}]
  /\ Return(t)
  /\ UNCHANGED <<head, made, wiping, stack>>

AcquireNew(t) ==
  /\ pc[t] = "acq_new"
  /\ \E n \in Tds \ made :
        /\ made' = made \cup {n}
        /\ held' = [held EXCEPT ![t] = @ \cup {n}]
  /\ Return(t)
  /\ UNCHANGED <<head, next, wiping, stack>>

-----------------------------------------------------------------------------
(* thr_syn_release_td *)

ReleaseLoad(t) ==
  /\ pc[t] = "idle"
  /\ \E n \in held[t] :
        /\ td' = [td EXCEPT ![t] = n]
        /\ held' = [held EXCEPT ![t] = @ \ {n}]
  /\ LoadHead(t, "rel_link")
  /\ UNCHANGED <<head, next, made, nxt, wiping, stack>>

ReleaseLink(t) ==
  /\ pc[t] = "rel_link"
  /\ next' = [next EXCEPT ![td[t]] = ptr[t].ptr]
  /\ Goto(t, "rel_cas")
  /\ UNCHANGED <<head, made, held, locals, wiping, stack>>

ReleaseCas(t) ==
  /\ pc[t] = "rel_cas"
  /\ head = ptr[t]
  /\ SetHead(td[t], ptr[t])
  /\ stack' = Append(stack, td[t])
  /\ Return(t)
  /\ UNCHANGED <<next, made, held, wiping>>

ReleaseRetry(t) ==
  /\ pc[t] = "rel_cas"
  /\ LoadHead(t, "rel_link")
  /\ UNCHANGED <<head, next, made, held, nxt, td, wiping, stack>>

-----------------------------------------------------------------------------
(* thr_syn_wipe *)

JobsDone == \A t \in Threads : pc[t] = "idle" /\ held[t] = {}

WipeLoad ==
  /\ wipe = "no"
  /\ wipe' = "wait"
  /\ wptr' = head.ptr
  /\ calm' = JobsDone
  /\ UNCHANGED <<head, next, made, held, pc, locals, freed, stack>>

\* The jobs are gone, with their references (ThrSyn).
WipeReleased ==
  /\ wipe = "wait"
  /\ JobsDone
  /\ wipe' = "free"
  /\ UNCHANGED <<head, next, made, held, pc, locals, wptr, calm, freed, stack>>

WipeFree ==
  /\ wipe = "free"
  /\ wptr # NULL
  /\ freed' = [freed EXCEPT ![wptr] = @ + 1]
  /\ wptr' = next[wptr]
  /\ UNCHANGED <<head, next, made, held, pc, locals, wipe, calm, stack>>

WipeEnd ==
  /\ wipe = "free"
  /\ wptr = NULL
  /\ wipe' = "done"
  /\ UNCHANGED <<head, next, made, held, pc, locals, wptr, calm, freed, stack>>

thr_syn_wipe == WipeLoad \/ WipeReleased \/ WipeFree \/ WipeEnd

-----------------------------------------------------------------------------
thr_syn_acquire_td(t) ==
  \/ AcquireLoad(t) \/ AcquireNext(t) \/ AcquireCas(t)
  \/ AcquireRetry(t) \/ AcquireGot(t) \/ AcquireNew(t)

thr_syn_release_td(t) ==
  ReleaseLoad(t) \/ ReleaseLink(t) \/ ReleaseCas(t) \/ ReleaseRetry(t)

Next ==
  \/ \E t \in Threads : thr_syn_acquire_td(t) \/ thr_syn_release_td(t)
  \/ thr_syn_wipe

Spec == Init /\ [][Next]_vars

-----------------------------------------------------------------------------
(* Properties *)

\* What a thread owns, the ones it is about to get or to give back included.
Owned(t) ==
  held[t] \cup (IF pc[t] = "acq_got" THEN {ptr[t].ptr} ELSE {})
          \cup (IF pc[t] \in {"rel_link", "rel_cas"} THEN {td[t]} ELSE {})

Stacked == {stack[i] : i \in DOMAIN stack}

\* A thread data is local to one thread at a time, and the one that a thread
\* owns is not on the stack.
OneOwner ==
  /\ \A t, u \in Threads : t # u => Owned(t) \cap Owned(u) = {}
  /\ \A t \in Threads : Owned(t) \cap Stacked = {}

\* The links lead from the head through the stack, down to its bottom.
Linked ==
  /\ head.ptr = IF stack = <<>> THEN NULL ELSE stack[Len(stack)]
  /\ \A i \in 1..Len(stack) :
        next[stack[i]] = IF i = 1 THEN NULL ELSE stack[i - 1]

\* The stack has every thread data that nobody owns, once, and the links lead
\* through it: what thr_syn_collect_td merges after the wait is complete.
StackComplete ==
  /\ Linked
  /\ \A i, j \in DOMAIN stack : stack[i] = stack[j] => i = j
  /\ Stacked = made \ UNION {Owned(t) : t \in Threads}

\* thr_syn_wipe frees no thread data twice nor while a job owns it, and when it
\* begins after the last job it frees all of them.
WipeFrees ==
  /\ \A n \in Tds : freed[n] <= 1
  /\ \A n \in Tds : freed[n] > 0 => \A t \in Threads : n \notin Owned(t)
  /\ wipe = "done" /\ calm => \A n \in made : freed[n] = 1

\* The thread data of a syn are all accounted for: each has one owner or is on the
\* stack, once, and the wipe frees none that is owned, nor twice.
TdsAccounted == OneOwner /\ StackComplete /\ WipeFrees
=============================================================================
