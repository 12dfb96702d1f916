--------------------------- MODULE ThrQueueProofs ---------------------------
(* Proofs about ThrQueue, for any set of threads and any number of jobs. *)
EXTENDS ThrQueue, SequenceTheorems, TLAPS

(***************************************************************************)
(* The inductive invariant.  A queue that is not empty has one token: the  *)
(* push that found it empty, q->run in a deque, or a drain.                *)
(***************************************************************************)

Pushing(t) == qpc[t] \in {"link", "sync_link"}

\* Thread t has the token as the pusher that found the queue empty.
PushTok(t) == Pushing(t) /\ prev[t] = 0

\* The first node is linked, and nobody drains the queue yet.
ReadyPc == {"empty", "own", "start"}
BusyPc == {"job_fast", "job", "end_load", "end_cas", "end_spin"}
DrainPc == ReadyPc \cup {"fast"} \cup BusyPc
DrainTok(t) == dpc[t] \in DrainPc

\* At most one token, none when the queue is empty.
TokenInv ==
  /\ runs \in {0, 1}
  /\ \A t, u \in Threads :
        /\ PushTok(t) /\ PushTok(u) => t = u
        /\ qpc[t] = "schedule" /\ qpc[u] = "schedule" => t = u
        /\ DrainTok(t) /\ DrainTok(u) => t = u
        /\ ~(PushTok(t) /\ qpc[u] = "schedule")
        /\ ~(PushTok(t) /\ DrainTok(u))
        /\ ~(qpc[t] = "schedule" /\ DrainTok(u))
  /\ \A t \in Threads : runs = 1 \/ tail = 0 =>
        ~PushTok(t) /\ qpc[t] # "schedule" /\ ~DrainTok(t)
  /\ tail = 0 => runs = 0

\* Which node is next, seen from whoever has the token.
ChainInv ==
  /\ nstart <= npush /\ next[0] <= npush
  /\ tail = 0 => nstart = npush /\ next[0] = 0
  /\ tail # 0 => tail = npush
  /\ runs = 1 => next[0] = nstart + 1 /\ nstart < npush
  /\ \A t \in Threads :
        /\ PushTok(t) => node[t] = nstart + 1 /\ next[0] = 0
        /\ qpc[t] = "schedule" \/ dpc[t] \in ReadyPc =>
              next[0] = nstart + 1 /\ nstart < npush
        /\ dpc[t] = "fast" => h[t] = nstart + 1 /\ next[0] = 0 /\ nstart < npush
        /\ dpc[t] \in BusyPc => h[t] = nstart /\ next[0] = 0 /\ nstart > 0
        /\ dpc[t] = "job_fast" => next[h[t]] # 0
        /\ dpc[t] = "end_spin" => h[t] < npush

\* A link that is missing is one a pusher is about to store, and the drain has
\* not gone past it.
LinkInv ==
  /\ \A n \in Nodes : n # 0 =>
        /\ next[n] \in {0, n + 1}
        /\ n >= npush => next[n] = 0
  /\ \A t \in Threads : Pushing(t) =>
        /\ node[t] # 0 /\ node[t] <= npush /\ next[0] # node[t]
        /\ prev[t] # 0 =>
             node[t] = prev[t] + 1 /\ next[prev[t]] = 0 /\ prev[t] >= nstart
  /\ \A t, u \in Threads :
        Pushing(t) /\ Pushing(u) /\ node[t] = node[u] => t = u
  /\ \A t, u \in Threads :
        Pushing(t) /\ dpc[u] = "fast" => node[t] # h[u]

\* running_on is the thread that drains, or one that has just stopped.
OwnerInv ==
  /\ \A t \in Threads : dpc[t] \in {"start", "fast"} \cup BusyPc =>
        running_on = t
  /\ \A t \in Threads : running_on = t =>
        dpc[t] \in {"start", "fast", "release"} \cup BusyPc
  /\ \A t \in Threads :
        /\ dpc[t] \notin {"idle", "job_fast", "job"} => qpc[t] = "idle"
        /\ dpc[t] # "idle" => qpc[t] \in {"idle", "link", "inline"}
        /\ qpc[t] = "inline" => dpc[t] \in {"job_fast", "job"}

\* Which jobs are over.
DoneInv ==
  /\ \A n \in done : n # 0 /\ n <= nstart
  /\ \A n \in Nodes : n # 0 /\ n < nstart => n \in done
  /\ nstart # 0 /\ nstart \notin done =>
        \E t \in Threads : dpc[t] \in {"job_fast", "job"}

\* q->destroy is the last job, and only its drain deletes the queue.
WipeInv ==
  /\ destroy # 0 => destroy = npush
  /\ \A t \in wipe : dpc[t] \in {"end_load", "end_cas", "end_spin"} =>
        destroy = h[t] /\ destroy # 0
  /\ \A t \in wipe : dpc[t] \notin ReadyPc \cup {"fast", "job_fast", "job"}
  /\ \A t \in Threads : dpc[t] = "delete" => t \in wipe
  /\ \A t \in wipe : dpc[t] \in {"release", "delete"} =>
        destroy # 0 /\ tail = 0
  /\ deleted => destroy # 0 /\ tail = 0

IInv ==
  /\ TypeOK /\ TokenInv /\ ChainInv /\ LinkInv /\ OwnerInv /\ DoneInv
  /\ WipeInv /\ AssertsHold

\* What Queue, QueueSync and QueueDestroy have in common.
PushCall(t, l) ==
  /\ MayQueue(t)
  /\ PushExchange(t, l)
  /\ l = "sync_link" => running_on # t
  /\ destroy' \in {destroy, npush + 1}
-----------------------------------------------------------------------------
\* Node numbers: 0 is one, and so is the next one while pushes are left.
LEMMA NodeFacts ==
  /\ 0 \in Nodes
  /\ \A n \in Nodes : n \in Nat /\ (n < MaxPush => n + 1 \in Nodes)
  BY PushAssumption DEF Nodes

\* The shapes the proofs below need of a well-typed state.
Shape ==
  /\ qpc \in [Threads -> QPc] /\ dpc \in [Threads -> DPc]
  /\ node \in [Threads -> Nodes] /\ prev \in [Threads -> Nodes]
  /\ h \in [Threads -> Nodes] /\ next \in [Nodes -> Nodes]
  /\ npush \in Nat /\ nstart \in Nat /\ npush \in Nodes
  /\ \A t \in Threads : node[t] \in Nat /\ prev[t] \in Nat /\ h[t] \in Nat

\* What the proofs of the actions need of the types.
LEMMA ShapeFacts == TypeOK => Shape
  BY NodeFacts DEF TypeOK, Shape

\* A missing link is being stored, ahead of the drain.
LEMMA LinkNext == IInv /\ [Next]_vars => LinkInv'
  <1> SUFFICES ASSUME IInv, [Next]_vars PROVE LinkInv'
    OBVIOUS
  <1>typ. TypeOK
    BY DEF IInv
  <1>tok. TokenInv
    BY DEF IInv
  <1>chn. ChainInv
    BY DEF IInv
  <1>lnk. LinkInv
    BY DEF IInv
  <1> USE DEF QGoto, DGoto, mpsc, qvars, dvars
  <1>1. ASSUME NEW t \in Threads, thr_syn_queue(t) PROVE LinkInv'
    <2>1. ASSUME NEW l \in {"link", "sync_link"}, PushCall(t, l)
          PROVE  LinkInv'
      <3>1. /\ Pushing(t)' /\ prev'[t] = tail /\ node'[t] = npush + 1
            /\ npush' = npush + 1 /\ next' = next /\ dpc' = dpc /\ h' = h
            /\ nstart' = nstart /\ dpc[t] # "fast" /\ ~Pushing(t)
        BY <2>1, <1>typ, ShapeFacts DEF PushCall, PushExchange, MayQueue,
           Pushing, Shape
      <3>2. \A u \in Threads : u # t =>
               (Pushing(u)' <=> Pushing(u)) /\ prev'[u] = prev[u] /\ node'[u] = node[u]
        BY <2>1, <1>typ, ShapeFacts DEF PushCall, PushExchange, Pushing, Shape
      <3>3. tail # 0 => tail = npush /\ next[npush] = 0 /\ npush >= nstart
        BY <1>typ, <1>chn, <1>lnk, ShapeFacts DEF ChainInv, LinkInv, Shape
      <3>4. next[0] # npush + 1 /\ \A u \in Threads : dpc[u] = "fast" => h[u] # npush + 1
        BY <1>typ, <1>chn, <1>lnk, ShapeFacts DEF ChainInv, LinkInv, Shape
      <3>5. \A n \in Nodes : n # 0 => /\ next'[n] \in {0, n + 1}
                                      /\ n >= npush' => next'[n] = 0
        BY <3>1, <1>typ, <1>lnk, ShapeFacts, NodeFacts DEF LinkInv, Shape
      <3>6. QED
        BY <3>1, <3>2, <3>3, <3>4, <3>5, <1>typ, <1>lnk, ShapeFacts DEF
           LinkInv, Shape
    <2>2. CASE Queue(t) \/ QueueSync(t) \/ QueueDestroy(t)
      BY <2>1, <2>2 DEF Queue, QueueSync, QueueDestroy, PushCall
    <2>3. CASE QueueSyncInline(t)
      BY <2>3, <1>typ, <1>lnk, ShapeFacts, NodeFacts DEF QueueSyncInline,
         MayQueue, Shape, LinkInv, Pushing
    <2>4. CASE PushLink(t)
      BY <2>4, <1>typ, <1>lnk, ShapeFacts, NodeFacts DEF PushLink, DrainCall,
         Shape, LinkInv, Pushing
    <2>5. CASE Schedule(t)
      BY <2>5, <1>typ, <1>lnk, ShapeFacts, NodeFacts DEF Schedule, Shape,
         LinkInv, Pushing
    <2>6. CASE SyncWait(t)
      BY <2>6, <1>typ, <1>lnk, ShapeFacts, NodeFacts DEF SyncWait, Shape,
         LinkInv, Pushing
    <2>7. CASE InlineDone(t)
      BY <2>7, <1>typ, <1>lnk, ShapeFacts, NodeFacts DEF InlineDone, Shape,
         LinkInv, Pushing
    <2>8. QED
      BY <1>1, <2>1, <2>2, <2>3, <2>4, <2>5, <2>6, <2>7 DEF thr_syn_queue
  <1>2. ASSUME NEW t \in Threads, Run(t) PROVE LinkInv'
    BY <1>2, <1>typ, <1>lnk, ShapeFacts, NodeFacts DEF Run, DrainCall, Shape,
       LinkInv, Pushing
  <1>3. ASSUME NEW t \in Threads, thr_queue_drain(t) PROVE LinkInv'
    <2>1. CASE DrainEmpty(t)
      BY <2>1, <1>typ, <1>lnk, ShapeFacts, NodeFacts DEF DrainEmpty, Shape,
         LinkInv, Pushing
    <2>2. CASE DrainOwn(t)
      BY <2>2, <1>typ, <1>lnk, ShapeFacts, NodeFacts DEF DrainOwn, Shape,
         LinkInv, Pushing
    <2>3. CASE DrainStart(t)
      BY <2>3, <1>typ, <1>lnk, ShapeFacts, NodeFacts, <1>chn DEF DrainStart,
         Shape, LinkInv, Pushing, ChainInv, ReadyPc
    <2>4. CASE DrainFast(t)
      BY <2>4, <1>typ, <1>lnk, ShapeFacts, NodeFacts, <1>chn DEF DrainFast,
         Shape, LinkInv, Pushing, ChainInv
    <2>5. CASE DrainJobFast(t)
      BY <2>5, <1>typ, <1>lnk, ShapeFacts, NodeFacts, <1>chn, <1>tok DEF
         DrainJobFast, Shape, LinkInv, Pushing, ChainInv, TokenInv, PushTok,
         DrainTok, DrainPc, BusyPc
    <2>6. CASE DrainJob(t)
      BY <2>6, <1>typ, <1>lnk, ShapeFacts, NodeFacts DEF DrainJob, Shape,
         LinkInv, Pushing
    <2>7. CASE DrainEndLoad(t)
      BY <2>7, <1>typ, <1>lnk, ShapeFacts, NodeFacts DEF DrainEndLoad, Shape,
         LinkInv, Pushing
    <2>8. CASE DrainEndCas(t)
      BY <2>8, <1>typ, <1>lnk, ShapeFacts, NodeFacts DEF DrainEndCas, Shape,
         LinkInv, Pushing
    <2>9. CASE DrainEndSpin(t)
      BY <2>9, <1>typ, <1>lnk, ShapeFacts, NodeFacts, <1>chn, <1>tok DEF
         DrainEndSpin, Shape, LinkInv, Pushing, ChainInv, TokenInv, PushTok,
         DrainTok, DrainPc, BusyPc
    <2>10. CASE DrainRelease(t)
      BY <2>10, <1>typ, <1>lnk, ShapeFacts, NodeFacts DEF DrainRelease, Shape,
         LinkInv, Pushing
    <2>11. CASE DrainDelete(t)
      BY <2>11, <1>typ, <1>lnk, ShapeFacts, NodeFacts DEF DrainDelete, Shape,
         LinkInv, Pushing
    <2>12. QED
      BY <1>3, <2>1, <2>2, <2>3, <2>4, <2>5, <2>6, <2>7, <2>8, <2>9, <2>10,
         <2>11 DEF thr_queue_drain
  <1>4. CASE UNCHANGED vars
    BY <1>4, <1>typ, <1>lnk, ShapeFacts, NodeFacts DEF vars, Shape, LinkInv,
       Pushing
  <1>5. QED
    BY <1>1, <1>2, <1>3, <1>4 DEF Next

\* The types are kept.
LEMMA TypeNext == IInv /\ [Next]_vars => TypeOK'
  <1> SUFFICES ASSUME IInv, [Next]_vars PROVE TypeOK'
    OBVIOUS
  <1>typ. TypeOK
    BY DEF IInv
  <1> USE DEF QGoto, DGoto, mpsc, qvars, dvars, TypeOK, QPc, DPc
  <1>1. ASSUME NEW t \in Threads, thr_syn_queue(t) PROVE TypeOK'
    <2>1. ASSUME NEW l \in {"link", "sync_link"}, PushCall(t, l)
          PROVE  TypeOK'
      BY <2>1, <1>typ, NodeFacts DEF PushCall, MayQueue, PushExchange
    <2>2. CASE Queue(t) \/ QueueSync(t) \/ QueueDestroy(t)
      BY <2>1, <2>2 DEF Queue, QueueSync, QueueDestroy, PushCall
    <2>3. CASE QueueSyncInline(t)
      BY <2>3, <1>typ, NodeFacts DEF QueueSyncInline, MayQueue
    <2>4. CASE PushLink(t)
      BY <2>4, <1>typ, NodeFacts DEF PushLink, DrainCall
    <2>5. CASE Schedule(t)
      BY <2>5, <1>typ, NodeFacts DEF Schedule
    <2>6. CASE SyncWait(t)
      BY <2>6, <1>typ, NodeFacts DEF SyncWait
    <2>7. CASE InlineDone(t)
      BY <2>7, <1>typ, NodeFacts DEF InlineDone
    <2>8. QED
      BY <1>1, <2>1, <2>2, <2>3, <2>4, <2>5, <2>6, <2>7 DEF thr_syn_queue
  <1>2. ASSUME NEW t \in Threads, Run(t) PROVE TypeOK'
    BY <1>2, <1>typ, NodeFacts DEF Run, DrainCall
  <1>3. ASSUME NEW t \in Threads, thr_queue_drain(t) PROVE TypeOK'
    <2>1. CASE DrainEmpty(t)
      BY <2>1, <1>typ, NodeFacts DEF DrainEmpty
    <2>2. CASE DrainOwn(t)
      BY <2>2, <1>typ, NodeFacts DEF DrainOwn
    <2>3. CASE DrainStart(t)
      BY <2>3, <1>typ, NodeFacts DEF DrainStart
    <2>4. CASE DrainFast(t)
      BY <2>4, <1>typ, NodeFacts DEF DrainFast
    <2>5. CASE DrainJobFast(t)
      BY <2>5, <1>typ, NodeFacts DEF DrainJobFast
    <2>6. CASE DrainJob(t)
      BY <2>6, <1>typ, NodeFacts DEF DrainJob
    <2>7. CASE DrainEndLoad(t)
      BY <2>7, <1>typ, NodeFacts DEF DrainEndLoad
    <2>8. CASE DrainEndCas(t)
      BY <2>8, <1>typ, NodeFacts DEF DrainEndCas
    <2>9. CASE DrainEndSpin(t)
      BY <2>9, <1>typ, NodeFacts DEF DrainEndSpin
    <2>10. CASE DrainRelease(t)
      BY <2>10, <1>typ, NodeFacts DEF DrainRelease
    <2>11. CASE DrainDelete(t)
      BY <2>11, <1>typ, NodeFacts DEF DrainDelete
    <2>12. QED
      BY <1>3, <2>1, <2>2, <2>3, <2>4, <2>5, <2>6, <2>7, <2>8, <2>9, <2>10,
         <2>11 DEF thr_queue_drain
  <1>4. CASE UNCHANGED vars
    BY <1>4, <1>typ, NodeFacts DEF vars
  <1>5. QED
    BY <1>1, <1>2, <1>3, <1>4 DEF Next

\* No assertion of the code fails.
LEMMA AssertNext == IInv /\ [Next]_vars => AssertsHold'
  <1> SUFFICES ASSUME IInv, [Next]_vars PROVE AssertsHold'
    OBVIOUS
  <1>typ. TypeOK
    BY DEF IInv
  <1>ass. AssertsHold
    BY DEF IInv
  <1>chn. ChainInv
    BY DEF IInv
  <1>own. OwnerInv
    BY DEF IInv
  <1>wip. WipeInv
    BY DEF IInv
  <1> USE DEF QGoto, DGoto, mpsc, qvars, dvars
  <1>1. ASSUME NEW t \in Threads, thr_syn_queue(t) PROVE AssertsHold'
    <2>1. ASSUME NEW l \in {"link", "sync_link"}, PushCall(t, l)
          PROVE  AssertsHold'
      BY <2>1, <1>typ, <1>ass, ShapeFacts DEF PushCall, MayQueue,
         PushExchange, Shape, AssertsHold
    <2>2. CASE Queue(t) \/ QueueSync(t) \/ QueueDestroy(t)
      BY <2>1, <2>2 DEF Queue, QueueSync, QueueDestroy, PushCall
    <2>3. CASE QueueSyncInline(t)
      BY <2>3, <1>typ, <1>ass, ShapeFacts DEF QueueSyncInline, MayQueue,
         Shape, AssertsHold
    <2>4. CASE PushLink(t)
      BY <2>4, <1>typ, <1>ass, ShapeFacts DEF PushLink, DrainCall, Shape,
         AssertsHold
    <2>5. CASE Schedule(t)
      BY <2>5, <1>typ, <1>ass, ShapeFacts DEF Schedule, Shape, AssertsHold
    <2>6. CASE SyncWait(t)
      BY <2>6, <1>typ, <1>ass, ShapeFacts DEF SyncWait, Shape, AssertsHold
    <2>7. CASE InlineDone(t)
      BY <2>7, <1>typ, <1>ass, ShapeFacts DEF InlineDone, Shape, AssertsHold
    <2>8. QED
      BY <1>1, <2>1, <2>2, <2>3, <2>4, <2>5, <2>6, <2>7 DEF thr_syn_queue
  <1>2. ASSUME NEW t \in Threads, Run(t) PROVE AssertsHold'
    BY <1>2, <1>typ, <1>ass, ShapeFacts DEF Run, DrainCall, Shape, AssertsHold
  <1>3. ASSUME NEW t \in Threads, thr_queue_drain(t) PROVE AssertsHold'
    <2>1. CASE DrainEmpty(t)
      BY <2>1, <1>typ, <1>ass, ShapeFacts, <1>chn DEF DrainEmpty, Shape,
         AssertsHold, ChainInv, ReadyPc
    <2>2. CASE DrainOwn(t)
      BY <2>2, <1>typ, <1>ass, ShapeFacts, <1>own DEF DrainOwn, Shape,
         AssertsHold, OwnerInv, BusyPc
    <2>3. CASE DrainStart(t)
      BY <2>3, <1>typ, <1>ass, ShapeFacts, <1>chn DEF DrainStart, Shape,
         AssertsHold, ChainInv, ReadyPc
    <2>4. CASE DrainFast(t)
      BY <2>4, <1>typ, <1>ass, ShapeFacts DEF DrainFast, Shape, AssertsHold
    <2>5. CASE DrainJobFast(t)
      BY <2>5, <1>typ, <1>ass, ShapeFacts DEF DrainJobFast, Shape, AssertsHold
    <2>6. CASE DrainJob(t)
      BY <2>6, <1>typ, <1>ass, ShapeFacts DEF DrainJob, Shape, AssertsHold
    <2>7. CASE DrainEndLoad(t)
      BY <2>7, <1>typ, <1>ass, ShapeFacts DEF DrainEndLoad, Shape, AssertsHold
    <2>8. CASE DrainEndCas(t)
      BY <2>8, <1>typ, <1>ass, ShapeFacts DEF DrainEndCas, Shape, AssertsHold
    <2>9. CASE DrainEndSpin(t)
      BY <2>9, <1>typ, <1>ass, ShapeFacts DEF DrainEndSpin, Shape, AssertsHold
    <2>10. CASE DrainRelease(t)
      BY <2>10, <1>typ, <1>ass, ShapeFacts DEF DrainRelease, Shape,
         AssertsHold
    <2>11. CASE DrainDelete(t)
      BY <2>11, <1>typ, <1>ass, ShapeFacts, <1>chn, <1>wip DEF DrainDelete,
         Shape, AssertsHold, ChainInv, WipeInv
    <2>12. QED
      BY <1>3, <2>1, <2>2, <2>3, <2>4, <2>5, <2>6, <2>7, <2>8, <2>9, <2>10,
         <2>11 DEF thr_queue_drain
  <1>4. CASE UNCHANGED vars
    BY <1>4, <1>typ, <1>ass, ShapeFacts DEF vars, Shape, AssertsHold
  <1>5. QED
    BY <1>1, <1>2, <1>3, <1>4 DEF Next

\* running_on follows the drain.
LEMMA OwnerNext == IInv /\ [Next]_vars => OwnerInv'
  <1> SUFFICES ASSUME IInv, [Next]_vars PROVE OwnerInv'
    OBVIOUS
  <1>typ. TypeOK
    BY DEF IInv
  <1>tok. TokenInv
    BY DEF IInv
  <1>chn. ChainInv
    BY DEF IInv
  <1>own. OwnerInv
    BY DEF IInv
  <1> USE DEF QGoto, DGoto, mpsc, qvars, dvars
  <1>1. ASSUME NEW t \in Threads, thr_syn_queue(t) PROVE OwnerInv'
    <2>1. ASSUME NEW l \in {"link", "sync_link"}, PushCall(t, l)
          PROVE  OwnerInv'
      BY <2>1, <1>typ, <1>own, ShapeFacts, IdAssumption DEF PushCall,
         MayQueue, PushExchange, Shape, OwnerInv, BusyPc
    <2>2. CASE Queue(t) \/ QueueSync(t) \/ QueueDestroy(t)
      BY <2>1, <2>2 DEF Queue, QueueSync, QueueDestroy, PushCall
    <2>3. CASE QueueSyncInline(t)
      BY <2>3, <1>typ, <1>own, ShapeFacts, IdAssumption DEF QueueSyncInline,
         MayQueue, Shape, OwnerInv, BusyPc
    <2>4. CASE PushLink(t)
      BY <2>4, <1>typ, <1>own, ShapeFacts, IdAssumption, <1>tok DEF PushLink,
         DrainCall, Shape, OwnerInv, BusyPc, TokenInv, PushTok, Pushing,
         DrainTok, DrainPc, ReadyPc
    <2>5. CASE Schedule(t)
      BY <2>5, <1>typ, <1>own, ShapeFacts, IdAssumption DEF Schedule, Shape,
         OwnerInv, BusyPc
    <2>6. CASE SyncWait(t)
      BY <2>6, <1>typ, <1>own, ShapeFacts, IdAssumption DEF SyncWait, Shape,
         OwnerInv, BusyPc
    <2>7. CASE InlineDone(t)
      BY <2>7, <1>typ, <1>own, ShapeFacts, IdAssumption DEF InlineDone, Shape,
         OwnerInv, BusyPc
    <2>8. QED
      BY <1>1, <2>1, <2>2, <2>3, <2>4, <2>5, <2>6, <2>7 DEF thr_syn_queue
  <1>2. ASSUME NEW t \in Threads, Run(t) PROVE OwnerInv'
    BY <1>2, <1>typ, <1>own, ShapeFacts, IdAssumption DEF Run, DrainCall,
       Shape, OwnerInv, BusyPc
  <1>3. ASSUME NEW t \in Threads, thr_queue_drain(t) PROVE OwnerInv'
    <2>1. CASE DrainEmpty(t)
      BY <2>1, <1>typ, <1>own, ShapeFacts, IdAssumption DEF DrainEmpty, Shape,
         OwnerInv, BusyPc
    <2>2. CASE DrainOwn(t)
      BY <2>2, <1>typ, <1>own, ShapeFacts, IdAssumption, <1>tok, AssertNext
         DEF DrainOwn, Shape, OwnerInv, BusyPc, AssertsHold, TokenInv,
         DrainTok, DrainPc, ReadyPc
    <2>3. CASE DrainStart(t)
      BY <2>3, <1>typ, <1>own, ShapeFacts, IdAssumption, AssertNext DEF
         DrainStart, Shape, OwnerInv, BusyPc, AssertsHold
    <2>4. CASE DrainFast(t)
      BY <2>4, <1>typ, <1>own, ShapeFacts, IdAssumption DEF DrainFast, Shape,
         OwnerInv, BusyPc
    <2>5. CASE DrainJobFast(t)
      BY <2>5, <1>typ, <1>own, ShapeFacts, IdAssumption DEF DrainJobFast,
         Shape, OwnerInv, BusyPc
    <2>6. CASE DrainJob(t)
      BY <2>6, <1>typ, <1>own, ShapeFacts, IdAssumption DEF DrainJob, Shape,
         OwnerInv, BusyPc
    <2>7. CASE DrainEndLoad(t)
      BY <2>7, <1>typ, <1>own, ShapeFacts, IdAssumption DEF DrainEndLoad,
         Shape, OwnerInv, BusyPc
    <2>8. CASE DrainEndCas(t)
      BY <2>8, <1>typ, <1>own, ShapeFacts, IdAssumption DEF DrainEndCas,
         Shape, OwnerInv, BusyPc
    <2>9. CASE DrainEndSpin(t)
      BY <2>9, <1>typ, <1>own, ShapeFacts, IdAssumption DEF DrainEndSpin,
         Shape, OwnerInv, BusyPc
    <2>10. CASE DrainRelease(t)
      BY <2>10, <1>typ, <1>own, ShapeFacts, IdAssumption DEF DrainRelease,
         Shape, OwnerInv, BusyPc
    <2>11. CASE DrainDelete(t)
      BY <2>11, <1>typ, <1>own, ShapeFacts, IdAssumption DEF DrainDelete,
         Shape, OwnerInv, BusyPc
    <2>12. QED
      BY <1>3, <2>1, <2>2, <2>3, <2>4, <2>5, <2>6, <2>7, <2>8, <2>9, <2>10,
         <2>11 DEF thr_queue_drain
  <1>4. CASE UNCHANGED vars
    BY <1>4, <1>typ, <1>own, ShapeFacts, IdAssumption DEF vars, Shape,
       OwnerInv, BusyPc
  <1>5. QED
    BY <1>1, <1>2, <1>3, <1>4 DEF Next

\* The token is never duplicated.
LEMMA TokenNext == IInv /\ [Next]_vars => TokenInv'
  <1> SUFFICES ASSUME IInv, [Next]_vars PROVE TokenInv'
    OBVIOUS
  <1>typ. TypeOK
    BY DEF IInv
  <1>tok. TokenInv
    BY DEF IInv
  <1>chn. ChainInv
    BY DEF IInv
  <1>lnk. LinkInv
    BY DEF IInv
  <1>own. OwnerInv
    BY DEF IInv
  <1> USE DEF QGoto, DGoto, mpsc, qvars, dvars, Pushing, PushTok, DrainTok
  <1>1. ASSUME NEW t \in Threads, thr_syn_queue(t) PROVE TokenInv'
    <2>1. ASSUME NEW l \in {"link", "sync_link"}, PushCall(t, l)
          PROVE  TokenInv'
      BY <2>1, <1>typ, <1>tok, <1>own, ShapeFacts DEF PushCall, MayQueue,
         PushExchange, Shape, TokenInv, OwnerInv, ReadyPc, BusyPc, DrainPc
    <2>2. CASE Queue(t) \/ QueueSync(t) \/ QueueDestroy(t)
      BY <2>1, <2>2 DEF Queue, QueueSync, QueueDestroy, PushCall
    <2>3. CASE QueueSyncInline(t)
      BY <2>3, <1>typ, <1>tok, <1>own, ShapeFacts DEF QueueSyncInline,
         MayQueue, Shape, TokenInv, OwnerInv, ReadyPc, BusyPc, DrainPc
    <2>4. CASE PushLink(t)
      BY <2>4, <1>typ, <1>tok, <1>own, ShapeFacts DEF PushLink, DrainCall,
         Shape, TokenInv, OwnerInv, ReadyPc, BusyPc, DrainPc
    <2>5. CASE Schedule(t)
      BY <2>5, <1>typ, <1>tok, <1>own, ShapeFacts DEF Schedule, Shape,
         TokenInv, OwnerInv, ReadyPc, BusyPc, DrainPc
    <2>6. CASE SyncWait(t)
      BY <2>6, <1>typ, <1>tok, <1>own, ShapeFacts DEF SyncWait, Shape,
         TokenInv, OwnerInv, ReadyPc, BusyPc, DrainPc
    <2>7. CASE InlineDone(t)
      BY <2>7, <1>typ, <1>tok, <1>own, ShapeFacts DEF InlineDone, Shape,
         TokenInv, OwnerInv, ReadyPc, BusyPc, DrainPc
    <2>8. QED
      BY <1>1, <2>1, <2>2, <2>3, <2>4, <2>5, <2>6, <2>7 DEF thr_syn_queue
  <1>2. ASSUME NEW t \in Threads, Run(t) PROVE TokenInv'
    BY <1>2, <1>typ, <1>tok, <1>own, ShapeFacts DEF Run, DrainCall, Shape,
       TokenInv, OwnerInv, ReadyPc, BusyPc, DrainPc
  <1>3. ASSUME NEW t \in Threads, thr_queue_drain(t) PROVE TokenInv'
    <2>1. CASE DrainEmpty(t)
      BY <2>1, <1>typ, <1>tok, <1>own, ShapeFacts DEF DrainEmpty, Shape,
         TokenInv, OwnerInv, ReadyPc, BusyPc, DrainPc
    <2>2. CASE DrainOwn(t)
      BY <2>2, <1>typ, <1>tok, <1>own, ShapeFacts DEF DrainOwn, Shape,
         TokenInv, OwnerInv, ReadyPc, BusyPc, DrainPc
    <2>3. CASE DrainStart(t)
      BY <2>3, <1>typ, <1>tok, <1>own, ShapeFacts DEF DrainStart, Shape,
         TokenInv, OwnerInv, ReadyPc, BusyPc, DrainPc
    <2>4. CASE DrainFast(t)
      BY <2>4, <1>typ, <1>tok, <1>own, ShapeFacts DEF DrainFast, Shape,
         TokenInv, OwnerInv, ReadyPc, BusyPc, DrainPc
    <2>5. CASE DrainJobFast(t)
      BY <2>5, <1>typ, <1>tok, <1>own, ShapeFacts DEF DrainJobFast, Shape,
         TokenInv, OwnerInv, ReadyPc, BusyPc, DrainPc
    <2>6. CASE DrainJob(t)
      BY <2>6, <1>typ, <1>tok, <1>own, ShapeFacts DEF DrainJob, Shape,
         TokenInv, OwnerInv, ReadyPc, BusyPc, DrainPc
    <2>7. CASE DrainEndLoad(t)
      BY <2>7, <1>typ, <1>tok, <1>own, ShapeFacts DEF DrainEndLoad, Shape,
         TokenInv, OwnerInv, ReadyPc, BusyPc, DrainPc
    <2>8. CASE DrainEndCas(t)
      BY <2>8, <1>typ, <1>tok, <1>own, ShapeFacts DEF DrainEndCas, Shape,
         TokenInv, OwnerInv, ReadyPc, BusyPc, DrainPc
    <2>9. CASE DrainEndSpin(t)
      BY <2>9, <1>typ, <1>tok, <1>own, ShapeFacts DEF DrainEndSpin, Shape,
         TokenInv, OwnerInv, ReadyPc, BusyPc, DrainPc
    <2>10. CASE DrainRelease(t)
      BY <2>10, <1>typ, <1>tok, <1>own, ShapeFacts DEF DrainRelease, Shape,
         TokenInv, OwnerInv, ReadyPc, BusyPc, DrainPc
    <2>11. CASE DrainDelete(t)
      BY <2>11, <1>typ, <1>tok, <1>own, ShapeFacts DEF DrainDelete, Shape,
         TokenInv, OwnerInv, ReadyPc, BusyPc, DrainPc
    <2>12. QED
      BY <1>3, <2>1, <2>2, <2>3, <2>4, <2>5, <2>6, <2>7, <2>8, <2>9, <2>10,
         <2>11 DEF thr_queue_drain
  <1>4. CASE UNCHANGED vars
    BY <1>4, <1>typ, <1>tok, <1>own, ShapeFacts DEF vars, Shape, TokenInv,
       OwnerInv, ReadyPc, BusyPc, DrainPc
  <1>5. QED
    BY <1>1, <1>2, <1>3, <1>4 DEF Next

\* Whoever has the token knows the next node.
LEMMA ChainNext == IInv /\ [Next]_vars => ChainInv'
  <1> SUFFICES ASSUME IInv, [Next]_vars PROVE ChainInv'
    OBVIOUS
  <1>typ. TypeOK
    BY DEF IInv
  <1>tok. TokenInv
    BY DEF IInv
  <1>chn. ChainInv
    BY DEF IInv
  <1>lnk. LinkInv
    BY DEF IInv
  <1> USE DEF QGoto, DGoto, mpsc, qvars, dvars
  <1>1. ASSUME NEW t \in Threads, thr_syn_queue(t) PROVE ChainInv'
    <2>1. ASSUME NEW l \in {"link", "sync_link"}, PushCall(t, l)
          PROVE  ChainInv'
      <3>1. /\ Pushing(t)' /\ prev'[t] = tail /\ node'[t] = npush + 1
            /\ npush' = npush + 1 /\ tail' = npush + 1 /\ nstart' = nstart
            /\ qpc'[t] # "schedule" /\ UNCHANGED <<next, runs, dpc, h>>
        BY <2>1, <1>typ, ShapeFacts DEF PushCall, PushExchange, Pushing, Shape
      <3>2. \A u \in Threads : u # t =>
               (PushTok(u)' <=> PushTok(u)) /\ node'[u] = node[u] /\ qpc'[u] = qpc[u]
        BY <2>1, <1>typ, ShapeFacts DEF PushCall, PushExchange, Pushing,
           PushTok, Shape
      <3>3. PushTok(t)' => tail = 0
        BY <3>1 DEF PushTok
      <3>4. next[0] \in Nat
        BY <1>typ, ShapeFacts, NodeFacts DEF Shape
      <3>5. QED
        BY <3>1, <3>2, <3>3, <3>4, <1>typ, <1>chn, ShapeFacts DEF ChainInv,
           Shape
    <2>2. CASE Queue(t) \/ QueueSync(t) \/ QueueDestroy(t)
      BY <2>1, <2>2 DEF Queue, QueueSync, QueueDestroy, PushCall
    <2>3. CASE QueueSyncInline(t)
      BY <2>3, <1>typ, <1>chn, ShapeFacts, NodeFacts DEF QueueSyncInline,
         MayQueue, Shape, ChainInv, Pushing, PushTok, DrainTok, ReadyPc,
         BusyPc, DrainPc
    <2>4. CASE PushLink(t)
      BY <2>4, <1>typ, <1>chn, ShapeFacts, NodeFacts, <1>tok, <1>lnk DEF
         PushLink, DrainCall, Shape, ChainInv, Pushing, PushTok, DrainTok,
         ReadyPc, BusyPc, DrainPc, TokenInv, LinkInv
    <2>5. CASE Schedule(t)
      BY <2>5, <1>typ, <1>chn, ShapeFacts, NodeFacts, <1>tok DEF Schedule,
         Shape, ChainInv, Pushing, PushTok, DrainTok, ReadyPc, BusyPc,
         DrainPc, TokenInv
    <2>6. CASE SyncWait(t)
      BY <2>6, <1>typ, <1>chn, ShapeFacts, NodeFacts DEF SyncWait, Shape,
         ChainInv, Pushing, PushTok, DrainTok, ReadyPc, BusyPc, DrainPc
    <2>7. CASE InlineDone(t)
      BY <2>7, <1>typ, <1>chn, ShapeFacts, NodeFacts DEF InlineDone, Shape,
         ChainInv, Pushing, PushTok, DrainTok, ReadyPc, BusyPc, DrainPc
    <2>8. QED
      BY <1>1, <2>1, <2>2, <2>3, <2>4, <2>5, <2>6, <2>7 DEF thr_syn_queue
  <1>2. ASSUME NEW t \in Threads, Run(t) PROVE ChainInv'
    BY <1>2, <1>typ, <1>chn, ShapeFacts, NodeFacts, <1>tok DEF Run, DrainCall,
       Shape, ChainInv, Pushing, PushTok, DrainTok, ReadyPc, BusyPc, DrainPc,
       TokenInv
  <1>3. ASSUME NEW t \in Threads, thr_queue_drain(t) PROVE ChainInv'
    <2>1. CASE DrainEmpty(t)
      BY <2>1, <1>typ, <1>chn, ShapeFacts, NodeFacts, <1>tok DEF DrainEmpty,
         Shape, ChainInv, Pushing, PushTok, DrainTok, ReadyPc, BusyPc,
         DrainPc, TokenInv
    <2>2. CASE DrainOwn(t)
      BY <2>2, <1>typ, <1>chn, ShapeFacts, NodeFacts, <1>tok DEF DrainOwn,
         Shape, ChainInv, Pushing, PushTok, DrainTok, ReadyPc, BusyPc,
         DrainPc, TokenInv
    <2>3. CASE DrainStart(t)
      BY <2>3, <1>typ, <1>chn, ShapeFacts, NodeFacts, <1>tok DEF DrainStart,
         Shape, ChainInv, Pushing, PushTok, DrainTok, ReadyPc, BusyPc,
         DrainPc, TokenInv
    <2>4. CASE DrainFast(t)
      BY <2>4, <1>typ, <1>chn, ShapeFacts, NodeFacts, <1>tok DEF DrainFast,
         Shape, ChainInv, Pushing, PushTok, DrainTok, ReadyPc, BusyPc,
         DrainPc, TokenInv
    <2>5. CASE DrainJobFast(t)
      BY <2>5, <1>typ, <1>chn, ShapeFacts, NodeFacts, <1>tok, <1>lnk DEF
         DrainJobFast, Shape, ChainInv, Pushing, PushTok, DrainTok, ReadyPc,
         BusyPc, DrainPc, TokenInv, LinkInv
    <2>6. CASE DrainJob(t)
      BY <2>6, <1>typ, <1>chn, ShapeFacts, NodeFacts, <1>tok DEF DrainJob,
         Shape, ChainInv, Pushing, PushTok, DrainTok, ReadyPc, BusyPc,
         DrainPc, TokenInv
    <2>7. CASE DrainEndLoad(t)
      BY <2>7, <1>typ, <1>chn, ShapeFacts, NodeFacts, <1>tok DEF DrainEndLoad,
         Shape, ChainInv, Pushing, PushTok, DrainTok, ReadyPc, BusyPc,
         DrainPc, TokenInv
    <2>8. CASE DrainEndCas(t)
      BY <2>8, <1>typ, <1>chn, ShapeFacts, NodeFacts, <1>tok DEF DrainEndCas,
         Shape, ChainInv, Pushing, PushTok, DrainTok, ReadyPc, BusyPc,
         DrainPc, TokenInv
    <2>9. CASE DrainEndSpin(t)
      BY <2>9, <1>typ, <1>chn, ShapeFacts, NodeFacts, <1>tok, <1>lnk DEF
         DrainEndSpin, Shape, ChainInv, Pushing, PushTok, DrainTok, ReadyPc,
         BusyPc, DrainPc, TokenInv, LinkInv
    <2>10. CASE DrainRelease(t)
      BY <2>10, <1>typ, <1>chn, ShapeFacts, NodeFacts, <1>tok DEF
         DrainRelease, Shape, ChainInv, Pushing, PushTok, DrainTok, ReadyPc,
         BusyPc, DrainPc, TokenInv
    <2>11. CASE DrainDelete(t)
      BY <2>11, <1>typ, <1>chn, ShapeFacts, NodeFacts DEF DrainDelete, Shape,
         ChainInv, Pushing, PushTok, DrainTok, ReadyPc, BusyPc, DrainPc
    <2>12. QED
      BY <1>3, <2>1, <2>2, <2>3, <2>4, <2>5, <2>6, <2>7, <2>8, <2>9, <2>10,
         <2>11 DEF thr_queue_drain
  <1>4. CASE UNCHANGED vars
    BY <1>4, <1>typ, <1>chn, ShapeFacts, NodeFacts DEF vars, Shape, ChainInv,
       Pushing, PushTok, DrainTok, ReadyPc, BusyPc, DrainPc
  <1>5. QED
    BY <1>1, <1>2, <1>3, <1>4 DEF Next

\* The jobs are over in order.
LEMMA DoneNext == IInv /\ [Next]_vars => DoneInv'
  <1> SUFFICES ASSUME IInv, [Next]_vars PROVE DoneInv'
    OBVIOUS
  <1>typ. TypeOK
    BY DEF IInv
  <1>tok. TokenInv
    BY DEF IInv
  <1>chn. ChainInv
    BY DEF IInv
  <1>own. OwnerInv
    BY DEF IInv
  <1>don. DoneInv
    BY DEF IInv
  <1> USE DEF QGoto, DGoto, mpsc, qvars, dvars
  <1>1. ASSUME NEW t \in Threads, thr_syn_queue(t) PROVE DoneInv'
    <2>1. ASSUME NEW l \in {"link", "sync_link"}, PushCall(t, l)
          PROVE  DoneInv'
      BY <2>1, <1>typ, <1>don, ShapeFacts DEF PushCall, MayQueue,
         PushExchange, Shape, DoneInv
    <2>2. CASE Queue(t) \/ QueueSync(t) \/ QueueDestroy(t)
      BY <2>1, <2>2 DEF Queue, QueueSync, QueueDestroy, PushCall
    <2>3. CASE QueueSyncInline(t)
      BY <2>3, <1>typ, <1>don, ShapeFacts DEF QueueSyncInline, MayQueue,
         Shape, DoneInv
    <2>4. CASE PushLink(t)
      BY <2>4, <1>typ, <1>don, ShapeFacts, <1>own DEF PushLink, DrainCall,
         Shape, DoneInv, OwnerInv
    <2>5. CASE Schedule(t)
      BY <2>5, <1>typ, <1>don, ShapeFacts DEF Schedule, Shape, DoneInv
    <2>6. CASE SyncWait(t)
      BY <2>6, <1>typ, <1>don, ShapeFacts DEF SyncWait, Shape, DoneInv
    <2>7. CASE InlineDone(t)
      BY <2>7, <1>typ, <1>don, ShapeFacts DEF InlineDone, Shape, DoneInv
    <2>8. QED
      BY <1>1, <2>1, <2>2, <2>3, <2>4, <2>5, <2>6, <2>7 DEF thr_syn_queue
  <1>2. ASSUME NEW t \in Threads, Run(t) PROVE DoneInv'
    BY <1>2, <1>typ, <1>don, ShapeFacts DEF Run, DrainCall, Shape, DoneInv
  <1>3. ASSUME NEW t \in Threads, thr_queue_drain(t) PROVE DoneInv'
    <2>1. CASE DrainEmpty(t)
      BY <2>1, <1>typ, <1>don, ShapeFacts DEF DrainEmpty, Shape, DoneInv
    <2>2. CASE DrainOwn(t)
      BY <2>2, <1>typ, <1>don, ShapeFacts DEF DrainOwn, Shape, DoneInv
    <2>3. CASE DrainStart(t)
      BY <2>3, <1>typ, <1>don, ShapeFacts DEF DrainStart, Shape, DoneInv
    <2>4. CASE DrainFast(t)
      <3>1. nstart = 0 \/ nstart \in done
        BY <2>4, <1>tok, <1>don DEF DrainFast, TokenInv, DoneInv, DrainTok,
           DrainPc, BusyPc
      <3>2. /\ nstart' = nstart + 1 /\ done' = done
            /\ dpc'[t] \in {"job_fast", "job"}
        BY <2>4, <1>typ, ShapeFacts DEF DrainFast, Shape
      <3>3. \A n \in done : n \in Nat
        BY <1>typ, NodeFacts DEF TypeOK
      <3>4. \A n \in Nodes : n # 0 /\ n < nstart + 1 => n \in done
        <4>1. SUFFICES ASSUME NEW n \in Nodes, n # 0, n < nstart + 1
                       PROVE  n \in done
          OBVIOUS
        <4>2. n \in Nat /\ nstart \in Nat
          BY <1>typ, ShapeFacts, NodeFacts DEF Shape
        <4>3. n < nstart \/ n = nstart
          BY <4>1, <4>2
        <4>4. QED
          BY <3>1, <4>1, <4>3, <1>don DEF DoneInv
      <3>5. QED
        BY <3>2, <3>3, <3>4, <1>typ, <1>don, ShapeFacts DEF DoneInv, Shape
    <2>5. CASE DrainJobFast(t)
      BY <2>5, <1>typ, <1>don, ShapeFacts, <1>tok, <1>chn, NodeFacts DEF
         DrainJobFast, Shape, DoneInv, TypeOK, TokenInv, ChainInv, Pushing,
         PushTok, DrainTok, ReadyPc, BusyPc, DrainPc
    <2>6. CASE DrainJob(t)
      BY <2>6, <1>typ, <1>don, ShapeFacts, <1>tok, <1>chn, NodeFacts DEF
         DrainJob, Shape, DoneInv, TypeOK, TokenInv, ChainInv, Pushing,
         PushTok, DrainTok, ReadyPc, BusyPc, DrainPc
    <2>7. CASE DrainEndLoad(t)
      BY <2>7, <1>typ, <1>don, ShapeFacts DEF DrainEndLoad, Shape, DoneInv
    <2>8. CASE DrainEndCas(t)
      BY <2>8, <1>typ, <1>don, ShapeFacts DEF DrainEndCas, Shape, DoneInv
    <2>9. CASE DrainEndSpin(t)
      BY <2>9, <1>typ, <1>don, ShapeFacts DEF DrainEndSpin, Shape, DoneInv
    <2>10. CASE DrainRelease(t)
      BY <2>10, <1>typ, <1>don, ShapeFacts DEF DrainRelease, Shape, DoneInv
    <2>11. CASE DrainDelete(t)
      BY <2>11, <1>typ, <1>don, ShapeFacts DEF DrainDelete, Shape, DoneInv
    <2>12. QED
      BY <1>3, <2>1, <2>2, <2>3, <2>4, <2>5, <2>6, <2>7, <2>8, <2>9, <2>10,
         <2>11 DEF thr_queue_drain
  <1>4. CASE UNCHANGED vars
    BY <1>4, <1>typ, <1>don, ShapeFacts DEF vars, Shape, DoneInv
  <1>5. QED
    BY <1>1, <1>2, <1>3, <1>4 DEF Next

\* q->destroy stays the last job.
LEMMA WipeNext == IInv /\ [Next]_vars => WipeInv'
  <1> SUFFICES ASSUME IInv, [Next]_vars PROVE WipeInv'
    OBVIOUS
  <1>typ. TypeOK
    BY DEF IInv
  <1>chn. ChainInv
    BY DEF IInv
  <1>own. OwnerInv
    BY DEF IInv
  <1>wip. WipeInv
    BY DEF IInv
  <1>tok. TokenInv
    BY DEF IInv
  <1> USE DEF QGoto, DGoto, mpsc, qvars, dvars
  <1>1. ASSUME NEW t \in Threads, thr_syn_queue(t) PROVE WipeInv'
    <2>1. ASSUME NEW l \in {"link", "sync_link"}, PushCall(t, l)
          PROVE  WipeInv'
      BY <2>1, <1>typ, <1>wip, ShapeFacts DEF PushCall, MayQueue,
         PushExchange, Shape, WipeInv, ReadyPc, TypeOK
    <2>2. CASE Queue(t) \/ QueueSync(t) \/ QueueDestroy(t)
      BY <2>1, <2>2 DEF Queue, QueueSync, QueueDestroy, PushCall
    <2>3. CASE QueueSyncInline(t)
      BY <2>3, <1>typ, <1>wip, ShapeFacts DEF QueueSyncInline, MayQueue,
         Shape, WipeInv, ReadyPc, TypeOK
    <2>4. CASE PushLink(t)
      BY <2>4, <1>typ, <1>wip, ShapeFacts DEF PushLink, DrainCall, Shape,
         WipeInv, ReadyPc, TypeOK
    <2>5. CASE Schedule(t)
      BY <2>5, <1>typ, <1>wip, ShapeFacts DEF Schedule, Shape, WipeInv,
         ReadyPc, TypeOK
    <2>6. CASE SyncWait(t)
      BY <2>6, <1>typ, <1>wip, ShapeFacts DEF SyncWait, Shape, WipeInv,
         ReadyPc, TypeOK
    <2>7. CASE InlineDone(t)
      BY <2>7, <1>typ, <1>wip, ShapeFacts DEF InlineDone, Shape, WipeInv,
         ReadyPc, TypeOK
    <2>8. QED
      BY <1>1, <2>1, <2>2, <2>3, <2>4, <2>5, <2>6, <2>7 DEF thr_syn_queue
  <1>2. ASSUME NEW t \in Threads, Run(t) PROVE WipeInv'
    BY <1>2, <1>typ, <1>wip, ShapeFacts DEF Run, DrainCall, Shape, WipeInv,
       ReadyPc, TypeOK
  <1>3. ASSUME NEW t \in Threads, thr_queue_drain(t) PROVE WipeInv'
    <2>1. CASE DrainEmpty(t)
      BY <2>1, <1>typ, <1>wip, ShapeFacts DEF DrainEmpty, Shape, WipeInv,
         ReadyPc, TypeOK
    <2>2. CASE DrainOwn(t)
      BY <2>2, <1>typ, <1>wip, ShapeFacts DEF DrainOwn, Shape, WipeInv,
         ReadyPc, TypeOK
    <2>3. CASE DrainStart(t)
      BY <2>3, <1>typ, <1>wip, ShapeFacts DEF DrainStart, Shape, WipeInv,
         ReadyPc, TypeOK
    <2>4. CASE DrainFast(t)
      BY <2>4, <1>typ, <1>wip, ShapeFacts DEF DrainFast, Shape, WipeInv,
         ReadyPc, TypeOK
    <2>5. CASE DrainJobFast(t)
      BY <2>5, <1>typ, <1>wip, ShapeFacts DEF DrainJobFast, Shape, WipeInv,
         ReadyPc, TypeOK
    <2>6. CASE DrainJob(t)
      BY <2>6, <1>typ, <1>wip, ShapeFacts, <1>chn DEF DrainJob, Shape,
         WipeInv, ReadyPc, TypeOK, ChainInv, BusyPc
    <2>7. CASE DrainEndLoad(t)
      BY <2>7, <1>typ, <1>wip, ShapeFacts, <1>chn DEF DrainEndLoad, Shape,
         WipeInv, ReadyPc, TypeOK, ChainInv, BusyPc
    <2>8. CASE DrainEndCas(t)
      BY <2>8, <1>typ, <1>wip, ShapeFacts, <1>chn DEF DrainEndCas, Shape,
         WipeInv, ReadyPc, TypeOK, ChainInv, BusyPc
    <2>9. CASE DrainEndSpin(t)
      BY <2>9, <1>typ, <1>wip, ShapeFacts, <1>chn DEF DrainEndSpin, Shape,
         WipeInv, ReadyPc, TypeOK, ChainInv, BusyPc
    <2>10. CASE DrainRelease(t)
      BY <2>10, <1>typ, <1>wip, ShapeFacts DEF DrainRelease, Shape, WipeInv,
         ReadyPc, TypeOK
    <2>11. CASE DrainDelete(t)
      BY <2>11, <1>typ, <1>wip, ShapeFacts DEF DrainDelete, Shape, WipeInv,
         ReadyPc, TypeOK
    <2>12. QED
      BY <1>3, <2>1, <2>2, <2>3, <2>4, <2>5, <2>6, <2>7, <2>8, <2>9, <2>10,
         <2>11 DEF thr_queue_drain
  <1>4. CASE UNCHANGED vars
    BY <1>4, <1>typ, <1>wip, ShapeFacts DEF vars, Shape, WipeInv, ReadyPc,
       TypeOK
  <1>5. QED
    BY <1>1, <1>2, <1>3, <1>4 DEF Next

-----------------------------------------------------------------------------
\* The initial states satisfy the inductive invariant.
LEMMA IInvInit == Init => IInv
  <1> SUFFICES ASSUME Init PROVE IInv
    OBVIOUS
  <1> USE NodeFacts DEF Init, Pushing, PushTok, DrainTok, ReadyPc, BusyPc, DrainPc
  <1>1. TypeOK
    BY DEF TypeOK, QPc, DPc
  <1>2. TokenInv /\ ChainInv /\ LinkInv
    BY DEF TokenInv, ChainInv, LinkInv
  <1>3. OwnerInv
    BY IdAssumption DEF OwnerInv
  <1>4. DoneInv /\ WipeInv /\ AssertsHold
    BY DEF DoneInv, WipeInv, AssertsHold
  <1>5. QED
    BY <1>1, <1>2, <1>3, <1>4 DEF IInv

\* The inductive invariant holds in every reachable state.
THEOREM Invariance == Spec => []IInv
  <1>1. IInv /\ [Next]_vars => IInv'
    BY TypeNext, TokenNext, ChainNext, LinkNext, OwnerNext, DoneNext, WipeNext,
       AssertNext DEF IInv
  <1>2. QED
    BY IInvInit, <1>1, PTL DEF Spec

-----------------------------------------------------------------------------
\* The state of a serial queue keeps its types.
THEOREM TypeCorrect == Spec => []TypeOK
  <1>1. IInv => TypeOK
    BY DEF IInv
  <1>2. QED
    BY <1>1, Invariance, PTL

\* Two threads are never inside jobs of one serial queue, whichever of
\* thr_queue, thr_queue_sync and q->run made them drain it.
THEOREM MutualExclusion == Spec => []OneAtATime
  <1>1. IInv => OneAtATime
    BY DEF IInv, OwnerInv, OneAtATime, InJob, BusyPc
  <1>2. QED
    BY <1>1, Invariance, PTL

\* thr_is_on_queue tells a thread inside a job of the queue that it is on it.
THEOREM KnowsItsQueue == Spec => []OnQueue
  <1>1. IInv => OnQueue
    BY DEF IInv, OwnerInv, OnQueue, InJob, BusyPc
  <1>2. QED
    BY <1>1, Invariance, PTL

\* The assertions of thr_queue_drain, mpsc_queue_drain_start and
\* thr_queue_wipe hold.
THEOREM NoAssertFails == Spec => []AssertsHold
  <1>1. IInv => AssertsHold
    BY DEF IInv
  <1>2. QED
    BY <1>1, Invariance, PTL

\* A queue is deleted after its last job, when q->run sits in no deque.
THEOREM DeletedAtEnd == Spec => []DeletedLast
  <1>1. IInv => DeletedLast
    <2> SUFFICES ASSUME IInv, deleted PROVE done = 1..npush /\ destroy # 0 /\ runs = 0
      BY DEF DeletedLast
    <2>1. tail = 0 /\ destroy # 0
      BY DEF IInv, WipeInv
    <2>2. runs = 0 /\ nstart = npush
      BY <2>1 DEF IInv, TokenInv, ChainInv
    <2>3. \A t \in Threads : dpc[t] \notin {"job_fast", "job"}
      BY <2>1 DEF IInv, TokenInv, DrainTok, DrainPc, BusyPc
    <2>4. done \subseteq Nodes /\ npush \in Nodes
      BY DEF IInv, TypeOK
    <2>5. \A n \in done : n \in 1..npush
      BY <2>2, <2>4, NodeFacts DEF IInv, DoneInv
    <2>6. \A n \in 1..npush : n \in Nodes
      BY <2>4, PushAssumption DEF Nodes
    <2>7. \A n \in 1..npush : n \in done
      BY <2>2, <2>3, <2>4, <2>6, NodeFacts DEF IInv, DoneInv
    <2>8. QED
      BY <2>1, <2>2, <2>5, <2>7
  <1>2. QED
    BY <1>1, Invariance, PTL

-----------------------------------------------------------------------------
(* The serial queue implements SerialQueue *)

\* The jobs a + 1 .. b waiting, as a sequence.
Interval(a, b) == [i \in 1..(b - a) |-> a + i]

\* The lists of waiting jobs before and after a push and a start.
LEMMA IntervalFacts ==
  ASSUME NEW a \in Nat, NEW b \in Nat, a <= b
  PROVE  /\ a = b => Interval(a, b) = <<>>
         /\ Interval(a, b + 1) = Append(Interval(a, b), b + 1)
         /\ a < b => /\ Interval(a, b) # <<>>
                     /\ Head(Interval(a, b)) = a + 1
                     /\ Tail(Interval(a, b)) = Interval(a + 1, b)
  <1>1. a = b => Interval(a, b) = <<>>
    BY DEF Interval
  <1>2. Interval(a, b + 1) = Append(Interval(a, b), b + 1)
    BY DEF Interval
  <1>3. ASSUME a < b
        PROVE  /\ Interval(a, b) # <<>>
               /\ Head(Interval(a, b)) = a + 1
    BY <1>3 DEF Interval
  <1>4. ASSUME a < b
        PROVE  Tail(Interval(a, b)) = Interval(a + 1, b)
    <2> DEFINE s == Interval(a, b)
    <2>1. s \in Seq(Nat) /\ Len(s) = b - a /\ b - a \in Nat
      BY <1>4 DEF Interval
    <2>2. s # <<>>
      BY <1>3, <1>4
    <2>3. \A i \in 1..(b - a) : s[i] = a + i
      BY DEF Interval
    <2>4. Len(Tail(s)) = b - a - 1 /\ Tail(s) \in Seq(Nat)
      BY <2>1, <2>2
    <2>5. \A i \in 1..(b - a - 1) : Tail(s)[i] = s[i + 1]
      BY <2>1, <2>2
    <2>6. ASSUME NEW i \in 1..(b - a - 1) PROVE Tail(s)[i] = (a + 1) + i
      <3>1. i + 1 \in 1..(b - a) /\ i \in Nat
        BY <1>4
      <3>2. Tail(s)[i] = s[i + 1]
        BY <2>5
      <3>3. s[i + 1] = a + (i + 1)
        BY <2>3, <3>1
      <3>4. a + (i + 1) = (a + 1) + i
        BY <3>1
      <3>5. QED
        BY <3>2, <3>3, <3>4, Zenon
    <2>7. /\ Interval(a + 1, b) \in Seq(Nat)
          /\ Len(Interval(a + 1, b)) = b - a - 1
          /\ \A i \in 1..(b - a - 1) : Interval(a + 1, b)[i] = (a + 1) + i
      BY <1>4 DEF Interval
    <2>8. QED
      BY <2>4, <2>6, <2>7, SeqEqual
  <1>5. QED
    BY <1>1, <1>2, <1>3, <1>4

\* The threads inside jobs and the nodes they run stay the same.
SameRunner ==
  \A u \in Threads :
    /\ dpc'[u] \in {"job_fast", "job"} <=> dpc[u] \in {"job_fast", "job"}
    /\ dpc[u] \in {"job_fast", "job"} => h'[u] = h[u]

\* A step that starts and ends no job leaves the running jobs as they are.
LEMMA SameRunning == SameRunner => Running' = Running
  <1> SUFFICES ASSUME SameRunner PROVE Running' = Running
    OBVIOUS
  <1>1. Runner' = Runner
    BY DEF SameRunner, Runner
  <1>2. CASE Runner = {}
    BY <1>1, <1>2 DEF Running
  <1>3. CASE Runner # {}
    <2> DEFINE u == CHOOSE t \in Runner : TRUE
    <2>1. u \in Runner
      BY <1>3
    <2>2. h'[u] = h[u]
      BY <2>1 DEF SameRunner, Runner
    <2>3. QED
      BY <1>1, <1>3, <2>2 DEF Running
  <1>4. QED
    BY <1>2, <1>3

\* What a step that is neither a push nor the start or end of a job leaves.
Quiet == SameRunner /\ UNCHANGED <<npush, nstart>>

\* Who runs what, from the invariant.
LEMMA RunningFacts ==
  ASSUME IInv
  PROVE  /\ \A t \in Threads : dpc[t] \in {"job_fast", "job"} =>
               Running = nstart /\ nstart # 0
         /\ \A t \in Threads : dpc[t] = "fast" => Running = 0
         /\ nstart \in Nat /\ npush \in Nat /\ nstart <= npush
  <1>1. TypeOK /\ TokenInv /\ ChainInv
    BY DEF IInv
  <1>2. nstart \in Nat /\ npush \in Nat /\ nstart <= npush
    BY <1>1, ShapeFacts DEF Shape, ChainInv
  <1>3. ASSUME NEW t \in Threads, dpc[t] \in {"job_fast", "job"}
        PROVE  Running = nstart /\ nstart # 0
    <2>1. h[t] = nstart /\ nstart > 0
      BY <1>1, <1>3 DEF ChainInv, BusyPc
    <2>2. Runner = {t}
      BY <1>1, <1>3 DEF Runner, TokenInv, DrainTok, DrainPc, BusyPc
    <2>3. QED
      BY <1>2, <2>1, <2>2 DEF Running
  <1>4. ASSUME NEW t \in Threads, dpc[t] = "fast" PROVE Running = 0
    <2>1. Runner = {}
      BY <1>1, <1>4 DEF Runner, TokenInv, DrainTok, DrainPc, BusyPc
    <2>2. QED
      BY <2>1 DEF Running
  <1>5. QED
    BY <1>2, <1>3, <1>4

\* A push queues a job, the drain reaching a node starts one, job_run
\* returning finishes it, and no other step shows.
LEMMA AbsNext == IInv /\ IInv' /\ [Next]_vars => [Abs!ANext]_(Abs!avars)
  <1> SUFFICES ASSUME IInv, IInv', [Next]_vars PROVE [Abs!ANext]_(Abs!avars)
    OBVIOUS
  <1>typ. TypeOK
    BY DEF IInv
  <1>wait. Waiting = Interval(nstart, npush) /\ Waiting' = Interval(nstart', npush')
    BY DEF Waiting, Interval
  <1>num. nstart \in Nat /\ npush \in Nat /\ nstart <= npush
    BY RunningFacts
  <1>quiet. ASSUME Quiet PROVE [Abs!ANext]_(Abs!avars)
    BY <1>quiet, <1>wait, SameRunning DEF Quiet, Abs!avars
  <1> USE DEF QGoto, DGoto, mpsc, qvars, dvars, SameRunner
  <1>push. ASSUME NEW t \in Threads, NEW l, PushExchange(t, l)
           PROVE  [Abs!ANext]_(Abs!avars)
    <2>1. npush' = npush + 1 /\ nstart' = nstart /\ SameRunner
      BY <1>push DEF PushExchange
    <2>2. Waiting' = Append(Waiting, npush + 1)
      BY <2>1, <1>wait, <1>num, IntervalFacts
    <2>3. QED
      BY <2>1, <2>2, SameRunning DEF Abs!ANext, Abs!AQueue
  <1>job. ASSUME NEW t \in Threads, DrainJob(t) \/ DrainJobFast(t)
          PROVE  [Abs!ANext]_(Abs!avars)
    <2>1. Running # 0
      BY <1>job, RunningFacts DEF DrainJob, DrainJobFast
    <2>2. dpc'[t] \notin {"job_fast", "job"} /\ UNCHANGED <<npush, nstart>>
      BY <1>job, <1>typ, ShapeFacts DEF DrainJob, DrainJobFast, Shape
    <2>3. \A u \in Threads : u # t => dpc'[u] = dpc[u]
      BY <1>job, <1>typ, ShapeFacts DEF DrainJob, DrainJobFast, Shape
    <2>4. \A u \in Threads : u # t => dpc[u] \notin {"job_fast", "job"}
      BY <1>job DEF IInv, TokenInv, DrainTok, DrainPc, BusyPc, DrainJob,
         DrainJobFast
    <2>5. Runner' = {}
      BY <2>2, <2>3, <2>4 DEF Runner
    <2>6. Running' = 0
      BY <2>5 DEF Running
    <2>7. QED
      BY <2>1, <2>2, <2>6, <1>wait DEF Abs!ANext, Abs!AFinish
  <1>fast. ASSUME NEW t \in Threads, DrainFast(t) PROVE [Abs!ANext]_(Abs!avars)
    <2>1. Running = 0 /\ nstart < npush
      BY <1>fast, RunningFacts DEF DrainFast, IInv, ChainInv
    <2>2. /\ dpc'[t] \in {"job_fast", "job"}
          /\ npush' = npush /\ nstart' = nstart + 1
      BY <1>fast, <1>typ, ShapeFacts DEF DrainFast, Shape
    <2>3. Running' = nstart'
      <3>1. TokenInv' /\ ChainInv'
        BY DEF IInv
      <3>2. h'[t] = nstart'
        BY <2>2, <3>1 DEF ChainInv, BusyPc
      <3>3. Runner' = {t}
        BY <2>2, <3>1 DEF Runner, TokenInv, DrainTok, DrainPc, BusyPc
      <3>4. QED
        BY <3>2, <3>3 DEF Running
    <2>4. Waiting # <<>> /\ Head(Waiting) = nstart + 1 /\ Waiting' = Tail(Waiting)
      BY <1>wait, <1>num, <2>1, <2>2, IntervalFacts
    <2>5. QED
      BY <2>1, <2>2, <2>3, <2>4 DEF Abs!ANext, Abs!AStart
  <1>1. ASSUME NEW t \in Threads, thr_syn_queue(t) PROVE [Abs!ANext]_(Abs!avars)
    <2>1. CASE Queue(t) \/ QueueSync(t) \/ QueueDestroy(t)
      BY <2>1, <1>push DEF Queue, QueueSync, QueueDestroy
    <2>2. CASE QueueSyncInline(t)
      BY <2>2, <1>quiet DEF Quiet, QueueSyncInline
    <2>3. CASE PushLink(t)
      <3>1. dpc[t] \notin {"job_fast", "job"} \/ UNCHANGED dpc
        BY <2>3 DEF IInv, OwnerInv, PushLink
      <3>2. Quiet
        BY <2>3, <3>1, <1>typ, ShapeFacts DEF Quiet, PushLink, DrainCall, Shape
      <3>3. QED
        BY <1>quiet, <3>2
    <2>4. CASE Schedule(t) \/ SyncWait(t) \/ InlineDone(t)
      BY <2>4, <1>quiet DEF Quiet, Schedule, SyncWait, InlineDone
    <2>5. QED
      BY <1>1, <2>1, <2>2, <2>3, <2>4 DEF thr_syn_queue
  <1>2. ASSUME NEW t \in Threads, Run(t) PROVE [Abs!ANext]_(Abs!avars)
    <2>1. Quiet
      BY <1>2, <1>typ, ShapeFacts DEF Quiet, Run, DrainCall, Shape
    <2>2. QED
      BY <1>quiet, <2>1
  <1>3. ASSUME NEW t \in Threads, thr_queue_drain(t) PROVE [Abs!ANext]_(Abs!avars)
    <2>1. CASE DrainEmpty(t) \/ DrainOwn(t) \/ DrainStart(t)
      <3>1. Quiet
        BY <2>1, <1>typ, ShapeFacts DEF Quiet, DrainEmpty, DrainOwn, DrainStart,
           Shape
      <3>2. QED
        BY <1>quiet, <3>1
    <2>2. CASE DrainEndLoad(t) \/ DrainEndCas(t) \/ DrainEndSpin(t)
      <3>1. Quiet
        BY <2>2, <1>typ, ShapeFacts DEF Quiet, DrainEndLoad, DrainEndCas,
           DrainEndSpin, Shape
      <3>2. QED
        BY <1>quiet, <3>1
    <2>3. CASE DrainRelease(t) \/ DrainDelete(t)
      <3>1. Quiet
        BY <2>3, <1>typ, ShapeFacts DEF Quiet, DrainRelease, DrainDelete, Shape
      <3>2. QED
        BY <1>quiet, <3>1
    <2>4. QED
      BY <1>3, <1>job, <1>fast, <2>1, <2>2, <2>3 DEF thr_queue_drain
  <1>4. CASE UNCHANGED vars
    BY <1>4, <1>quiet DEF Quiet, vars
  <1>5. QED
    BY <1>1, <1>2, <1>3, <1>4 DEF Next

\* A serial queue does what SerialQueue says, for any threads and any jobs:
\* each job queued is started once, in the order queued, one at a time.
THEOREM Implements == Spec => Refines
  <1>1. Init => Abs!AInit
    <2> SUFFICES ASSUME Init PROVE Abs!AInit
      OBVIOUS
    <2>1. npush = 0 /\ nstart = 0 /\ Runner = {}
      BY DEF Init, Runner
    <2>2. Waiting = Interval(0, 0)
      BY <2>1 DEF Waiting, Interval
    <2>3. Waiting = <<>>
      BY <2>2, IntervalFacts
    <2>4. QED
      BY <2>1, <2>3 DEF Abs!AInit, Running
  <1>2. QED
    BY <1>1, AbsNext, Invariance, PTL DEF Spec, Refines, Abs!ASpec
=============================================================================
