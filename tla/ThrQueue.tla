------------------------------ MODULE ThrQueue ------------------------------
(***************************************************************************)
(* One serial queue (core/thr-job.blk, "serial queues") over its MPSC      *)
(* queue (core/thr-mpsc.h): any thread queues jobs, the one that finds the *)
(* queue empty schedules q->run, or, in thr_queue_sync, drains the queue   *)
(* itself.  The main queue, drained by thread 0 alone, is ThrMain's.       *)
(*                                                                         *)
(* Nodes are numbered in the order of the exchanges of 'tail'; node 0 is   *)
(* q->head, to which no node ever points, so 0 also stands for NULL.  A    *)
(* node is not reused here: see Mpsc.                                      *)
(*                                                                         *)
(* A thread may queue from inside a job of the queue, so it has a place in *)
(* thr_queue_drain (dpc) and one in the call it is making (qpc).           *)
(***************************************************************************)
EXTENDS Integers, Sequences

CONSTANTS Callers,     \* threads that queue jobs and run the ones scheduled
          Spare,       \* threads that only run what is scheduled: the ones
                       \* the pool provides while others wait
          MaxPush,     \* bound: jobs queued
          MayDestroy   \* whether the last job queued may be q->destroy

ASSUME ThreadAssumption == Callers \cap Spare = {}
ASSUME PushAssumption == MaxPush \in Nat
ASSUME DestroyAssumption == MayDestroy \in BOOLEAN

Threads == Callers \cup Spare
NotRunning == "THR_QUEUE_NOT_RUNNING"
ASSUME IdAssumption == NotRunning \notin Threads

Nodes == 0..MaxPush

VARIABLES tail,        \* q->q.tail
          next,        \* the 'next' field of every node
          running_on,  \* q->running_on
          runs,        \* how many times q->run sits in a deque
          deleted,     \* q has been given back to the allocator
          npush,       \* how many nodes have been pushed
          destroy,     \* the node that carries q->destroy, 0 if none yet
          nstart,      \* how many jobs have been started
          done,        \* the jobs that are over
          qpc,         \* each thread's place in thr_syn_queue/thr_queue_sync
          node,        \* its node there
          prev,        \* its 'prev' in mpsc_queue_push
          dpc,         \* its place in thr_queue_drain
          prev_id,     \* its 'prev_id' there
          h,           \* its 'it.h' there
          wipe         \* the threads whose 'wipe' there is true

mpsc == <<tail, next>>
qvars == <<npush, destroy, qpc, node, prev>>
dvars == <<dpc, prev_id, h, wipe>>
vars == <<mpsc, running_on, runs, deleted, nstart, done, qvars, dvars>>

Init ==
  /\ tail = 0
  /\ next = [n \in Nodes |-> 0]
  /\ running_on = NotRunning
  /\ runs = 0
  /\ deleted = FALSE
  /\ npush = 0
  /\ destroy = 0
  /\ nstart = 0
  /\ done = {}
  /\ qpc = [t \in Threads |-> "idle"]
  /\ node = [t \in Threads |-> 0]
  /\ prev = [t \in Threads |-> 0]
  /\ dpc = [t \in Threads |-> "idle"]
  /\ prev_id = [t \in Threads |-> NotRunning]
  /\ h = [t \in Threads |-> 0]
  /\ wipe = {}

QGoto(t, l) == qpc' = [qpc EXCEPT ![t] = l]
DGoto(t, l) == dpc' = [dpc EXCEPT ![t] = l]

\* thr_queue_drain is called.
DrainCall(t) ==
  /\ DGoto(t, "empty")
  /\ prev_id' = [prev_id EXCEPT ![t] = NotRunning]
  /\ wipe' = wipe \ {t}
  /\ UNCHANGED h

-----------------------------------------------------------------------------
(* thr_syn_queue, thr_queue_sync and thr_queue_destroy *)

\* Nobody queues once q->destroy is queued: q is no longer theirs.
MayQueue(t) ==
  /\ t \in Callers
  /\ qpc[t] = "idle"
  /\ dpc[t] \in {"idle", "job", "job_fast"}
  /\ npush < MaxPush
  /\ destroy = 0

\* mpsc_queue_push up to the exchange of tail; l says what follows.
PushExchange(t, l) ==
  /\ npush' = npush + 1
  /\ node' = [node EXCEPT ![t] = npush + 1]
  /\ prev' = [prev EXCEPT ![t] = tail]
  /\ tail' = npush + 1
  /\ QGoto(t, l)
  /\ UNCHANGED <<next, running_on, runs, deleted, nstart, done, dvars>>

\* thr_queue, thr_syn_queue
Queue(t) ==
  /\ MayQueue(t)
  /\ PushExchange(t, "link")
  /\ UNCHANGED destroy

\* thr_queue_sync from a thread that is not on the queue
QueueSync(t) ==
  /\ MayQueue(t)
  /\ running_on # t
  /\ PushExchange(t, "sync_link")
  /\ UNCHANGED destroy

\* Mutant of QueueSyncInline: asks whether the queue runs, not where.
QueueSyncInlineMut(t) ==
  /\ MayQueue(t)
  /\ running_on # NotRunning
  /\ QGoto(t, "inline")
  /\ UNCHANGED <<mpsc, running_on, runs, deleted, npush, destroy, nstart,
                 done, node, prev, dvars>>

\* thr_queue_sync from a thread that is on the queue: run the job here.
QueueSyncInline(t) ==
  /\ MayQueue(t)
  /\ running_on = t
  /\ QGoto(t, "inline")
  /\ UNCHANGED <<mpsc, running_on, runs, deleted, npush, destroy, nstart,
                 done, node, prev, dvars>>

InlineDone(t) ==
  /\ qpc[t] = "inline"
  /\ QGoto(t, "idle")
  /\ UNCHANGED <<mpsc, running_on, runs, deleted, npush, destroy, nstart,
                 done, node, prev, dvars>>

\* thr_queue_destroy.  The caller has seen every other call on q return.  From
\* a job of the queue, waiting is QueueSyncInline, and deletes nothing.
QueueDestroy(t) ==
  /\ MayDestroy
  /\ MayQueue(t)
  /\ \A u \in Threads : qpc[u] = "idle"
  /\ \/ PushExchange(t, "link")
     \/ running_on # t /\ PushExchange(t, "sync_link")
  /\ destroy' = npush + 1

\* Mutant of PushLink: thr_queue_sync waits for a drain nobody starts.
PushLinkMut2(t) ==
  /\ qpc[t] \in {"link", "sync_link"}
  /\ next' = [next EXCEPT ![prev[t]] = node[t]]
  /\ QGoto(t, IF qpc[t] = "sync_link" THEN "wait"
              ELSE IF prev[t] = 0 THEN "schedule" ELSE "idle")
  /\ UNCHANGED <<tail, running_on, runs, deleted, npush, destroy, nstart,
                 done, node, prev, dvars>>

\* The second half of mpsc_queue_push, and what its result decides.
PushLink(t) ==
  /\ qpc[t] \in {"link", "sync_link"}
  /\ next' = [next EXCEPT ![prev[t]] = node[t]]
  /\ LET first == prev[t] = 0 IN
       IF qpc[t] = "link"
         THEN /\ QGoto(t, IF first THEN "schedule" ELSE "idle")
              /\ UNCHANGED dvars
         ELSE IF first
                THEN QGoto(t, "idle") /\ DrainCall(t)
                ELSE QGoto(t, "wait") /\ UNCHANGED dvars
  /\ UNCHANGED <<tail, running_on, runs, deleted, npush, destroy, nstart,
                 done, node, prev>>

\* thr_schedule(&q->run)
Schedule(t) ==
  /\ qpc[t] = "schedule"
  /\ runs' = runs + 1
  /\ QGoto(t, "idle")
  /\ UNCHANGED <<mpsc, running_on, deleted, npush, destroy, nstart, done,
                 node, prev, dvars>>

\* thr_syn_wait in thr_queue_sync
SyncWait(t) ==
  /\ qpc[t] = "wait"
  /\ node[t] \in done
  /\ QGoto(t, "idle")
  /\ UNCHANGED <<mpsc, running_on, runs, deleted, npush, destroy, nstart,
                 done, node, prev, dvars>>

-----------------------------------------------------------------------------
(* thr_queue_drain *)

\* A thread of the pool takes q->run from a deque: thr_queue_run.
Run(t) ==
  /\ runs > 0
  /\ qpc[t] = "idle" /\ dpc[t] = "idle"
  /\ runs' = runs - 1
  /\ DrainCall(t)
  /\ UNCHANGED <<mpsc, running_on, deleted, nstart, done, qvars>>

\* mpsc_queue_looks_empty: never on a queue that is scheduled.
DrainEmpty(t) ==
  /\ dpc[t] = "empty"
  /\ DGoto(t, IF next[0] = 0 THEN "assert" ELSE "own")
  /\ UNCHANGED <<mpsc, running_on, runs, deleted, nstart, done, qvars,
                 prev_id, h, wipe>>

\* One round of the loop on running_on: the thread that drained before may not
\* have reset it yet; it is taken over on the second round.
DrainOwn(t) ==
  /\ dpc[t] = "own"
  /\ IF running_on = prev_id[t]
       THEN /\ running_on' = t
            /\ DGoto(t, "start")
            /\ UNCHANGED prev_id
       ELSE /\ prev_id' = [prev_id EXCEPT ![t] = running_on]
            /\ DGoto(t, IF running_on = t THEN "assert" ELSE "own")
            /\ UNCHANGED running_on
  /\ UNCHANGED <<mpsc, runs, deleted, nstart, done, qvars, h, wipe>>

\* mpsc_queue_drain_start
DrainStart(t) ==
  /\ dpc[t] = "start"
  /\ h' = [h EXCEPT ![t] = next[0]]
  /\ next' = [next EXCEPT ![0] = 0]
  /\ DGoto(t, IF next[0] = 0 THEN "assert" ELSE "fast")
  /\ UNCHANGED <<tail, running_on, runs, deleted, nstart, done, qvars,
                 prev_id, wipe>>

\* mpsc_queue_drain_fast starts the job of node h: through thr_queue_run_node
\* when the next node is known, after the loop otherwise.
DrainFast(t) ==
  /\ dpc[t] = "fast"
  /\ DGoto(t, IF next[h[t]] # 0 THEN "job_fast" ELSE "job")
  /\ nstart' = nstart + 1
  /\ UNCHANGED <<mpsc, running_on, runs, deleted, done, qvars, prev_id, h,
                 wipe>>

\* The job returns: job_run signals its syn; 'wipe' is only looked at for the
\* last node.
DrainJobFast(t) ==
  /\ dpc[t] = "job_fast" /\ qpc[t] = "idle"
  /\ done' = done \cup {h[t]}
  /\ h' = [h EXCEPT ![t] = next[h[t]]]
  /\ DGoto(t, "fast")
  /\ UNCHANGED <<mpsc, running_on, runs, deleted, nstart, qvars, prev_id,
                 wipe>>

DrainJob(t) ==
  /\ dpc[t] = "job" /\ qpc[t] = "idle"
  /\ done' = done \cup {h[t]}
  /\ wipe' = IF h[t] = destroy THEN wipe \cup {t} ELSE wipe \ {t}
  /\ DGoto(t, "end_load")
  /\ UNCHANGED <<mpsc, running_on, runs, deleted, nstart, qvars, prev_id, h>>

\* mpsc_queue_drain_end: load tail, then try to close the queue.
DrainEndLoad(t) ==
  /\ dpc[t] = "end_load"
  /\ DGoto(t, IF tail = h[t] THEN "end_cas" ELSE "end_spin")
  /\ UNCHANGED <<mpsc, running_on, runs, deleted, nstart, done, qvars,
                 prev_id, h, wipe>>

\* Mutant of DrainEndCas: a store instead of the compare-and-swap.
DrainEndCasMut(t) ==
  /\ dpc[t] = "end_cas"
  /\ tail' = 0
  /\ DGoto(t, "release")
  /\ UNCHANGED <<next, running_on, runs, deleted, nstart, done, qvars,
                 prev_id, h, wipe>>

DrainEndCas(t) ==
  /\ dpc[t] = "end_cas"
  /\ IF tail = h[t]
       THEN tail' = 0 /\ DGoto(t, "release")
       ELSE DGoto(t, "end_spin") /\ UNCHANGED tail
  /\ UNCHANGED <<next, running_on, runs, deleted, nstart, done, qvars,
                 prev_id, h, wipe>>

\* A pusher is between its two steps: wait for the link.
DrainEndSpin(t) ==
  /\ dpc[t] = "end_spin"
  /\ next[h[t]] # 0
  /\ h' = [h EXCEPT ![t] = next[h[t]]]
  /\ DGoto(t, "fast")
  /\ UNCHANGED <<mpsc, running_on, runs, deleted, nstart, done, qvars,
                 prev_id, wipe>>

\* Mutant of DrainRelease: deletes as soon as q->destroy is queued.
DrainReleaseMut3(t) ==
  /\ dpc[t] = "release"
  /\ running_on' = IF running_on = t THEN NotRunning ELSE running_on
  /\ DGoto(t, IF destroy # 0 THEN "delete" ELSE "idle")
  /\ UNCHANGED <<mpsc, runs, deleted, nstart, done, qvars, prev_id, h, wipe>>

\* Reset running_on, unless it has been taken over.
DrainRelease(t) ==
  /\ dpc[t] = "release"
  /\ running_on' = IF running_on = t THEN NotRunning ELSE running_on
  /\ DGoto(t, IF t \in wipe THEN "delete" ELSE "idle")
  /\ UNCHANGED <<mpsc, runs, deleted, nstart, done, qvars, prev_id, h, wipe>>

\* thr_queue_delete
DrainDelete(t) ==
  /\ dpc[t] = "delete"
  /\ deleted' = TRUE
  /\ DGoto(t, IF next[0] # 0 THEN "assert" ELSE "idle")
  /\ UNCHANGED <<mpsc, running_on, runs, nstart, done, qvars, prev_id, h,
                 wipe>>

-----------------------------------------------------------------------------
thr_syn_queue(t) ==
  \/ Queue(t) \/ QueueSync(t) \/ QueueSyncInline(t) \/ QueueDestroy(t)
  \/ PushLink(t) \/ Schedule(t) \/ SyncWait(t) \/ InlineDone(t)

thr_queue_drain(t) ==
  \/ DrainEmpty(t) \/ DrainOwn(t) \/ DrainStart(t) \/ DrainFast(t)
  \/ DrainJobFast(t) \/ DrainJob(t) \/ DrainEndLoad(t) \/ DrainEndCas(t)
  \/ DrainEndSpin(t) \/ DrainRelease(t) \/ DrainDelete(t)

Next == \E t \in Threads : thr_syn_queue(t) \/ Run(t) \/ thr_queue_drain(t)

Spec == Init /\ [][Next]_vars

\* Calls and drains that are begun go on, jobs return however many calls they
\* make, and the pool has a thread for what is scheduled.  Nobody has to queue
\* anything.
Fairness ==
  \A t \in Threads :
     /\ WF_vars(thr_queue_drain(t))
     /\ SF_vars(DrainJobFast(t) \/ DrainJob(t))
     /\ WF_vars(PushLink(t) \/ Schedule(t) \/ SyncWait(t) \/ InlineDone(t))
     /\ t \in Spare => WF_vars(Run(t))

FairSpec == Spec /\ Fairness

-----------------------------------------------------------------------------
(* Properties *)

QPc == {"idle", "link", "sync_link", "schedule", "wait", "inline"}
DPc == {"idle", "empty", "own", "start", "fast", "job_fast", "job",
        "end_load", "end_cas", "end_spin", "release", "delete", "assert"}

TypeOK ==
  /\ tail \in Nodes
  /\ next \in [Nodes -> Nodes]
  /\ running_on \in Threads \cup {NotRunning}
  /\ runs \in Nat
  /\ deleted \in BOOLEAN
  /\ npush \in Nodes
  /\ destroy \in Nodes
  /\ nstart \in Nat
  /\ done \subseteq Nodes
  /\ qpc \in [Threads -> QPc]
  /\ node \in [Threads -> Nodes]
  /\ prev \in [Threads -> Nodes]
  /\ dpc \in [Threads -> DPc]
  /\ prev_id \in [Threads -> Threads \cup {NotRunning}]
  /\ h \in [Threads -> Nodes]
  /\ wipe \subseteq Threads

\* Thread t is inside a job of the queue.
InJob(t) == dpc[t] \in {"job_fast", "job"} \/ qpc[t] = "inline"

\* Jobs run at most one at a time, although the thread that drains changes
\* without any lock, and the jobs thr_queue_sync runs in place are run by the
\* thread that is on the queue.
OneAtATime == \A t, u \in Threads : InJob(t) /\ InJob(u) => t = u

\* A thread that runs a job of the queue knows it: running_on is its id, and
\* the late reset of the previous drainer never clears it.  (Otherwise
\* thr_queue_sync from such a job waits for itself.)
OnQueue == \A t \in Threads : InJob(t) => running_on = t

\* The assertions of the code: a scheduled queue is not empty, a thread does
\* not drain a queue it already drains, a drain starts on a node, and a queue
\* is deleted empty.
AssertsHold == \A t \in Threads : dpc[t] # "assert"

\* The queue is deleted when all its jobs, q->destroy included, are over.
DeletedLast == deleted => done = 1..npush /\ destroy # 0 /\ runs = 0

\* The serial queue implements SerialQueue: each job starts once, in the order
\* of the exchanges of tail, when no other job runs.
Runner == {t \in Threads : dpc[t] \in {"job_fast", "job"}}
Running == IF Runner = {} THEN 0 ELSE h[CHOOSE t \in Runner : TRUE]
Waiting == [i \in 1..(npush - nstart) |-> nstart + i]
Abs == INSTANCE SerialQueue WITH
         queued <- npush, queue <- Waiting, running <- Running
Refines == Abs!ASpec

\* Every job queued is eventually run, whoever finds the queue empty.
EveryJobRuns == (done # 1..npush) ~> (done = 1..npush)

\* A thr_queue_sync that has to wait returns, whoever runs its job.
SyncReturns == \A t \in Threads : (qpc[t] = "wait") ~> (qpc[t] = "idle")

\* A queue that is destroyed is eventually deleted.
DestroyDeletes == (destroy # 0) ~> deleted

\* What callers wait for happens.
CallsComplete == EveryJobRuns /\ SyncReturns /\ DestroyDeletes

\* thr_queue_finalize's comment: q->destroy is "a marker that we reached the
\* end of the queue"; so nobody is still using q when it is deleted.
EndReached ==
  deleted => \A t \in Threads : dpc[t] = "idle" /\ qpc[t] \in {"idle", "wait"}
=============================================================================
