------------------------------- MODULE ThrSyn -------------------------------
(***************************************************************************)
(* A thr_syn_t (core/thr-job.h, core/thr-job.blk): jobs register on it and *)
(* leave it, threads wait until none is left or until a condition the jobs *)
(* make true, and its owner waits, then wipes it.  Whoever touches the syn *)
(* holds a reference, and the memory goes away with the last one.          *)
(*                                                                         *)
(* Jobs are queued by the owner before it waits, or from inside another    *)
(* job of the syn.  The event count (ThrEvc) is reduced to its key.        *)
(***************************************************************************)
EXTENDS Integers, FiniteSets

CONSTANTS Jobs,
          Waiters,   \* threads that wait; the one in Owner wipes the syn
          Owner,
          Until,     \* the ones that may wait for a condition, which job
                     \* UntilJob makes true
          UntilJob,
          Timed      \* the ones that wait with a timeout: all but thread 0

ASSUME JobsAssumption == IsFiniteSet(Jobs) /\ Jobs \cap Waiters = {}
ASSUME WaitersAssumption == IsFiniteSet(Waiters) /\ Owner \in Waiters
ASSUME UntilAssumption == Until \subseteq Waiters /\ UntilJob \in Jobs

VARIABLES pending,   \* syn->pending
          refcnt,    \* syn->refcnt
          key,       \* syn->ec.key
          freed,     \* the memory of the syn is gone
          jpc,       \* each job's state
          parent,    \* who queues it: the owner or another job
          wpc,       \* each waiter's place
          seen,      \* its 'pending' in syn_cond
          wkey,      \* its 'key'
          until      \* the waiters that wait for a condition

vars == <<pending, refcnt, key, freed, jpc, parent, wpc, seen, wkey, until>>

\* thr_syn_init
Init ==
  /\ pending = 0
  /\ refcnt = 1
  /\ key = 0
  /\ freed = FALSE
  /\ jpc = [j \in Jobs |-> "new"]
  /\ parent = [j \in Jobs |-> Owner]
  /\ wpc = [w \in Waiters |-> "out"]
  /\ seen = [w \in Waiters |-> 0]
  /\ wkey = [w \in Waiters |-> 0]
  /\ until = {}

JGoto(j, l) == jpc' = [jpc EXCEPT ![j] = l]
WGoto(w, l) == wpc' = [wpc EXCEPT ![w] = l]

\* The value an assertion of the code refuses stops the thread for good.
Checked(ok, l) == IF ok THEN l ELSE "assert"

-----------------------------------------------------------------------------
(* thr_syn__job_prepare, job_run and thr_syn__job_done *)

\* Who may queue a job: the owner until it waits, or a job that runs.
MayQueue(q) == IF q = Owner THEN wpc[Owner] = "out" ELSE jpc[q] = "run"
Queuing(q) == {j \in Jobs : jpc[j] = "retained" /\ parent[j] = q}

PrepareRetain(j) ==
  /\ jpc[j] = "new"
  /\ \E q \in {Owner} \cup (Jobs \ {j}) :
        /\ MayQueue(q)
        /\ Queuing(q) = {}
        /\ parent' = [parent EXCEPT ![j] = q]
  /\ refcnt' = refcnt + 1
  /\ JGoto(j, Checked(refcnt # 0, "retained"))
  /\ UNCHANGED <<pending, key, freed, wpc, seen, wkey, until>>

PrepareAdd(j) ==
  /\ jpc[j] = "retained"
  /\ pending' = pending + 1
  /\ JGoto(j, "run")
  /\ UNCHANGED <<refcnt, key, freed, parent, wpc, seen, wkey, until>>

\* The job has run: leave the syn.
DoneSub(j) ==
  /\ jpc[j] = "run"
  /\ Queuing(j) = {}
  /\ pending' = pending - 1
  /\ JGoto(j, Checked(pending # 0,
                      IF pending = 1 THEN "broadcast" ELSE "release"))
  /\ UNCHANGED <<refcnt, key, freed, parent, wpc, seen, wkey, until>>

\* Mutant of DoneBroadcast: nobody is woken up.
DoneBroadcastMut(j) ==
  /\ jpc[j] = "broadcast"
  /\ JGoto(j, "release")
  /\ UNCHANGED <<pending, refcnt, key, freed, parent, wpc, seen, wkey, until>>

DoneBroadcast(j) ==
  /\ jpc[j] = "broadcast"
  /\ key' = key + 1
  /\ JGoto(j, "release")
  /\ UNCHANGED <<pending, refcnt, freed, parent, wpc, seen, wkey, until>>

DoneRelease(j) ==
  /\ jpc[j] = "release"
  /\ refcnt' = refcnt - 1
  /\ JGoto(j, Checked(refcnt # 0, "done"))
  /\ UNCHANGED <<pending, key, freed, parent, wpc, seen, wkey, until>>

Job(j) ==
  \/ PrepareAdd(j) \/ DoneSub(j) \/ DoneBroadcast(j) \/ DoneRelease(j)

-----------------------------------------------------------------------------
(* thr_syn_wait_until_flags *)

\* The owner queues nothing more.  The others, the job of thr_syn_notify for
\* one, come once the jobs are queued and before the owner drops its reference,
\* and a condition is one that a queued job makes true.
WaitRetain(w) ==
  /\ wpc[w] = "out"
  /\ w = Owner => Queuing(Owner) = {}
  /\ w # Owner => wpc[Owner] \notin {"out", "wipe_spin", "gone"}
  /\ \/ UNCHANGED until
     \/ /\ w \in Until
        /\ jpc[UntilJob] \notin {"new", "retained"}
        /\ until' = until \cup {w}
  /\ refcnt' = refcnt + 1
  /\ WGoto(w, Checked(refcnt # 0, "get"))
  /\ UNCHANGED <<pending, key, freed, jpc, parent, seen, wkey>>

WaitGet(w) ==
  /\ wpc[w] = "get"
  /\ wkey' = [wkey EXCEPT ![w] = key]
  /\ WGoto(w, "load")
  /\ UNCHANGED <<pending, refcnt, key, freed, jpc, parent, seen, until>>

\* The condition is about what UntilJob does while it runs.
cond == jpc[UntilJob] \notin {"new", "retained", "run"}

\* syn_cond fetches pending before it calls cond.
WaitLoad(w) ==
  /\ wpc[w] = "load"
  /\ seen' = [seen EXCEPT ![w] = pending]
  /\ WGoto(w, "cond")
  /\ UNCHANGED <<pending, refcnt, key, freed, jpc, parent, wkey, until>>

\* Mutant of WaitCond: the last job is not waited for.
WaitCondMut(w) ==
  /\ wpc[w] = "cond"
  /\ WGoto(w, IF w \in until
              THEN IF cond THEN "release" ELSE Checked(seen[w] # 0, "sleep")
              ELSE IF seen[w] <= 1 THEN "release" ELSE "sleep")
  /\ UNCHANGED <<pending, refcnt, key, freed, jpc, parent, seen, wkey, until>>

WaitCond(w) ==
  /\ wpc[w] = "cond"
  /\ WGoto(w, IF w \in until
              THEN IF cond THEN "release" ELSE Checked(seen[w] # 0, "sleep")
              ELSE IF seen[w] = 0 THEN "release" ELSE "sleep")
  /\ UNCHANGED <<pending, refcnt, key, freed, jpc, parent, seen, wkey, until>>

\* thr_ec_wait or thr_ec_timedwait: until a signal, or until the timeout.
WaitSleep(w) ==
  /\ wpc[w] = "sleep"
  /\ key # wkey[w] \/ w \in Timed
  /\ WGoto(w, "get")
  /\ UNCHANGED <<pending, refcnt, key, freed, jpc, parent, seen, wkey, until>>

WaitRelease(w) ==
  /\ wpc[w] = "release"
  /\ refcnt' = refcnt - 1
  /\ WGoto(w, Checked(refcnt # 0, IF w = Owner THEN "wipe_release" ELSE "gone"))
  /\ UNCHANGED <<pending, key, freed, jpc, parent, seen, wkey, until>>

Wait(w) ==
  \/ WaitRetain(w) \/ WaitGet(w) \/ WaitLoad(w) \/ WaitCond(w) \/ WaitSleep(w)
  \/ WaitRelease(w)

-----------------------------------------------------------------------------
(* thr_syn_wipe *)

\* The owner knows that the other waits have begun.
WipeRelease ==
  /\ wpc[Owner] = "wipe_release"
  /\ \A w \in Waiters : wpc[w] # "out"
  /\ refcnt' = refcnt - 1
  /\ WGoto(Owner, Checked(refcnt # 0, "wipe_spin"))
  /\ UNCHANGED <<pending, key, freed, jpc, parent, seen, wkey, until>>

\* Mutant of WipeSpin: frees the syn without waiting.
WipeSpinMut ==
  /\ wpc[Owner] = "wipe_spin"
  /\ freed' = TRUE
  /\ WGoto(Owner, "gone")
  /\ UNCHANGED <<pending, refcnt, key, jpc, parent, seen, wkey, until>>

\* Busy loop until the last reference is gone; then the caller frees the syn.
WipeSpin ==
  /\ wpc[Owner] = "wipe_spin"
  /\ refcnt = 0
  /\ freed' = TRUE
  /\ WGoto(Owner, "gone")
  /\ UNCHANGED <<pending, refcnt, key, jpc, parent, seen, wkey, until>>

thr_syn_wipe == WipeRelease \/ WipeSpin

-----------------------------------------------------------------------------
Next ==
  \/ \E j \in Jobs : PrepareRetain(j) \/ Job(j)
  \/ \E w \in Waiters : Wait(w)
  \/ thr_syn_wipe

Spec == Init /\ [][Next]_vars

\* Threads run, jobs return, and the waits that are to be made are made.
Fairness ==
  /\ \A j \in Jobs : WF_vars(Job(j))
  /\ \A w \in Waiters : WF_vars(Wait(w))
  /\ WF_vars(thr_syn_wipe)

FairSpec == Spec /\ Fairness

-----------------------------------------------------------------------------
(* Properties *)

\* When the syn is freed nobody will touch it again: every job that was
\* queued is past its last access, and every wait is over.
NoUseAfterFree ==
  freed =>
    /\ \A j \in Jobs : jpc[j] \in {"new", "done"}
    /\ \A w \in Waiters : wpc[w] = "gone"

\* A plain wait returns when every job queued has run, the ones queued by
\* jobs included: pending does not reach zero between a job and its children.
WaitMeansDone ==
  \A w \in Waiters \ until :
     wpc[w] \in {"release", "wipe_release", "wipe_spin", "gone"} =>
        \A j \in Jobs : jpc[j] \notin {"retained", "run"}

\* The assertions of the code hold: references are taken while one is held,
\* counters do not go below zero, and a condition that is still false implies
\* that jobs are pending.
AssertsHold ==
  /\ \A j \in Jobs : jpc[j] # "assert"
  /\ \A w \in Waiters : wpc[w] # "assert"

\* The counters of a syn say what they are taken for.
CountsSound == WaitMeansDone /\ AssertsHold

\* Every wait returns, and once its owner has begun to wait the syn is freed.
WipeEnds == wpc[Owner] # "out" ~> freed
=============================================================================
