------------------------------- MODULE ThrPool -------------------------------
(***************************************************************************)
(* The elastic pool of threads (core/thr-job.blk).  Threads are numbered;  *)
(* the ones below target_threads_count take jobs, the next one is kept at  *)
(* hand (in quarantine), the ones above die after five seconds.  A thread  *)
(* that blocks raises the target and creates or revives the threads that   *)
(* are then missing.  Thread 0 only posts jobs and sleeps in epoll_wait.   *)
(*                                                                         *)
(* A deque (ThrDeque) is the set of its jobs.  The key of the event count  *)
(* _G.ec (ThrEvc) is reduced to the set of the threads whose key is still  *)
(* the current one.  The other event counts are waited on with a timeout,  *)
(* or at the barrier of a fork.                                            *)
(*                                                                         *)
(* thr_shutdown is taken with jobs that wait for no other: a job that waits *)
(* has raised the target, which thr_shutdown sets back, and the assertion   *)
(* of thr_exit_blocking_syscall then fails.                                *)
(***************************************************************************)
EXTENDS Integers, FiniteSets, SequencesExt

CONSTANTS thr_parallelism_g,
          MaxId,      \* bound: the highest number of a thread
          Jobs,
          NoJob,
          Roots,      \* the jobs that thread 0 posts
          Loads       \* what there is to do, one of these records:
                      \* kids, the jobs that each job schedules;
                      \* waits, whether it waits for them;
                      \* els, a bound: how often thread 0 enters epoll_wait;
                      \* expire, whether five seconds can pass;
                      \* shut, whether thread 0 calls thr_shutdown

Ids == 0..MaxId

ASSUME ParallelismAssumption == thr_parallelism_g \in 2..MaxId
ASSUME JobsAssumption ==
  /\ NoJob \notin Jobs /\ Roots \subseteq Jobs
  /\ Loads \subseteq [kids : [Jobs -> SUBSET Jobs], waits : BOOLEAN, els : Nat,
                      expire : BOOLEAN, shut : BOOLEAN]

VARIABLES target,     \* _G.target_threads_count
          count,      \* _G.threads_count
          count_gen,  \* _G.threads_count_gen
          gen,        \* _G.threads_gen
          lock,       \* who holds _G.threads_lock, MaxId + 1 for nobody
          alive,      \* the threads whose info->alive is set
          dup,        \* a thread was created on an info that has one
          dq,         \* the jobs in each thread's deque
          sleepers,   \* the threads asleep on _G.ec
          fresh,      \* the threads whose key is the one of _G.ec
          pc,         \* each thread's place; "none" when it does not exist
          job,        \* the job each thread runs
          own,        \* the threads whose job comes from their own deque
          fork,       \* the locals of thr_fork_threads, under the lock
          done,       \* the jobs that have run
          stopping,   \* _G.stopping
          walk,       \* the thread that thr_shutdown waits for
          ending,     \* the threads that drain their deque in thr_info_cleanup
          els,        \* how often thread 0 has entered epoll_wait
          load        \* the member of Loads at hand

vars == <<target, count, count_gen, gen, lock, alive, dup, dq, sleepers, fresh,
          pc, job, own, fork, done, stopping, walk, ending, els, load>>
end == <<stopping, walk, ending>>
pool == <<target, count, count_gen, gen, lock, alive, dup, fork, end>>
ec == <<sleepers, fresh>>
work == <<dq, ec, job, own, done, els>>

Nobody == MaxId + 1


\* thr_initialize, up to the end of its thr_fork_threads: the threads are at
\* the end of the start barrier.
Init ==
  /\ target = thr_parallelism_g
  /\ count = thr_parallelism_g + 1
  /\ count_gen = 1
  /\ gen = 1
  /\ lock = Nobody
  /\ alive = 0..thr_parallelism_g
  /\ dup = FALSE
  /\ dq = [t \in Ids |-> {}]
  /\ sleepers = {}
  /\ fresh = {}
  /\ pc = [t \in Ids |-> CASE t = 0 -> "free"
                           [] t \in 1..thr_parallelism_g -> "loop"
                           [] OTHER -> "none"]
  /\ job = [t \in Ids |-> NoJob]
  /\ own = {}
  /\ fork = [gen |-> 0, target |-> 0]
  /\ done = {}
  /\ stopping = FALSE
  /\ walk = 0
  /\ ending = {}
  /\ els = 0
  /\ load \in Loads

Goto(t, l) == pc' = [pc EXCEPT ![t] = l]

\* thr_ec_signal(&_G.ec): every key is old, and one sleeper wakes up.
SignalEc ==
  /\ fresh' = {}
  /\ IF sleepers = {} THEN UNCHANGED sleepers
     ELSE \E t \in sleepers : sleepers' = sleepers \ {t}

\* Each actor's other variables stay as they are.
OnlyMoves == UNCHANGED <<pool, work>>

-----------------------------------------------------------------------------
(* thr_job_main *)

Active(t) == target > t \/ stopping

\* A thread that is not active passes the signal it may have received on.
LoopTop(t) ==
  /\ pc[t] = "loop"
  /\ ~stopping
  /\ \/ /\ Active(t)
        /\ Goto(t, "work")
        /\ UNCHANGED ec
     \/ /\ ~Active(t)
        /\ Goto(t, "quarantine")
        /\ SignalEc
  /\ UNCHANGED <<pool, dq, job, own, done, els>>

\* thr_sleep_until returns 0.
QuarantineEnd(t) ==
  /\ pc[t] = "quarantine"
  /\ Active(t)
  /\ Goto(t, "work")
  /\ OnlyMoves

\* thr_sleep_until returns -1: the condition was false at the end of the delay.
QuarantineTimeout(t) ==
  /\ pc[t] = "quarantine"
  /\ load.expire
  /\ ~Active(t)
  /\ Goto(t, "expired")
  /\ OnlyMoves

Expired(t) ==
  /\ pc[t] = "expired"
  /\ Goto(t, IF target < t THEN "dying" ELSE "loop")
  /\ OnlyMoves

\* stopping is set: thr_info_cleanup, whose dequeue_all is set, runs the jobs of
\* the thread's own deque.
LoopEnd(t) ==
  /\ pc[t] = "loop"
  /\ stopping
  /\ ending' = ending \cup {t}
  /\ Goto(t, "cleanup")
  /\ UNCHANGED <<target, count, count_gen, gen, lock, alive, dup, fork, stopping,
                 walk, work>>

\* The end of thr_info_cleanup; the deque of an expired thread is left to the
\* others.
Die(t) ==
  /\ pc[t] = "dying"
  /\ alive' = alive \ {t}
  /\ Goto(t, "none")
  /\ UNCHANGED <<target, count, count_gen, gen, lock, dup, fork, end, work>>

\* Takes a job of the deque of u.
TakeOf(t, u) ==
  /\ \E j \in dq[u] :
        /\ dq' = [dq EXCEPT ![u] = @ \ {j}]
        /\ job' = [job EXCEPT ![t] = j]
        /\ own' = IF u = t THEN own \cup {t} ELSE own \ {t}
  /\ Goto(t, "run")

\* Takes a job of its own deque, or of another's when its own is empty.
Take(t) == \E u \in IF dq[t] # {} THEN {t} ELSE Ids : TakeOf(t, u)

\* Mutant of Cleanup: dequeue_all is not set, the deque is not drained.
CleanupMut(t) ==
  /\ pc[t] = "cleanup"
  /\ Goto(t, "dying")
  /\ UNCHANGED <<pool, work>>

\* thr_job_dequeue in thr_info_cleanup.
Cleanup(t) ==
  /\ pc[t] = "cleanup"
  /\ \/ TakeOf(t, t)
     \/ dq[t] = {} /\ Goto(t, "dying") /\ UNCHANGED <<dq, job, own>>
  /\ UNCHANGED <<pool, ec, done, els>>

Empty == \A u \in Ids : dq[u] = {}

\* thr_job_dequeue and the first thr_job_steal.
Work(t) ==
  /\ pc[t] = "work"
  /\ \/ Take(t)
     \/ Empty /\ Goto(t, "get") /\ UNCHANGED <<dq, job, own>>
  /\ UNCHANGED <<pool, ec, done, els>>

Get(t) ==
  /\ pc[t] = "get"
  /\ fresh' = fresh \cup {t}
  /\ Goto(t, "steal")
  /\ UNCHANGED <<pool, dq, sleepers, job, own, done, els>>

\* The thr_job_steal after thr_ec_get, and the test of stopping.
Steal(t) ==
  /\ pc[t] = "steal"
  /\ \/ Take(t)
     \/ /\ Empty
        /\ Goto(t, IF stopping THEN "loop" ELSE "wait")
        /\ UNCHANGED <<dq, job, own>>
  /\ UNCHANGED <<pool, ec, done, els>>

\* thr_ec_wait(&_G.ec, key)
EcWait(t) ==
  /\ pc[t] = "wait"
  /\ IF t \in fresh
       THEN sleepers' = sleepers \cup {t} /\ Goto(t, "asleep")
       ELSE UNCHANGED sleepers /\ Goto(t, "loop")
  /\ UNCHANGED <<pool, dq, fresh, job, own, done, els>>

EcWoken(t) ==
  /\ pc[t] = "asleep"
  /\ t \notin sleepers
  /\ Goto(t, "loop")
  /\ OnlyMoves

thr_job_main(t) ==
  \/ LoopTop(t) \/ QuarantineEnd(t) \/ Expired(t) \/ Work(t) \/ Get(t)
  \/ Steal(t) \/ EcWait(t) \/ EcWoken(t) \/ LoopEnd(t) \/ Cleanup(t) \/ Die(t)

-----------------------------------------------------------------------------
(* thr_syn_schedule and job_run *)

Scheduled == done \cup UNION {dq[u] : u \in Ids} \cup {job[u] : u \in Ids}

\* The entry is in the deque; the signal comes next.
Publish(t, j, l) ==
  /\ dq' = [dq EXCEPT ![t] = @ \cup {j}]
  /\ Goto(t, l)
  /\ UNCHANGED <<pool, ec, job, own, done, els>>

Schedule(t) ==
  /\ pc[t] = "run"
  /\ \E j \in load.kids[job[t]] \ Scheduled : Publish(t, j, "signal")

Signal(t) ==
  /\ pc[t] = "signal"
  /\ SignalEc
  /\ Goto(t, IF job[t] = NoJob THEN "free" ELSE "run")
  /\ UNCHANGED <<pool, dq, job, own, done, els>>

KidsDone(t) == load.kids[job[t]] \subseteq done

\* The job has nothing to wait for (any more).  A thread that is not active
\* any more still empties its deque.
JobDone(t) ==
  /\ pc[t] = "run"
  /\ load.kids[job[t]] \subseteq Scheduled
  /\ load.waits => KidsDone(t)
  /\ done' = done \cup {job[t]}
  /\ job' = [job EXCEPT ![t] = NoJob]
  /\ own' = own \ {t}
  /\ Goto(t, CASE t \in ending -> "cleanup"
               [] t \in own \ ending -> "work"
               [] OTHER -> "loop")
  /\ UNCHANGED <<pool, dq, ec, els>>

-----------------------------------------------------------------------------
(* thr_syn_wait_until_flags in a job *)

Retarget(n) ==
  /\ target' = target + n
  /\ UNCHANGED <<count, count_gen, gen, lock, alive, dup, fork, end, work>>

\* The first 100 ms count as blocked, but no thread is created.
WaitBegin(t) ==
  /\ pc[t] = "run"
  /\ load.waits
  /\ load.kids[job[t]] \subseteq Scheduled
  /\ ~KidsDone(t)
  /\ Retarget(1)
  /\ Goto(t, "poll")

\* The jobs are done, or they were not at the end of the delay.
WaitPolled(t) ==
  /\ pc[t] = "poll"
  /\ Retarget(-1)
  /\ \/ KidsDone(t) /\ Goto(t, "run")
     \/ Goto(t, "enter")

WaitEnd(t) ==
  /\ pc[t] = "blocked"
  /\ KidsDone(t)
  /\ Retarget(-1)
  /\ Goto(t, "run")

-----------------------------------------------------------------------------
(* thr_enter_blocking_syscall and thr_fork_threads *)

EnterTarget(t) ==
  /\ pc[t] = "enter"
  /\ Retarget(1)
  /\ Goto(t, "enter_gen")

EnterGen(t) ==
  /\ pc[t] = "enter_gen"
  /\ count_gen' = count_gen + 1
  /\ Goto(t, "lock")
  /\ UNCHANGED <<target, count, gen, lock, alive, dup, fork, end, work>>

\* spin_lock, and the generation that the fork will satisfy.
ForkBegin(t) ==
  /\ pc[t] = "lock"
  /\ lock = Nobody
  /\ lock' = t
  /\ fork' = [fork EXCEPT !.gen = count_gen]
  /\ Goto(t, IF gen = count_gen \/ stopping THEN "unlock" ELSE "fork")
  /\ UNCHANGED <<target, count, count_gen, gen, alive, dup, end, work>>

ForkTarget(t) ==
  /\ pc[t] = "fork"
  /\ fork' = [fork EXCEPT !.target = target + 1]
  /\ Goto(t, "create")
  /\ UNCHANGED <<target, count, count_gen, gen, lock, alive, dup, end, work>>

\* The threads that the walk over the list and the loop after it create.
Missing == {u \in Ids : u < fork.target /\ (u >= count \/ u \notin alive)}

ForkCreate(t) ==
  /\ pc[t] = "create"
  /\ pc' = [u \in Ids |-> IF u = t THEN "barrier"
                          ELSE IF u \in Missing THEN "born" ELSE pc[u]]
  /\ dup' = (dup \/ \E u \in Missing : pc[u] # "none")
  /\ count' = IF count < fork.target THEN fork.target ELSE count
  /\ UNCHANGED <<target, count_gen, gen, lock, alive, fork, end, work>>

\* thr_info_init in a new thread, up to its wait for the barrier.
Born(t) ==
  /\ pc[t] = "born"
  /\ alive' = alive \cup {t}
  /\ Goto(t, "started")
  /\ UNCHANGED <<target, count, count_gen, gen, lock, dup, fork, end, work>>

\* Mutant of ForkBarrier: does not wait for the threads to be alive.
ForkBarrierMut(t) ==
  /\ pc[t] = "barrier"
  /\ pc' = [u \in Ids |-> IF u = t THEN "unlock"
                          ELSE IF pc[u] = "started" THEN "loop" ELSE pc[u]]
  /\ gen' = fork.gen
  /\ UNCHANGED <<target, count, count_gen, lock, alive, dup, fork, end, work>>

\* start_bar_main has its expected key; start_bar_thr lets the threads go.
ForkBarrier(t) ==
  /\ pc[t] = "barrier"
  /\ \A u \in Ids : pc[u] # "born"
  /\ pc' = [u \in Ids |-> IF u = t THEN "unlock"
                          ELSE IF pc[u] = "started" THEN "loop" ELSE pc[u]]
  /\ gen' = fork.gen
  /\ UNCHANGED <<target, count, count_gen, lock, alive, dup, fork, end, work>>

ForkEnd(t) ==
  /\ pc[t] = "unlock"
  /\ lock' = Nobody
  /\ Goto(t, IF t = 0 THEN "epoll" ELSE "blocked")
  /\ UNCHANGED <<target, count, count_gen, gen, alive, dup, fork, end, work>>

thr_fork_threads(t) ==
  ForkTarget(t) \/ ForkCreate(t) \/ ForkBarrier(t) \/ ForkEnd(t)

thr_enter_blocking_syscall(t) ==
  EnterTarget(t) \/ EnterGen(t) \/ ForkBegin(t) \/ thr_fork_threads(t)

JobStep(t) ==
  \/ Schedule(t) \/ Signal(t) \/ JobDone(t)
  \/ WaitBegin(t) \/ WaitPolled(t) \/ WaitEnd(t)

Thread(t) ==
  /\ \/ thr_job_main(t) \/ JobStep(t) \/ thr_enter_blocking_syscall(t)
     \/ Born(t)
  /\ UNCHANGED load

-----------------------------------------------------------------------------
(* Thread 0: posts jobs, and sleeps in el_loop_fds_poll *)

Post ==
  /\ pc[0] = "free"
  /\ \E j \in Roots \ Scheduled : Publish(0, j, "signal")

ElEnter ==
  /\ pc[0] = "free"
  /\ els < load.els
  /\ els' = els + 1
  /\ Goto(0, "enter")
  /\ UNCHANGED <<pool, dq, ec, job, own, done>>

\* epoll_wait returns; thr_exit_blocking_syscall.
ElExit ==
  /\ pc[0] = "epoll"
  /\ Retarget(-1)
  /\ Goto(0, "free")

-----------------------------------------------------------------------------
(* thr_shutdown *)

\* No thread is asleep on _G.ec, and every key is old.
BroadcastEc == fresh' = {} /\ sleepers' = {}

Stop ==
  /\ pc[0] = "free"
  /\ load.shut
  /\ stopping' = TRUE
  /\ Goto(0, "stop_target")
  /\ UNCHANGED <<target, count, count_gen, gen, lock, alive, dup, fork, walk,
                 ending, work>>

StopTarget ==
  /\ pc[0] = "stop_target"
  /\ target' = thr_parallelism_g
  /\ Goto(0, "stop_ec")
  /\ UNCHANGED <<count, count_gen, gen, lock, alive, dup, fork, end, work>>

StopEc ==
  /\ pc[0] = "stop_ec"
  /\ BroadcastEc
  /\ walk' = 1
  /\ Goto(0, "walk")
  /\ UNCHANGED <<target, count, count_gen, gen, lock, alive, dup, fork, stopping,
                 ending, dq, job, own, done, els>>

\* The walk spins, with a broadcast each time, on a thread that is alive.  At its
\* end thread 0 cleans its own info up.
Walk ==
  /\ pc[0] = "walk"
  /\ \/ /\ walk \in alive
        /\ BroadcastEc
        /\ UNCHANGED <<walk, ending, pc>>
     \/ /\ walk < count /\ walk \notin alive
        /\ walk' = walk + 1
        /\ UNCHANGED <<ec, ending, pc>>
     \/ /\ walk = count
        /\ ending' = ending \cup {0}
        /\ Goto(0, "cleanup")
        /\ UNCHANGED <<ec, walk>>
  /\ UNCHANGED <<target, count, count_gen, gen, lock, alive, dup, fork, stopping,
                 dq, job, own, done, els>>

\* The end of the clean up, and thr_wipe frees the infos of all the threads.
ShutdownEnd ==
  /\ pc[0] = "dying"
  /\ alive' = alive \ {0}
  /\ Goto(0, "freed")
  /\ UNCHANGED <<target, count, count_gen, gen, lock, dup, fork, end, work>>

thr_shutdown == Stop \/ StopTarget \/ StopEc \/ Walk \/ ShutdownEnd

Thr0 ==
  /\ \/ Post \/ ElExit \/ thr_enter_blocking_syscall(0)
     \/ Schedule(0) \/ Signal(0) \/ JobDone(0) \/ Cleanup(0) \/ thr_shutdown
  /\ UNCHANGED load

-----------------------------------------------------------------------------
Next ==
  \/ \E t \in Ids \ {0} : Thread(t)
  \/ \E t \in Ids \ {0} : QuarantineTimeout(t) /\ UNCHANGED load
  \/ Thr0
  \/ ElEnter /\ UNCHANGED load

Spec == Init /\ [][Next]_vars

\* Threads run, the spin lock is taken in the end, and epoll_wait returns.
Fairness ==
  /\ \A t \in Ids \ {0} : WF_vars(Thread(t))
  /\ WF_vars(Thr0)

FairSpec == Spec /\ Fairness

-----------------------------------------------------------------------------
(* Properties *)

\* An info never has two threads: thr_fork_threads takes a thread whose alive
\* flag is not set for a dead one, not for one that is starting.
OneThreadPerInfo == ~dup

\* The threads that are blocked, thread 0 in epoll_wait included.
Blocked == {t \in Ids : pc[t] \in {"blocked", "epoll"}}

\* A thread is blocked only when the pool has a thread at hand on top of the
\* ones that the threads blocked call for.
EnoughThreads == count > thr_parallelism_g + Cardinality(Blocked)

\* Nobody is on the way to take a job, or to become able to.
Stalled ==
  \A t \in Ids : \/ pc[t] \in {"none", "free", "freed", "epoll", "asleep",
                               "blocked"}
                 \/ pc[t] = "quarantine" /\ ~Active(t)

\* No job is left in a deque by threads that all sleep, wait for jobs or are
\* not needed: a signal received by a thread that is not active any more is
\* passed on, and a job that waits is replaced by an active thread.
NoStall == Stalled /\ sleepers = {t \in Ids : pc[t] = "asleep"} => Empty

\* thr_shutdown frees the infos when no thread is left to use one: no fork
\* revives a thread behind the walk.
FreedLast == pc[0] = "freed" => \A t \in Ids \ {0} : pc[t] = "none"

\* The pool has the threads it needs, each with its own info, which is freed after
\* its thread has ended, and they do not all rest while a job is left.
Staffed == OneThreadPerInfo /\ EnoughThreads /\ NoStall /\ FreedLast

\* Every job that was posted, and every job that one of them schedules, has run.
JobsRun == Scheduled \cap Jobs \subseteq done

\* thr_shutdown, once begun, has returned: every thread has seen stopping, whether
\* it slept for a job or in quarantine, ran one or was being created.
ShutdownEnds == stopping => pc[0] = "freed"

\* The pool settles again and again: no job stays in a deque for ever, not even one
\* that is there when the pool is shut down, and the shutdown ends.  Both stopping
\* and "freed" are stable.
PoolLive == []<>(JobsRun /\ ShutdownEnds)
=============================================================================
