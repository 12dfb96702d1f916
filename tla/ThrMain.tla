------------------------------ MODULE ThrMain -------------------------------
(***************************************************************************)
(* The main queue (core/thr-job.blk): a serial queue that thread 0 alone   *)
(* drains, from its event loop (thr_on_el) or while it waits for a syn     *)
(* (thr_syn_wait_until_flags), and how other threads wake thread 0 up,     *)
(* with the event count thr0_cur_ec_g points to or with el_wake_fire.      *)
(*                                                                         *)
(* The producers are jobs of the pool that belong to one syn; they post    *)
(* jobs on the main queue and may wait for them.  Thread 0 waits for the   *)
(* syn at most once, from a callback of the event loop or from a job of    *)
(* the main queue.                                                         *)
(*                                                                         *)
(* The MPSC queue (Mpsc) is reduced to its phases: empty; "cut" between    *)
(* the exchange of a first push and its link; ready; being drained.  The   *)
(* event count (ThrEvc) is reduced to its key: a wait with an old key      *)
(* returns at once.                                                        *)
(***************************************************************************)
EXTENDS Integers, Sequences, FiniteSets

CONSTANTS Producers,
          MaxPush,    \* bound: jobs posted on the main queue
          WaitFrom    \* where thread 0 may call thr_syn_wait: "el", "job"


VARIABLES mq,       \* the producers of the jobs in the main queue, in order
          phase,    \* the phase of the main queue
          cur_ec,   \* thr0_cur_ec_g: is it &syn->ec?
          key,      \* syn->ec.key
          pending,  \* the producers accounted in syn->pending
          woken,    \* the eventfd of _G.wakeel is readable
          pushed,   \* how many jobs have been posted
          ppc,      \* each producer's place
          sync,     \* the producers inside thr_queue_sync
          first,    \* the producers whose push found the queue empty
          tpc,      \* thread 0's place
          tkey,     \* its 'key' in thr_syn_wait_until_flags
          dret,     \* where it goes when it has drained the queue
          wret      \* where it goes when it has waited; "none" before it does

pvars == <<ppc, sync, first>>
tvars == <<tpc, tkey, dret, wret>>
vars == <<mq, phase, cur_ec, key, pending, woken, pushed, pvars, tvars>>

Init ==
  /\ mq = <<>> /\ phase = "empty"
  /\ cur_ec = FALSE /\ key = 0 /\ pending = Producers
  /\ woken = FALSE
  /\ pushed = 0
  /\ ppc = [p \in Producers |-> "run"]
  /\ sync = {} /\ first = {}
  /\ tpc = "before" /\ tkey = 0 /\ dret = "poll" /\ wret = "none"

PGoto(p, l) == ppc' = [ppc EXCEPT ![p] = l]

\* thr_ec_broadcast(&syn->ec): thread 0 does not sleep on the old key.
Broadcast ==
  /\ key' = key + 1
  /\ tpc' = IF tpc = "asleep" THEN "w_cas" ELSE tpc
  /\ UNCHANGED <<tkey, dret, wret>>

-----------------------------------------------------------------------------
(* A producer *)

\* thr_syn_queue, thr_queue_sync on the main queue: the exchange of the tail.
Push(p) ==
  /\ ppc[p] = "run"
  /\ pushed < MaxPush
  /\ pushed' = pushed + 1
  /\ mq' = Append(mq, p)
  /\ IF phase = "empty"
       THEN phase' = "cut" /\ first' = first \cup {p}
       ELSE UNCHANGED <<phase, first>>
  /\ sync' \in {sync, sync \cup {p}}
  /\ PGoto(p, "link")
  /\ UNCHANGED <<cur_ec, key, pending, woken, tvars>>

\* What follows the push or the wake-up.
Pushed(p) == IF p \in sync THEN "wait" ELSE "run"

PushLink(p) ==
  /\ ppc[p] = "link"
  /\ IF p \in first
       THEN phase' = "ready" /\ PGoto(p, "xchg")
       ELSE PGoto(p, Pushed(p)) /\ UNCHANGED phase
  /\ UNCHANGED <<mq, cur_ec, key, pending, woken, pushed, sync, first, tvars>>

\* Mutant of WakeXchg: the event loop is never woken up.
WakeXchgMut(p) ==
  /\ ppc[p] = "xchg"
  /\ first' = first \ {p}
  /\ cur_ec' = FALSE
  /\ PGoto(p, IF cur_ec THEN "broadcast" ELSE Pushed(p))
  /\ UNCHANGED <<mq, phase, key, pending, woken, pushed, sync, tvars>>

\* thr_wakeup_thr0: take thr0_cur_ec_g, or wake the event loop up.
WakeXchg(p) ==
  /\ ppc[p] = "xchg"
  /\ first' = first \ {p}
  /\ cur_ec' = FALSE
  /\ IF cur_ec
       THEN PGoto(p, "broadcast") /\ UNCHANGED woken
       ELSE PGoto(p, Pushed(p)) /\ woken' = TRUE
  /\ UNCHANGED <<mq, phase, key, pending, pushed, sync, tvars>>

WakeBroadcast(p) ==
  /\ ppc[p] = "broadcast"
  /\ Broadcast
  /\ PGoto(p, "restore")
  /\ UNCHANGED <<mq, phase, cur_ec, pending, woken, pushed, sync, first>>

WakeRestore(p) ==
  /\ ppc[p] = "restore"
  /\ cur_ec' = TRUE
  /\ PGoto(p, Pushed(p))
  /\ UNCHANGED <<mq, phase, key, pending, woken, pushed, sync, first, tvars>>

\* thr_queue_sync's own wait: its job has run.
SyncReturn(p) ==
  /\ ppc[p] = "wait"
  /\ p \notin sync
  /\ PGoto(p, "run")
  /\ UNCHANGED <<mq, phase, cur_ec, key, pending, woken, pushed, sync, first,
                 tvars>>

\* The job of the pool returns: thr_syn__job_done.
JobDone(p) ==
  /\ ppc[p] = "run"
  /\ pending' = pending \ {p}
  /\ PGoto(p, "done")
  /\ IF pending = {p} THEN Broadcast ELSE UNCHANGED <<key, tvars>>
  /\ UNCHANGED <<mq, phase, cur_ec, woken, pushed, sync, first>>

Producer(p) ==
  \/ Push(p) \/ PushLink(p) \/ WakeXchg(p) \/ WakeBroadcast(p)
  \/ WakeRestore(p) \/ SyncReturn(p) \/ JobDone(p)

-----------------------------------------------------------------------------
(* Thread 0: the event loop and thr_queue_drain *)

looks_empty == phase # "ready"

TGoto(l) == tpc' = l /\ UNCHANGED <<tkey, dret, wret>>

\* thr_queue_drain up to mpsc_queue_drain_start, if it has something to do.
Drain(ret) ==
  IF looks_empty
    THEN TGoto(ret) /\ UNCHANGED phase
    ELSE /\ phase' = "drain" /\ tpc' = "drain" /\ dret' = ret
         /\ UNCHANGED <<tkey, wret>>

\* thr_on_el, as the hook that runs before epoll_wait.
ElBefore ==
  /\ tpc = "before"
  /\ Drain("poll")
  /\ UNCHANGED <<mq, cur_ec, key, pending, woken, pushed, pvars>>

\* The eventfd is readable: el_wake_on_event reads it and calls thr_on_el.
ElWake ==
  /\ tpc = "poll"
  /\ woken
  /\ woken' = FALSE
  /\ Drain("before")
  /\ UNCHANGED <<mq, cur_ec, key, pending, pushed, pvars>>

CallWait(from, ret) ==
  /\ from \in WaitFrom
  /\ wret = "none"
  /\ tpc' = "w_cond" /\ wret' = ret
  /\ UNCHANGED <<tkey, dret>>

\* A callback of the event loop calls thr_syn_wait.
ElWait ==
  /\ tpc = "poll"
  /\ CallWait("el", "before")
  /\ UNCHANGED <<mq, phase, cur_ec, key, pending, woken, pushed, pvars>>

\* thr_queue_drain runs a job, which ends a thr_queue_sync or calls
\* thr_syn_wait.
DrainJob ==
  /\ tpc = "drain"
  /\ mq # <<>>
  /\ mq' = Tail(mq)
  /\ IF Head(mq) \in sync THEN sync' = sync \ {Head(mq)} ELSE UNCHANGED sync
  /\ UNCHANGED tvars \/ CallWait("job", "drain")
  /\ UNCHANGED <<phase, cur_ec, key, pending, woken, pushed, ppc, first>>

DrainEnd ==
  /\ tpc = "drain"
  /\ mq = <<>>
  /\ phase' = "empty"
  /\ TGoto(dret)
  /\ UNCHANGED <<mq, cur_ec, key, pending, woken, pushed, pvars>>

-----------------------------------------------------------------------------
(* Thread 0: thr_syn_wait_until_flags *)

syn_cond == pending = {}
thr_main_cond == syn_cond \/ ~looks_empty

\* Is it over?  Is there something to drain?
WaitCond ==
  /\ tpc = "w_cond"
  /\ IF syn_cond THEN TGoto(wret) /\ UNCHANGED phase
     ELSE IF looks_empty THEN TGoto("w_store") /\ UNCHANGED phase
     ELSE Drain("w_cond")
  /\ UNCHANGED <<mq, cur_ec, key, pending, woken, pushed, pvars>>

WaitStore ==
  /\ tpc = "w_store"
  /\ cur_ec' = TRUE
  /\ TGoto("w_get")
  /\ UNCHANGED <<mq, phase, key, pending, woken, pushed, pvars>>

WaitGet ==
  /\ tpc = "w_get"
  /\ tkey' = key
  /\ tpc' = "w_poll"
  /\ UNCHANGED <<dret, wret>>
  /\ UNCHANGED <<mq, phase, cur_ec, key, pending, woken, pushed, pvars>>

\* Mutant of WaitPoll: nothing is checked after thr_ec_get.
WaitPollMut ==
  /\ tpc = "w_poll"
  /\ TGoto("w_block")
  /\ UNCHANGED <<mq, phase, cur_ec, key, pending, woken, pushed, pvars>>

\* The check, then thr_sleep_until: the condition is looked at every 10 ms and
\* whenever the event count is signalled, and for the last time after 100 ms.
WaitPoll ==
  /\ tpc = "w_poll"
  /\ TGoto(IF thr_main_cond THEN "w_cas" ELSE "w_block")
  /\ UNCHANGED <<mq, phase, cur_ec, key, pending, woken, pushed, pvars>>

\* thr_ec_wait, without a timeout.
WaitBlock ==
  /\ tpc = "w_block"
  /\ TGoto(IF tkey = key THEN "asleep" ELSE "w_cas")
  /\ UNCHANGED <<mq, phase, cur_ec, key, pending, woken, pushed, pvars>>

\* Mutant of WaitCas: does not wait for a producer that has taken the pointer.
WaitCasMut ==
  /\ tpc = "w_cas"
  /\ cur_ec' = FALSE
  /\ TGoto("w_cond")
  /\ UNCHANGED <<mq, phase, key, pending, woken, pushed, pvars>>

\* Take thr0_cur_ec_g back, once nobody else has it.
WaitCas ==
  /\ tpc = "w_cas"
  /\ cur_ec
  /\ cur_ec' = FALSE
  /\ TGoto("w_cond")
  /\ UNCHANGED <<mq, phase, key, pending, woken, pushed, pvars>>

thr_syn_wait ==
  \/ WaitCond \/ WaitStore \/ WaitGet \/ WaitPoll \/ WaitBlock \/ WaitCas

-----------------------------------------------------------------------------
Thr0 == ElBefore \/ ElWake \/ DrainJob \/ DrainEnd \/ thr_syn_wait

Next == Thr0 \/ ElWait \/ \E p \in Producers : Producer(p)

Spec == Init /\ [][Next]_vars

\* Threads run and the jobs of the pool return.
Fairness == WF_vars(Thr0) /\ \A p \in Producers : WF_vars(Producer(p))

FairSpec == Spec /\ Fairness

-----------------------------------------------------------------------------
(* Properties *)

\* When thread 0 has left its wait, and may have freed the syn, nobody has a
\* pointer to its event count any more.
NoDanglingEc ==
  cur_ec \/ (\E p \in Producers : ppc[p] \in {"broadcast", "restore"}) =>
     tpc \in {"w_get", "w_poll", "w_block", "asleep", "w_cas"}

\* No two threads are in thr_wakeup_thr0 at the same time once thread 0 has
\* begun to wait, and it does not wait in a job of the main queue.
Calm ==
  \/ wret = "none"
  \/ /\ wret # "drain"
     /\ \A p, q \in Producers :
           ppc[p] \in {"broadcast", "restore"} /\ ppc[q] = "xchg" => p = q

\* Every job posted on the main queue is run, by the event loop or by a wait of
\* thread 0 that no two wake-ups disturb.
MainQueueRuns == []Calm => ((mq # <<>>) ~> (mq = <<>>))

\* thr-job.h, THR_SYN_WAIT_NO_MAIN_DRAIN: without that flag a wait of thread 0
\* does not deadlock on jobs that depend on the main queue.
WaitReturns == (tpc = "w_cond") ~> (tpc = wret)

\* It does not when wake-ups do not overlap.
CalmWaitReturns == []Calm => WaitReturns
=============================================================================
