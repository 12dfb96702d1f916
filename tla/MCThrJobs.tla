----------------------------- MODULE MCThrJobs -----------------------------
(* Two components in one run, each alone: the deque of a thread, with two  *)
(* thieves and fewer entries than jobs so that entries are reused while a  *)
(* slow thief still reads one; and the main queue with thread 0 and two    *)
(* producers.  The variables of the one that is not at hand keep their     *)
(* initial values.                                                         *)
EXTENDS ThrDeque
CONSTANTS p1, p2
VARIABLES which,
          mq, phase, cur_ec, key, pending, woken, pushed, ppc, sync, first, tpc, tkey,
          dret, wret

M == INSTANCE ThrMain WITH Producers <- {p1, p2}, MaxPush <- 4,
                           WaitFrom <- {"el", "job"}

mainvars == <<mq, phase, cur_ec, key, pending, woken, pushed, ppc, sync, first, tpc,
              tkey, dret, wret>>
mcvars == <<which, vars, mainvars>>

MCInit == which \in {"deque", "main"} /\ Init /\ M!Init

MCNext ==
  \/ which = "deque" /\ Next /\ UNCHANGED <<which, mainvars>>
  \/ which = "main" /\ M!Next /\ UNCHANGED <<which, vars>>

\* The fairness of ThrDeque and of ThrMain.
MCFairness ==
  /\ WF_vars(which = "deque" /\ thr_syn_schedule /\ pc[Owner] # "idle")
  /\ WF_vars(which = "deque" /\ thr_job_dequeue)
  /\ \A t \in Threads : WF_vars(which = "deque" /\ thr_run_deque_entry(t))
  /\ WF_mainvars(which = "main" /\ M!Thr0)
  /\ \A p \in {p1, p2} : WF_mainvars(which = "main" /\ M!Producer(p))

MCSpec == MCInit /\ [][MCNext]_mcvars /\ MCFairness

\* ThrMain: nobody keeps a pointer to the event count of a wait that is over.
NoDanglingEc == M!NoDanglingEc

\* ThrMain: every job posted on the main queue is run, as long as no two wake-ups
\* overlap during a wait of thread 0.
MainQueueRuns == M!MainQueueRuns

\* ThrMain: a wait of thread 0 returns, as long as no two wake-ups overlap.
CalmWaitReturns == M!CalmWaitReturns
=============================================================================
