---------------------------- MODULE SerialQueue ----------------------------
(***************************************************************************)
(* What a serial queue promises its users (core/thr-job.h, thr_queue):     *)
(* "jobs on serial queues run at most one at a time", and they run in the  *)
(* order they were queued, each one once.  Jobs are numbered in the order  *)
(* they enter the queue.                                                   *)
(***************************************************************************)
EXTENDS Naturals, Sequences

VARIABLES queued,   \* how many jobs have been queued
          queue,    \* the jobs waiting to run
          running   \* the job that is running, 0 if none is

avars == <<queued, queue, running>>

AInit ==
  /\ queued = 0
  /\ queue = <<>>
  /\ running = 0

AQueue ==
  /\ queued' = queued + 1
  /\ queue' = Append(queue, queued + 1)
  /\ UNCHANGED running

AStart ==
  /\ running = 0
  /\ queue # <<>>
  /\ running' = Head(queue)
  /\ queue' = Tail(queue)
  /\ UNCHANGED queued

AFinish ==
  /\ running # 0
  /\ running' = 0
  /\ UNCHANGED <<queued, queue>>

ANext == AQueue \/ AStart \/ AFinish

ASpec == AInit /\ [][ANext]_avars
=============================================================================
