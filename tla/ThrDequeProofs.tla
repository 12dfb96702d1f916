--------------------------- MODULE ThrDequeProofs ---------------------------
(* Proofs about ThrDeque, for any number of thieves, entries and jobs. *)
EXTENDS ThrDeque, TLAPS

(***************************************************************************)
(* The inductive invariant.                                                *)
(***************************************************************************)

\* What the owner's position in its own code says of the two counters.
OwnerInv ==
  /\ pc[Owner] \notin StealPc
  /\ pc[Owner] \notin DeqPc => top <= bot
  /\ pc[Owner] \in DeqPc => lbot[Owner] = bot /\ top <= bot + 1
  /\ pc[Owner] = "deq_cas" => ltop[Owner] = bot /\ bot <= top
  /\ pc[Owner] = "deq_reset" => ltop[Owner] = bot /\ top = bot + 1
  /\ pc[Owner] = "deq_restore" => top = bot + 1
  /\ pc[Owner] \in {"sched_slot", "sched_syn", "sched_job", "sched_bot"} =>
        lbot[Owner] = bot /\ ent[Owner] = Slot(bot)
  /\ pc[Owner] \in {"deq_top", "deq_cas", "deq_reset"} =>
        ent[Owner] = Slot(bot)

\* A thief whose CAS can still succeed has seen a job that is still there.
ThiefInv ==
  \A t \in Thieves :
     /\ pc[t] \in {"idle"} \cup StealPc \cup RunPc
     /\ pc[t] \in StealPc => ltop[t] <= top
     /\ pc[t] = "steal_cas" /\ ltop[t] = top => top < Lim

\* Every claim and every live position has an entry of its own, with a job.
EntryInv ==
  /\ \A p \in Live : qjob[Slot(p)] # NULL
  /\ \A t \in Threads : Claims(t) => qjob[ent[t]] # NULL
  /\ \A p, r \in Live : Slot(p) = Slot(r) => p = r
  /\ \A p \in Live, t \in Threads : Claims(t) => Slot(p) # ent[t]
  /\ \A t, u \in Threads : Claims(t) /\ Claims(u) /\ ent[t] = ent[u] => t = u

\* A job is in one entry at most, has not run, and has its syn beside it.
JobInv ==
  /\ \A r, s \in Slots : qjob[r] = qjob[s] /\ qjob[r] # NULL => r = s
  /\ \A s \in Slots : qjob[s] # NULL =>
        ran[qjob[s]] = 0 /\ qjob[s] <= nsched /\ qsyn[s] = qjob[s]
  /\ pc[Owner] \in SchedPc =>
        /\ job[Owner] = nsched /\ nsched # 0 /\ ran[nsched] = 0
        /\ \A s \in Slots : qjob[s] # nsched
  /\ pc[Owner] \in {"sched_syn", "sched_job"} => qjob[ent[Owner]] = NULL
  /\ pc[Owner] = "sched_job" => qsyn[ent[Owner]] = job[Owner]
  /\ \A t \in Threads : pc[t] \in {"run_syn", "run_clear"} =>
        job[t] = qjob[ent[t]]
  /\ \A t \in Threads : pc[t] = "run_clear" => syn[t] = job[t]
  /\ \A j \in Jobs : j > nsched => ran[j] = 0
  /\ RunAtMostOnce

IInv == TypeOK /\ OwnerInv /\ ThiefInv /\ EntryInv /\ JobInv /\ NoJobLost
-----------------------------------------------------------------------------
(* Lemmas *)

\* Running a job, even one that would not be a job, leaves 'ran' a function
\* from jobs to naturals.
LEMMA RanType ==
  ASSUME TypeOK, NEW j, ran' = [ran EXCEPT ![j] = @ + 1]
  PROVE  ran' \in [Jobs -> Nat]
  <1>1. CASE j \in Jobs
    <2>1. ran[j] + 1 \in Nat
      BY <1>1 DEF TypeOK
    <2>2. QED
      BY <1>1, <2>1 DEF TypeOK
  <1>2. CASE j \notin Jobs
    BY <1>2 DEF TypeOK
  <1>3. QED
    BY <1>1, <1>2

\* The entry of a position is an entry of the deque.
LEMMA SlotType == \A p \in Int : Slot(p) \in Slots
  BY SizeAssumption DEF Slot, Slots

\* The deque starts in a state of its type.
LEMMA TypeInit == Init => TypeOK
  BY SizeAssumption, MaxJobsAssumption
  DEF Init, TypeOK, Slots, Jobs, Threads, NULL

\* A step of the owner or of a thief keeps the type.
LEMMA TypeNext == TypeOK /\ [Next]_vars => TypeOK'
  <1> SUFFICES ASSUME TypeOK, [Next]_vars PROVE TypeOK'
    OBVIOUS
  <1> USE DEF TypeOK, Goto, job_run, shared, SchedPc, RunPc, DeqPc, StealPc,
              Threads
  <1>1. CASE thr_syn_schedule
    <2>1. CASE ScheduleCall
      BY <2>1, MaxJobsAssumption DEF ScheduleCall, Jobs
    <2>2. CASE ScheduleLimits
      <3>1. ran' \in [Jobs -> Nat]
        BY <2>2, RanType DEF ScheduleLimits
      <3>2. QED
        BY <2>2, <3>1, SlotType DEF ScheduleLimits
    <2>3. CASE ScheduleSlot
      BY <2>3, RanType DEF ScheduleSlot
    <2>4. CASE ScheduleSyn
      BY <2>4 DEF ScheduleSyn
    <2>5. CASE ScheduleJob
      BY <2>5 DEF ScheduleJob
    <2>6. CASE SchedulePublish
      BY <2>6 DEF SchedulePublish
    <2>7. QED
      BY <1>1, <2>1, <2>2, <2>3, <2>4, <2>5, <2>6 DEF thr_syn_schedule
  <1>2. CASE thr_job_dequeue
    <2>1. CASE DequeueDec
      BY <2>1, SlotType DEF DequeueDec
    <2>2. CASE DequeueTop
      BY <2>2 DEF DequeueTop
    <2>3. CASE DequeueCas
      BY <2>3 DEF DequeueCas, thr_consume_top
    <2>4. CASE DequeueReset
      BY <2>4 DEF DequeueReset
    <2>5. CASE DequeueRestore
      BY <2>5 DEF DequeueRestore
    <2>6. QED
      BY <1>2, <2>1, <2>2, <2>3, <2>4, <2>5 DEF thr_job_dequeue
  <1>3. ASSUME NEW t \in Thieves, thr_job_try_steal(t) PROVE TypeOK'
    <2>1. CASE StealTop(t)
      BY <2>1 DEF StealTop
    <2>2. CASE StealBot(t)
      BY <2>2 DEF StealBot
    <2>3. CASE StealCas(t)
      BY <2>3, SlotType, ltop[t] \in Int DEF StealCas, thr_consume_top
    <2>4. QED
      BY <1>3, <2>1, <2>2, <2>3 DEF thr_job_try_steal
  <1>4. ASSUME NEW t \in Threads, thr_run_deque_entry(t) PROVE TypeOK'
    <2>1. CASE RunLoadJob(t)
      BY <2>1 DEF RunLoadJob
    <2>2. CASE RunLoadSyn(t)
      BY <2>2 DEF RunLoadSyn
    <2>3. CASE RunClear(t)
      <3>1. ran' \in [Jobs -> Nat]
        BY <2>3, RanType DEF RunClear
      <3>2. QED
        BY <2>3, <3>1 DEF RunClear, NULL
    <2>4. QED
      BY <1>4, <2>1, <2>2, <2>3 DEF thr_run_deque_entry
  <1>5. CASE UNCHANGED vars
    BY <1>5 DEF vars
  <1>6. QED
    BY <1>1, <1>2, <1>3, <1>4, <1>5 DEF Next
\* The owner's place in its code still says where top and bot are.
LEMMA OwnerNext == IInv /\ [Next]_vars => OwnerInv'
  <1> SUFFICES ASSUME IInv, [Next]_vars PROVE OwnerInv'
    OBVIOUS
  <1> USE DEF IInv, TypeOK, OwnerInv, Goto, job_run, shared,
              SchedPc, RunPc, DeqPc, StealPc, Threads
  <1>1. CASE thr_syn_schedule
    <2>1. CASE ScheduleCall
      BY <2>1 DEF ScheduleCall
    <2>2. CASE ScheduleLimits
      BY <2>2 DEF ScheduleLimits
    <2>3. CASE ScheduleSlot
      BY <2>3 DEF ScheduleSlot
    <2>4. CASE ScheduleSyn
      BY <2>4 DEF ScheduleSyn
    <2>5. CASE ScheduleJob
      BY <2>5 DEF ScheduleJob
    <2>6. CASE SchedulePublish
      BY <2>6 DEF SchedulePublish
    <2>7. QED
      BY <1>1, <2>1, <2>2, <2>3, <2>4, <2>5, <2>6 DEF thr_syn_schedule
  <1>2. CASE thr_job_dequeue
    <2>1. CASE DequeueDec
      BY <2>1 DEF DequeueDec
    <2>2. CASE DequeueTop
      BY <2>2 DEF DequeueTop
    <2>3. CASE DequeueCas
      BY <2>3 DEF DequeueCas, thr_consume_top
    <2>4. CASE DequeueReset
      BY <2>4 DEF DequeueReset
    <2>5. CASE DequeueRestore
      BY <2>5 DEF DequeueRestore
    <2>6. QED
      BY <1>2, <2>1, <2>2, <2>3, <2>4, <2>5 DEF thr_job_dequeue
  <1>3. ASSUME NEW t \in Thieves, thr_job_try_steal(t) PROVE OwnerInv'
    <2>1. CASE StealTop(t)
      BY <2>1, OwnerAssumption DEF StealTop
    <2>2. CASE StealBot(t)
      BY <2>2, OwnerAssumption DEF StealBot
    <2>3. CASE StealCas(t)
      BY <2>3, OwnerAssumption DEF StealCas, thr_consume_top, ThiefInv, Lim
    <2>4. QED
      BY <1>3, <2>1, <2>2, <2>3 DEF thr_job_try_steal
  <1>4. ASSUME NEW t \in Threads, thr_run_deque_entry(t) PROVE OwnerInv'
    <2>1. CASE RunLoadJob(t)
      BY <2>1, OwnerAssumption DEF RunLoadJob
    <2>2. CASE RunLoadSyn(t)
      BY <2>2, OwnerAssumption DEF RunLoadSyn
    <2>3. CASE RunClear(t)
      BY <2>3, OwnerAssumption DEF RunClear
    <2>4. QED
      BY <1>4, <2>1, <2>2, <2>3 DEF thr_run_deque_entry
  <1>5. CASE UNCHANGED vars
    BY <1>5 DEF vars
  <1>6. QED
    BY <1>1, <1>2, <1>3, <1>4, <1>5 DEF Next

\* A thief's snapshot of top is never ahead of top, nor usable once stale.
LEMMA ThiefNext == IInv /\ [Next]_vars => ThiefInv'
  <1> SUFFICES ASSUME IInv, [Next]_vars PROVE ThiefInv'
    OBVIOUS
  <1> USE DEF IInv, TypeOK, OwnerInv, ThiefInv, Lim, Goto, job_run,
              shared, SchedPc, RunPc, DeqPc, StealPc, Threads
  <1>1. CASE thr_syn_schedule
    <2>1. CASE ScheduleCall
      BY <2>1, OwnerAssumption DEF ScheduleCall
    <2>2. CASE ScheduleLimits
      BY <2>2, OwnerAssumption DEF ScheduleLimits
    <2>3. CASE ScheduleSlot
      BY <2>3, OwnerAssumption DEF ScheduleSlot
    <2>4. CASE ScheduleSyn
      BY <2>4, OwnerAssumption DEF ScheduleSyn
    <2>5. CASE ScheduleJob
      BY <2>5, OwnerAssumption DEF ScheduleJob
    <2>6. CASE SchedulePublish
      BY <2>6, OwnerAssumption DEF SchedulePublish
    <2>7. QED
      BY <1>1, <2>1, <2>2, <2>3, <2>4, <2>5, <2>6 DEF thr_syn_schedule
  <1>2. CASE thr_job_dequeue
    <2>1. CASE DequeueDec
      BY <2>1, OwnerAssumption DEF DequeueDec
    <2>2. CASE DequeueTop
      BY <2>2, OwnerAssumption DEF DequeueTop
    <2>3. CASE DequeueCas
      BY <2>3, OwnerAssumption DEF DequeueCas, thr_consume_top
    <2>4. CASE DequeueReset
      BY <2>4, OwnerAssumption DEF DequeueReset
    <2>5. CASE DequeueRestore
      BY <2>5, OwnerAssumption DEF DequeueRestore
    <2>6. QED
      BY <1>2, <2>1, <2>2, <2>3, <2>4, <2>5 DEF thr_job_dequeue
  <1>3. ASSUME NEW t \in Thieves, thr_job_try_steal(t) PROVE ThiefInv'
    <2>1. CASE StealTop(t)
      BY <2>1, OwnerAssumption DEF StealTop
    <2>2. CASE StealBot(t)
      BY <2>2, OwnerAssumption DEF StealBot
    <2>3. CASE StealCas(t)
      BY <2>3, OwnerAssumption DEF StealCas, thr_consume_top
    <2>4. QED
      BY <1>3, <2>1, <2>2, <2>3 DEF thr_job_try_steal
  <1>4. ASSUME NEW t \in Threads, thr_run_deque_entry(t) PROVE ThiefInv'
    <2>1. CASE RunLoadJob(t)
      BY <2>1, OwnerAssumption DEF RunLoadJob
    <2>2. CASE RunLoadSyn(t)
      BY <2>2, OwnerAssumption DEF RunLoadSyn
    <2>3. CASE RunClear(t)
      BY <2>3, OwnerAssumption DEF RunClear
    <2>4. QED
      BY <1>4, <2>1, <2>2, <2>3 DEF thr_run_deque_entry
  <1>5. CASE UNCHANGED vars
    BY <1>5 DEF vars
  <1>6. QED
    BY <1>1, <1>2, <1>3, <1>4, <1>5 DEF Next

\* Live positions and claims keep entries of their own.
LEMMA EntryNext == IInv /\ [Next]_vars => EntryInv'
  <1> SUFFICES ASSUME IInv, [Next]_vars PROVE EntryInv'
    OBVIOUS
  <1> USE DEF IInv, TypeOK, OwnerInv, ThiefInv, EntryInv, Live, Claims, Lim,
              Goto, job_run, shared, SchedPc, RunPc, DeqPc, StealPc, Threads
  <1>1. CASE thr_syn_schedule
    <2>1. CASE ScheduleCall
      BY <2>1, OwnerAssumption, SlotType DEF ScheduleCall
    <2>2. CASE ScheduleLimits
      BY <2>2, OwnerAssumption, SlotType DEF ScheduleLimits
    <2>3. CASE ScheduleSlot
      BY <2>3, OwnerAssumption, SlotType DEF ScheduleSlot
    <2>4. CASE ScheduleSyn
      BY <2>4, OwnerAssumption, SlotType DEF ScheduleSyn
    <2>5. CASE ScheduleJob
      <3>1. qjob[ent[Owner]] = NULL /\ job[Owner] # NULL
        BY <2>5 DEF ScheduleJob, JobInv, NULL
      <3>2. Live' = Live
        BY <2>5 DEF ScheduleJob
      <3>3. \A t \in Threads : Claims(t)' => t = Owner \/ Claims(t)
        BY <2>5 DEF ScheduleJob
      <3>4. \A p \in Live : Slot(p) # ent[Owner]
        BY <3>1
      <3>5. \A t \in Threads : Claims(t) => ent[t] # ent[Owner]
        BY <3>1
      <3>6. \A t \in Threads : Claims(t)' => qjob'[ent'[t]] # NULL
        BY <2>5, <3>1, <3>3, <3>5 DEF ScheduleJob
      <3>7. \A p \in Live' : Slot(p) \in Slots /\ qjob'[Slot(p)] # NULL
        BY <2>5, <3>2, <3>4, SlotType DEF ScheduleJob
      <3>8. QED
        BY <2>5, <3>2, <3>3, <3>4, <3>5, <3>6, <3>7 DEF ScheduleJob
    <2>6. CASE SchedulePublish
      <3>1. ent[Owner] = Slot(bot) /\ Claims(Owner) /\ lbot[Owner] = bot
        BY <2>6 DEF SchedulePublish
      <3>2. \A p \in Live' : p \in Live \/ p = bot
        BY <2>6, <3>1 DEF SchedulePublish
      <3>3. \A t \in Threads : Claims(t)' => t # Owner /\ Claims(t)
        BY <2>6 DEF SchedulePublish
      <3>4. UNCHANGED <<qjob, ent>>
        BY <2>6 DEF SchedulePublish
      <3>5. Owner \in Threads
        OBVIOUS
      <3>6. \A p \in Live' : qjob'[Slot(p)] # NULL
        BY <3>1, <3>2, <3>4, <3>5 DEF EntryInv
      <3>7. \A p, r \in Live' : Slot(p) = Slot(r) => p = r
        BY <3>1, <3>2, <3>5 DEF EntryInv
      <3>8. \A p \in Live', t \in Threads : Claims(t)' => Slot(p) # ent'[t]
        BY <3>1, <3>2, <3>3, <3>4, <3>5 DEF EntryInv
      <3>9. QED
        BY <3>3, <3>4, <3>6, <3>7, <3>8
    <2>7. QED
      BY <1>1, <2>1, <2>2, <2>3, <2>4, <2>5, <2>6 DEF thr_syn_schedule
  <1>2. CASE thr_job_dequeue
    <2>1. CASE DequeueDec
      BY <2>1, OwnerAssumption, SlotType DEF DequeueDec
    <2>2. CASE DequeueTop
      BY <2>2, OwnerAssumption, SlotType DEF DequeueTop
    <2>3. CASE DequeueCas
      BY <2>3, OwnerAssumption, SlotType DEF DequeueCas, thr_consume_top
    <2>4. CASE DequeueReset
      BY <2>4, OwnerAssumption, SlotType DEF DequeueReset
    <2>5. CASE DequeueRestore
      BY <2>5, OwnerAssumption, SlotType DEF DequeueRestore
    <2>6. QED
      BY <1>2, <2>1, <2>2, <2>3, <2>4, <2>5 DEF thr_job_dequeue
  <1>3. ASSUME NEW t \in Thieves, thr_job_try_steal(t) PROVE EntryInv'
    <2>1. CASE StealTop(t)
      BY <2>1, OwnerAssumption, SlotType DEF StealTop
    <2>2. CASE StealBot(t)
      BY <2>2, OwnerAssumption, SlotType DEF StealBot
    <2>3. CASE StealCas(t)
      BY <2>3, OwnerAssumption, SlotType DEF StealCas, thr_consume_top
    <2>4. QED
      BY <1>3, <2>1, <2>2, <2>3 DEF thr_job_try_steal
  <1>4. ASSUME NEW t \in Threads, thr_run_deque_entry(t) PROVE EntryInv'
    <2>1. CASE RunLoadJob(t)
      BY <2>1, OwnerAssumption, SlotType DEF RunLoadJob
    <2>2. CASE RunLoadSyn(t)
      BY <2>2, OwnerAssumption, SlotType DEF RunLoadSyn
    <2>3. CASE RunClear(t)
      BY <2>3, OwnerAssumption, SlotType DEF RunClear
    <2>4. QED
      BY <1>4, <2>1, <2>2, <2>3 DEF thr_run_deque_entry
  <1>5. CASE UNCHANGED vars
    BY <1>5 DEF vars
  <1>6. QED
    BY <1>1, <1>2, <1>3, <1>4, <1>5 DEF Next

\* A job stays in one entry, unrun, beside its syn.
LEMMA JobNext == IInv /\ [Next]_vars => JobInv'
  <1> SUFFICES ASSUME IInv, [Next]_vars PROVE JobInv'
    OBVIOUS
  <1> USE DEF IInv, TypeOK, OwnerInv, ThiefInv, EntryInv, JobInv,
              RunAtMostOnce, Claims, Goto, job_run, shared, SchedPc, RunPc, DeqPc, StealPc,
              Threads
  <1>1. CASE thr_syn_schedule
    <2>1. CASE ScheduleCall
      BY <2>1, OwnerAssumption, MaxJobsAssumption DEF ScheduleCall, Jobs, NULL
    <2>2. CASE ScheduleLimits
      BY <2>2, OwnerAssumption, MaxJobsAssumption DEF ScheduleLimits
    <2>3. CASE ScheduleSlot
      BY <2>3, OwnerAssumption, MaxJobsAssumption DEF ScheduleSlot
    <2>4. CASE ScheduleSyn
      BY <2>4, OwnerAssumption, MaxJobsAssumption DEF ScheduleSyn
    <2>5. CASE ScheduleJob
      BY <2>5, OwnerAssumption, MaxJobsAssumption DEF ScheduleJob
    <2>6. CASE SchedulePublish
      BY <2>6, OwnerAssumption, MaxJobsAssumption DEF SchedulePublish
    <2>7. QED
      BY <1>1, <2>1, <2>2, <2>3, <2>4, <2>5, <2>6 DEF thr_syn_schedule
  <1>2. CASE thr_job_dequeue
    <2>1. CASE DequeueDec
      BY <2>1, OwnerAssumption, MaxJobsAssumption DEF DequeueDec
    <2>2. CASE DequeueTop
      BY <2>2, OwnerAssumption, MaxJobsAssumption DEF DequeueTop
    <2>3. CASE DequeueCas
      BY <2>3, OwnerAssumption, MaxJobsAssumption DEF DequeueCas, thr_consume_top
    <2>4. CASE DequeueReset
      BY <2>4, OwnerAssumption, MaxJobsAssumption DEF DequeueReset
    <2>5. CASE DequeueRestore
      BY <2>5, OwnerAssumption, MaxJobsAssumption DEF DequeueRestore
    <2>6. QED
      BY <1>2, <2>1, <2>2, <2>3, <2>4, <2>5 DEF thr_job_dequeue
  <1>3. ASSUME NEW t \in Thieves, thr_job_try_steal(t) PROVE JobInv'
    <2>1. CASE StealTop(t)
      BY <2>1, OwnerAssumption, MaxJobsAssumption DEF StealTop
    <2>2. CASE StealBot(t)
      BY <2>2, OwnerAssumption, MaxJobsAssumption DEF StealBot
    <2>3. CASE StealCas(t)
      BY <2>3, OwnerAssumption, MaxJobsAssumption DEF StealCas, thr_consume_top
    <2>4. QED
      BY <1>3, <2>1, <2>2, <2>3 DEF thr_job_try_steal
  <1>4. ASSUME NEW t \in Threads, thr_run_deque_entry(t) PROVE JobInv'
    <2>1. CASE RunLoadJob(t)
      BY <2>1, OwnerAssumption, MaxJobsAssumption DEF RunLoadJob
    <2>2. CASE RunLoadSyn(t)
      BY <2>2, OwnerAssumption, MaxJobsAssumption DEF RunLoadSyn
    <2>3. CASE RunClear(t)
      <3>1. /\ job[t] = qjob[ent[t]] /\ job[t] # NULL /\ ran[job[t]] = 0
            /\ job[t] \in Jobs
        BY <2>3 DEF RunClear
      <3>2. \A s \in Slots : qjob'[s] # NULL => s # ent[t] /\ qjob[s] # job[t]
                                             /\ qjob'[s] = qjob[s]
        BY <2>3, <3>1 DEF RunClear
      <3>3. \A j \in Jobs : ran'[j] = IF j = job[t] THEN 1 ELSE ran[j]
        BY <2>3, <3>1 DEF RunClear
      <3>4. \A u \in Threads : u # t /\ Claims(u) => ent[u] # ent[t]
        BY <2>3 DEF RunClear
      <3>5. pc[Owner] \in SchedPc => nsched # job[t]
        BY <3>1
      <3>6. \A s \in Slots : qjob'[s] # NULL =>
                ran'[qjob'[s]] = 0 /\ qjob'[s] <= nsched' /\ qsyn'[s] = qjob'[s]
        BY <2>3, <3>2, <3>3 DEF RunClear
      <3>7. job[t] <= nsched
        BY <3>1
      <3>8. \A j \in Jobs : ran'[j] <= 1 /\ (j > nsched' => ran'[j] = 0)
        BY <2>3, <3>3, <3>7 DEF RunClear, Jobs
      <3>9. \A u \in Threads : pc'[u] \in {"run_syn", "run_clear"} =>
                u # t /\ job'[u] = qjob'[ent'[u]]
        BY <2>3, <3>4 DEF RunClear
      <3>10. \A r, s \in Slots : qjob'[r] = qjob'[s] /\ qjob'[r] # NULL => r = s
        BY <3>2
      <3>11. pc'[Owner] \in SchedPc =>
                /\ job'[Owner] = nsched' /\ nsched' # 0 /\ ran'[nsched'] = 0
                /\ \A s \in Slots : qjob'[s] # nsched'
        <4>1. SUFFICES ASSUME pc'[Owner] \in SchedPc
              PROVE  /\ job'[Owner] = nsched' /\ nsched' # 0 /\ ran'[nsched'] = 0
                     /\ \A s \in Slots : qjob'[s] # nsched'
          OBVIOUS
        <4>2. pc[Owner] \in SchedPc /\ nsched' = nsched /\ job' = job
          BY <2>3, <4>1 DEF RunClear
        <4>3. nsched \in Jobs /\ nsched # NULL
          BY <4>2, MaxJobsAssumption DEF Jobs, NULL
        <4>4. QED
          BY <3>2, <3>3, <3>5, <4>2, <4>3
      <3>12. pc'[Owner] \in {"sched_syn", "sched_job"} => qjob'[ent'[Owner]] = NULL
        BY <2>3 DEF RunClear
      <3>13. QED
        BY <2>3, <3>6, <3>8, <3>9, <3>10, <3>11, <3>12 DEF RunClear
    <2>4. QED
      BY <1>4, <2>1, <2>2, <2>3 DEF thr_run_deque_entry
  <1>5. CASE UNCHANGED vars
    BY <1>5 DEF vars
  <1>6. QED
    BY <1>1, <1>2, <1>3, <1>4, <1>5 DEF Next

\* Every scheduled job stays accounted for.
LEMMA HeldNext == IInv /\ [Next]_vars => JobsHeld'
  <1> SUFFICES ASSUME IInv, [Next]_vars PROVE JobsHeld'
    OBVIOUS
  <1> USE DEF IInv, TypeOK, OwnerInv, JobInv, NoJobLost, JobsHeld, RunAtMostOnce,
              Goto, job_run, shared, SchedPc, RunPc, DeqPc, StealPc, Threads
  <1>1. CASE thr_syn_schedule
    <2>1. CASE ScheduleCall
      BY <2>1, OwnerAssumption DEF ScheduleCall
    <2>2. CASE ScheduleLimits
      <3>1. nsched \in Jobs /\ job[Owner] = nsched /\ ran[nsched] = 0
        BY <2>2, MaxJobsAssumption DEF ScheduleLimits, Jobs
      <3>2. \A j \in 1..nsched : j \in Jobs
        BY MaxJobsAssumption DEF Jobs
      <3>3. nsched' = nsched /\ qjob' = qjob /\ job' = job
        BY <2>2 DEF ScheduleLimits
      <3>4. CASE pc'[Owner] \in SchedPc
        BY <2>2, <3>3, <3>4 DEF ScheduleLimits
      <3>5. CASE pc'[Owner] \notin SchedPc
        <4>1. ran' = [ran EXCEPT ![nsched] = 1]
          BY <2>2, <3>1, <3>5, OwnerAssumption DEF ScheduleLimits
        <4>2. QED
          BY <3>1, <3>2, <3>3, <4>1
      <3>6. QED
        BY <3>4, <3>5
    <2>3. CASE ScheduleSlot
      <3>1. nsched \in Jobs /\ job[Owner] = nsched /\ ran[nsched] = 0
        BY <2>3, MaxJobsAssumption DEF ScheduleSlot, Jobs
      <3>2. \A j \in 1..nsched : j \in Jobs
        BY MaxJobsAssumption DEF Jobs
      <3>3. nsched' = nsched /\ qjob' = qjob /\ job' = job
        BY <2>3 DEF ScheduleSlot
      <3>4. CASE pc'[Owner] \in SchedPc
        BY <2>3, <3>3, <3>4 DEF ScheduleSlot
      <3>5. CASE pc'[Owner] \notin SchedPc
        <4>1. ran' = [ran EXCEPT ![nsched] = 1]
          BY <2>3, <3>1, <3>5, OwnerAssumption DEF ScheduleSlot
        <4>2. QED
          BY <3>1, <3>2, <3>3, <4>1
      <3>6. QED
        BY <3>4, <3>5
    <2>4. CASE ScheduleSyn
      BY <2>4, OwnerAssumption DEF ScheduleSyn
    <2>5. CASE ScheduleJob
      <3>1. ent[Owner] \in Slots /\ qjob'[ent[Owner]] = job[Owner]
        BY <2>5 DEF ScheduleJob
      <3>2. \A s \in Slots : qjob[s] # NULL => qjob'[s] = qjob[s]
        BY <2>5 DEF ScheduleJob
      <3>3. \A j \in 1..nsched : j # NULL
        BY DEF NULL
      <3>4. nsched' = nsched /\ ran' = ran
        BY <2>5 DEF ScheduleJob
      <3>5. QED
        BY <3>1, <3>2, <3>3, <3>4
    <2>6. CASE SchedulePublish
      BY <2>6, OwnerAssumption DEF SchedulePublish
    <2>7. QED
      BY <1>1, <2>1, <2>2, <2>3, <2>4, <2>5, <2>6 DEF thr_syn_schedule
  <1>2. CASE thr_job_dequeue
    <2>1. CASE DequeueDec
      BY <2>1, OwnerAssumption DEF DequeueDec
    <2>2. CASE DequeueTop
      BY <2>2, OwnerAssumption DEF DequeueTop
    <2>3. CASE DequeueCas
      BY <2>3, OwnerAssumption DEF DequeueCas, thr_consume_top
    <2>4. CASE DequeueReset
      BY <2>4, OwnerAssumption DEF DequeueReset
    <2>5. CASE DequeueRestore
      BY <2>5, OwnerAssumption DEF DequeueRestore
    <2>6. QED
      BY <1>2, <2>1, <2>2, <2>3, <2>4, <2>5 DEF thr_job_dequeue
  <1>3. ASSUME NEW t \in Thieves, thr_job_try_steal(t) PROVE JobsHeld'
    <2>1. CASE StealTop(t)
      BY <2>1, OwnerAssumption DEF StealTop
    <2>2. CASE StealBot(t)
      BY <2>2, OwnerAssumption DEF StealBot
    <2>3. CASE StealCas(t)
      BY <2>3, OwnerAssumption DEF StealCas, thr_consume_top
    <2>4. QED
      BY <1>3, <2>1, <2>2, <2>3 DEF thr_job_try_steal
  <1>4. ASSUME NEW t \in Threads, thr_run_deque_entry(t) PROVE JobsHeld'
    <2>1. CASE RunLoadJob(t)
      BY <2>1, OwnerAssumption DEF RunLoadJob
    <2>2. CASE RunLoadSyn(t)
      BY <2>2, OwnerAssumption DEF RunLoadSyn
    <2>3. CASE RunClear(t)
      BY <2>3, OwnerAssumption DEF RunClear
    <2>4. QED
      BY <1>4, <2>1, <2>2, <2>3 DEF thr_run_deque_entry
  <1>5. CASE UNCHANGED vars
    BY <1>5 DEF vars
  <1>6. QED
    BY <1>1, <1>2, <1>3, <1>4, <1>5 DEF Next

\* The entries stay reachable when the positions that leave Live are claimed and
\* no claim is dropped.
LEMMA ReachKept ==
  ASSUME EntriesReachable, qjob' = qjob,
         \A p \in Live : \/ p \in Live'
                        \/ \E u \in Threads : Claims(u)' /\ ent'[u] = Slot(p),
         \A u \in Threads : Claims(u) => Claims(u)' /\ ent'[u] = ent[u]
  PROVE  EntriesReachable'
  BY DEF EntriesReachable

\* Every entry that holds a job stays within somebody's reach.
LEMMA ReachNext == IInv /\ [Next]_vars => EntriesReachable'
  <1> SUFFICES ASSUME IInv, [Next]_vars PROVE EntriesReachable'
    OBVIOUS
  <1> USE DEF IInv, TypeOK, OwnerInv, ThiefInv, NoJobLost, EntriesReachable, Live, Claims, Lim,
              Goto, job_run, shared, SchedPc, RunPc, DeqPc, StealPc, Threads
  <1>1. CASE thr_syn_schedule
    <2>1. CASE ScheduleCall
      BY <2>1, OwnerAssumption, SlotType DEF ScheduleCall
    <2>2. CASE ScheduleLimits
      BY <2>2, OwnerAssumption, SlotType DEF ScheduleLimits
    <2>3. CASE ScheduleSlot
      BY <2>3, OwnerAssumption, SlotType DEF ScheduleSlot
    <2>4. CASE ScheduleSyn
      BY <2>4, OwnerAssumption, SlotType DEF ScheduleSyn
    <2>5. CASE ScheduleJob
      BY <2>5, OwnerAssumption, SlotType DEF ScheduleJob
    <2>6. CASE SchedulePublish
      BY <2>6, OwnerAssumption, SlotType DEF SchedulePublish
    <2>7. QED
      BY <1>1, <2>1, <2>2, <2>3, <2>4, <2>5, <2>6 DEF thr_syn_schedule
  <1>2. CASE thr_job_dequeue
    <2>1. CASE DequeueDec
      BY <2>1, OwnerAssumption, SlotType DEF DequeueDec
    <2>2. CASE DequeueTop
      <3>1. qjob' = qjob /\ ent' = ent /\ top' = top /\ bot' = bot
        BY <2>2 DEF DequeueTop
      <3>2. \A u \in Threads : Claims(u) => Claims(u)' /\ ent'[u] = ent[u]
        BY <2>2 DEF DequeueTop
      <3>3. CASE pc'[Owner] = "run_job"
        <4>1. Claims(Owner)' /\ ent[Owner] = Slot(bot)
          BY <2>2, <3>3 DEF DequeueTop
        <4>2. \A p \in Live : p = bot \/ p \in Live'
          BY <2>2, <3>1, <3>3 DEF DequeueTop
        <4>3. \A p \in Live : \/ p \in Live'
                              \/ \E u \in Threads : Claims(u)' /\ ent'[u] = Slot(p)
          BY <3>1, <4>1, <4>2
        <4>4. QED
          BY ONLY EntriesReachable, <3>1, <3>2, <4>3, ReachKept
      <3>4. CASE pc'[Owner] # "run_job"
        <4>1. \A p \in Live : p \in Live'
          BY <2>2, <3>1, <3>4 DEF DequeueTop
        <4>2. QED
          BY ONLY EntriesReachable, <3>1, <3>2, <4>1, ReachKept
      <3>5. QED
        BY <3>3, <3>4
    <2>3. CASE DequeueCas
      BY <2>3, OwnerAssumption, SlotType DEF DequeueCas, thr_consume_top
    <2>4. CASE DequeueReset
      BY <2>4, OwnerAssumption, SlotType DEF DequeueReset
    <2>5. CASE DequeueRestore
      BY <2>5, OwnerAssumption, SlotType DEF DequeueRestore
    <2>6. QED
      BY <1>2, <2>1, <2>2, <2>3, <2>4, <2>5 DEF thr_job_dequeue
  <1>3. ASSUME NEW t \in Thieves, thr_job_try_steal(t) PROVE EntriesReachable'
    <2>1. CASE StealTop(t)
      BY <2>1, OwnerAssumption, SlotType DEF StealTop
    <2>2. CASE StealBot(t)
      BY <2>2, OwnerAssumption, SlotType DEF StealBot
    <2>3. CASE StealCas(t)
      <3>1. qjob' = qjob /\ Lim' = Lim
        BY <2>3, OwnerAssumption DEF StealCas, thr_consume_top
      <3>2. \A u \in Threads : Claims(u) => u # t /\ Claims(u)' /\ ent'[u] = ent[u]
        BY <2>3 DEF StealCas, thr_consume_top
      <3>3. CASE ltop[t] = top
        <4>1. Claims(t)' /\ ent'[t] = Slot(top) /\ top' = top + 1
          BY <2>3, <3>3 DEF StealCas, thr_consume_top
        <4>2. \A p \in Live : p = top \/ p \in Live'
          BY <3>1, <4>1
        <4>3. t \in Threads
          OBVIOUS
        <4>4. \A p \in Live : \/ p \in Live'
                              \/ \E u \in Threads : Claims(u)' /\ ent'[u] = Slot(p)
          BY <4>1, <4>2, <4>3
        <4>5. QED
          BY ONLY EntriesReachable, <3>1, <3>2, <4>4, ReachKept
      <3>4. CASE ltop[t] # top
        <4>1. top' = top
          BY <2>3, <3>4 DEF StealCas, thr_consume_top
        <4>2. Live' = Live
          BY <3>1, <4>1
        <4>3. QED
          BY ONLY EntriesReachable, <3>1, <3>2, <4>2, ReachKept
      <3>5. QED
        BY <3>3, <3>4
    <2>4. QED
      BY <1>3, <2>1, <2>2, <2>3 DEF thr_job_try_steal
  <1>4. ASSUME NEW t \in Threads, thr_run_deque_entry(t) PROVE EntriesReachable'
    <2>1. CASE RunLoadJob(t)
      BY <2>1, OwnerAssumption, SlotType DEF RunLoadJob
    <2>2. CASE RunLoadSyn(t)
      BY <2>2, OwnerAssumption, SlotType DEF RunLoadSyn
    <2>3. CASE RunClear(t)
      BY <2>3, OwnerAssumption, SlotType DEF RunClear
    <2>4. QED
      BY <1>4, <2>1, <2>2, <2>3 DEF thr_run_deque_entry
  <1>5. CASE UNCHANGED vars
    BY <1>5 DEF vars
  <1>6. QED
    BY <1>1, <1>2, <1>3, <1>4, <1>5 DEF Next
-----------------------------------------------------------------------------
\* The initial states satisfy the inductive invariant.
LEMMA IInvInit == Init => IInv
  <1> SUFFICES ASSUME Init PROVE IInv
    OBVIOUS
  <1> USE DEF Init, SchedPc, RunPc, DeqPc, StealPc, Threads
  <1>1. TypeOK
    BY TypeInit
  <1>2. OwnerInv
    BY DEF OwnerInv
  <1>3. ThiefInv
    BY DEF ThiefInv
  <1>4. EntryInv
    BY DEF EntryInv, Live, Lim, Claims
  <1>5. JobInv
    BY DEF JobInv, RunAtMostOnce, NULL
  <1>6. NoJobLost
    BY DEF NoJobLost, JobsHeld, EntriesReachable
  <1>7. QED
    BY <1>1, <1>2, <1>3, <1>4, <1>5, <1>6 DEF IInv

\* Every step keeps the inductive invariant.
LEMMA IInvNext == IInv /\ [Next]_vars => IInv'
  <1> SUFFICES ASSUME IInv, [Next]_vars PROVE IInv'
    OBVIOUS
  <1>1. TypeOK'
    BY TypeNext DEF IInv
  <1>2. OwnerInv' /\ ThiefInv' /\ EntryInv' /\ JobInv'
    BY OwnerNext, ThiefNext, EntryNext, JobNext
  <1>3. NoJobLost'
    BY HeldNext, ReachNext DEF NoJobLost
  <1>4. QED
    BY <1>1, <1>2, <1>3 DEF IInv

\* The inductive invariant holds in every reachable state.
THEOREM Invariance == Spec => []IInv
  BY IInvInit, IInvNext, PTL DEF Spec

-----------------------------------------------------------------------------
\* The counters, the entries and every thread's locals keep their types.
THEOREM TypeCorrect == Spec => []TypeOK
  <1>1. IInv => TypeOK
    BY DEF IInv
  <1>2. QED
    BY <1>1, Invariance, PTL

\* Whatever the owner and the thieves do, no job is run twice.
THEOREM NeverTwice == Spec => []RunAtMostOnce
  <1>1. IInv => RunAtMostOnce
    BY DEF IInv, JobInv
  <1>2. QED
    BY <1>1, Invariance, PTL

\* A scheduled job is run, being scheduled, or in an entry somebody will take.
THEOREM NothingLost == Spec => []NoJobLost
  <1>1. IInv => NoJobLost
    BY DEF IInv
  <1>2. QED
    BY <1>1, Invariance, PTL

\* thr_run_deque_entry hands a job the syn it was scheduled with.
THEOREM OwnSyn == Spec => []RunsItsOwnSyn
  <1>1. IInv => RunsItsOwnSyn
    BY DEF IInv, EntryInv, JobInv, RunsItsOwnSyn, Claims, RunPc
  <1>2. QED
    BY <1>1, Invariance, PTL

\* A steal that reports an empty deque leaves at most the job the owner itself
\* is popping.
THEOREM EmptyIsTaken == Spec => EmptyMeansTaken
  <1>1. IInv /\ [Next]_vars =>
          [\A t \in Thieves : pc[t] = "steal_bot" /\ pc'[t] = "idle" =>
                                 Live \subseteq {bot}]_vars
    <2> SUFFICES ASSUME IInv, Next, NEW t \in Thieves,
                        pc[t] = "steal_bot", pc'[t] = "idle"
                 PROVE  Live \subseteq {bot}
      OBVIOUS
    <2> USE DEF IInv, TypeOK, Goto, job_run, SchedPc, RunPc, DeqPc, StealPc, Threads
    <2>1. StealBot(t)
      <3>1. CASE thr_syn_schedule
        BY <3>1, OwnerAssumption DEF thr_syn_schedule, ScheduleCall,
           ScheduleLimits, ScheduleSlot, ScheduleSyn, ScheduleJob, SchedulePublish
      <3>2. CASE thr_job_dequeue
        BY <3>2, OwnerAssumption DEF thr_job_dequeue, DequeueDec, DequeueTop,
           DequeueCas, DequeueReset, DequeueRestore, thr_consume_top
      <3>3. ASSUME NEW u \in Thieves, thr_job_try_steal(u) PROVE StealBot(t)
        BY <3>3 DEF thr_job_try_steal, StealTop, StealBot, StealCas, thr_consume_top
      <3>4. ASSUME NEW u \in Threads, thr_run_deque_entry(u) PROVE StealBot(t)
        BY <3>4 DEF thr_run_deque_entry, RunLoadJob, RunLoadSyn, RunClear
      <3>5. QED
        BY <3>1, <3>2, <3>3, <3>4 DEF Next
    <2>2. bot <= ltop[t] /\ ltop[t] <= top
      BY <2>1 DEF StealBot, ThiefInv
    <2>3. QED
      BY <2>2 DEF Live, Lim
  <1>2. QED
    BY <1>1, Invariance, PTL DEF Spec, EmptyMeansTaken
=============================================================================
