------------------------------ MODULE ThrDeque ------------------------------
(***************************************************************************)
(* The work-stealing deque every thread of the job pool owns               *)
(* (core/thr-job.blk, "atomic dequeue").  The owner pushes and pops jobs   *)
(* at the bottom, the other threads steal them from the top.               *)
(*                                                                         *)
(* One action is one access to memory that other threads also access;      *)
(* accesses are sequentially consistent in program order, which is what    *)
(* the code gets on the only architecture it builds for (x86: loads are    *)
(* not reordered, and the store of 'bot' in thr_job_dequeue is seq_cst).   *)
(*                                                                         *)
(* 'top' and 'bot' are 32-bit unsigned counters compared by their signed   *)
(* difference.  THR_JOB_MAX divides 2^32 and their distance stays below    *)
(* THR_JOB_MAX + 2, so they behave as unbounded integers until one of them *)
(* goes round 2^32 between two instructions of a thief.                    *)
(*                                                                         *)
(* The syn scheduled with job j is j itself: any two jobs may have         *)
(* different ones, so a job that runs with another job's syn shows.        *)
(***************************************************************************)
EXTENDS Integers

CONSTANTS Owner,         \* the thread the deque belongs to
          Thieves,       \* the other threads of the pool
          THR_JOB_MAX,   \* number of entries of the deque (256 in the code)
          MaxJobs        \* bound: how many jobs the owner schedules

ASSUME OwnerAssumption == Owner \notin Thieves
ASSUME SizeAssumption == THR_JOB_MAX \in Nat \ {0}
ASSUME MaxJobsAssumption == MaxJobs \in Nat

NULL == 0
Jobs == 1..MaxJobs
Slots == 0..(THR_JOB_MAX - 1)
Threads == Thieves \cup {Owner}

VARIABLES top,     \* thr_info_t.top
          bot,     \* thr_info_t.bot
          qjob,    \* q[i].job
          qsyn,    \* q[i].syn
          pc,      \* where each thread is
          ltop,    \* its local 'top'
          lbot,    \* its local 'bot'
          ent,     \* its local 'e': the index of an entry of q
          job,     \* its local 'job'
          syn,     \* its local 'syn'
          nsched,  \* how many jobs have been scheduled: jobs 1..nsched
          ran      \* how many times each job has been run

shared == <<top, bot, qjob, qsyn>>
vars == <<top, bot, qjob, qsyn, pc, ltop, lbot, ent, job, syn, nsched, ran>>

SchedPc == {"sched_top", "sched_slot", "sched_syn", "sched_job"}
RunPc == {"run_job", "run_syn", "run_clear"}
DeqPc == {"deq_top", "deq_cas", "deq_reset", "deq_restore"}
StealPc == {"steal_bot", "steal_cas"}

Slot(p) == p % THR_JOB_MAX

Init ==
  /\ top = 0
  /\ bot = 0
  /\ qjob = [s \in Slots |-> NULL]
  /\ qsyn = [s \in Slots |-> NULL]
  /\ pc = [t \in Threads |-> "idle"]
  /\ ltop = [t \in Threads |-> 0]
  /\ lbot = [t \in Threads |-> 0]
  /\ ent = [t \in Threads |-> 0]
  /\ job = [t \in Threads |-> NULL]
  /\ syn = [t \in Threads |-> NULL]
  /\ nsched = 0
  /\ ran = [j \in Jobs |-> 0]

Goto(t, l) == pc' = [pc EXCEPT ![t] = l]

\* job_run on the calling thread; what the job does next (schedule, dequeue)
\* is the thread's next call, made from "idle".
job_run(t, j) ==
  /\ ran' = [ran EXCEPT ![j] = @ + 1]
  /\ Goto(t, "idle")

-----------------------------------------------------------------------------
(* thr_syn_schedule, by the owner *)

ScheduleCall ==
  /\ pc[Owner] = "idle"
  /\ nsched < MaxJobs
  /\ nsched' = nsched + 1
  /\ job' = [job EXCEPT ![Owner] = nsched + 1]
  /\ Goto(Owner, "sched_top")
  /\ UNCHANGED <<shared, ltop, lbot, ent, syn, ran>>

\* Load the limits; too many jobs: run this one at once.
ScheduleLimits ==
  /\ pc[Owner] = "sched_top"
  /\ ltop' = [ltop EXCEPT ![Owner] = top]
  /\ lbot' = [lbot EXCEPT ![Owner] = bot]
  /\ IF bot - top >= THR_JOB_MAX
       THEN /\ job_run(Owner, job[Owner])
            /\ UNCHANGED ent
       ELSE /\ ent' = [ent EXCEPT ![Owner] = Slot(bot)]
            /\ Goto(Owner, "sched_slot")
            /\ UNCHANGED ran
  /\ UNCHANGED <<shared, job, syn, nsched>>

\* Mutant of ScheduleSlot: the entry is taken to be free.
ScheduleSlotMut ==
  /\ pc[Owner] = "sched_slot"
  /\ Goto(Owner, "sched_syn")
  /\ UNCHANGED <<shared, ltop, lbot, ent, job, syn, nsched, ran>>

\* A thief may still be reading the entry: then run the job at once.
ScheduleSlot ==
  /\ pc[Owner] = "sched_slot"
  /\ IF qjob[ent[Owner]] # NULL
       THEN job_run(Owner, job[Owner])
       ELSE Goto(Owner, "sched_syn") /\ UNCHANGED ran
  /\ UNCHANGED <<shared, ltop, lbot, ent, job, syn, nsched>>

ScheduleSyn ==
  /\ pc[Owner] = "sched_syn"
  /\ qsyn' = [qsyn EXCEPT ![ent[Owner]] = job[Owner]]
  /\ Goto(Owner, "sched_job")
  /\ UNCHANGED <<top, bot, qjob, ltop, lbot, ent, job, syn, nsched, ran>>

ScheduleJob ==
  /\ pc[Owner] = "sched_job"
  /\ qjob' = [qjob EXCEPT ![ent[Owner]] = job[Owner]]
  /\ Goto(Owner, "sched_bot")
  /\ UNCHANGED <<top, bot, qsyn, ltop, lbot, ent, job, syn, nsched, ran>>

\* Publish the new bottom.  The thr_ec_signal that follows, which wakes a
\* sleeping thief, touches nothing of the deque: see ThrPool.
SchedulePublish ==
  /\ pc[Owner] = "sched_bot"
  /\ bot' = lbot[Owner] + 1
  /\ Goto(Owner, "idle")
  /\ UNCHANGED <<top, qjob, qsyn, ltop, lbot, ent, job, syn, nsched, ran>>

-----------------------------------------------------------------------------
(* thr_job_dequeue, by the owner *)

DequeueDec ==
  /\ pc[Owner] = "idle"
  /\ bot' = bot - 1
  /\ lbot' = [lbot EXCEPT ![Owner] = bot - 1]
  /\ ent' = [ent EXCEPT ![Owner] = Slot(bot - 1)]
  /\ Goto(Owner, "deq_top")
  /\ UNCHANGED <<top, qjob, qsyn, ltop, job, syn, nsched, ran>>

\* Mutant of DequeueTop: the last job is taken without the CAS.
DequeueTopMut ==
  /\ pc[Owner] = "deq_top"
  /\ ltop' = [ltop EXCEPT ![Owner] = top]
  /\ \/ lbot[Owner] - top >= 0 /\ Goto(Owner, "run_job")
     \/ lbot[Owner] - top < 0 /\ Goto(Owner, "deq_restore")
  /\ UNCHANGED <<shared, lbot, ent, job, syn, nsched, ran>>

\* Mutant of DequeueTop: a deque with one job is taken to be empty.
DequeueTopMut2 ==
  /\ pc[Owner] = "deq_top"
  /\ ltop' = [ltop EXCEPT ![Owner] = top]
  /\ \/ lbot[Owner] - top > 0 /\ Goto(Owner, "run_job")
     \/ lbot[Owner] - top <= 0 /\ Goto(Owner, "deq_restore")
  /\ UNCHANGED <<shared, lbot, ent, job, syn, nsched, ran>>

DequeueTop ==
  /\ pc[Owner] = "deq_top"
  /\ ltop' = [ltop EXCEPT ![Owner] = top]
  /\ \/ lbot[Owner] - top > 0 /\ Goto(Owner, "run_job")
     \/ lbot[Owner] = top /\ Goto(Owner, "deq_cas")
     \/ lbot[Owner] - top < 0 /\ Goto(Owner, "deq_restore")
  /\ UNCHANGED <<shared, lbot, ent, job, syn, nsched, ran>>

\* thr_consume_top: compare-and-swap of top; 'ok' and 'ko' say what follows.
thr_consume_top(t, ok, ko) ==
  IF top = ltop[t]
    THEN top' = ltop[t] + 1 /\ Goto(t, ok)
    ELSE Goto(t, ko) /\ UNCHANGED top

DequeueCas ==
  /\ pc[Owner] = "deq_cas"
  /\ thr_consume_top(Owner, "deq_reset", "deq_restore")
  /\ UNCHANGED <<bot, qjob, qsyn, ltop, lbot, ent, job, syn, nsched, ran>>

DequeueReset ==
  /\ pc[Owner] = "deq_reset"
  /\ bot' = ltop[Owner] + 1
  /\ Goto(Owner, "run_job")
  /\ UNCHANGED <<top, qjob, qsyn, ltop, lbot, ent, job, syn, nsched, ran>>

DequeueRestore ==
  /\ pc[Owner] = "deq_restore"
  /\ bot' = lbot[Owner] + 1
  /\ Goto(Owner, "idle")
  /\ UNCHANGED <<top, qjob, qsyn, ltop, lbot, ent, job, syn, nsched, ran>>

-----------------------------------------------------------------------------
(* thr_job_try_steal, by a thief *)

StealTop(t) ==
  /\ pc[t] = "idle"
  /\ ltop' = [ltop EXCEPT ![t] = top]
  /\ Goto(t, "steal_bot")
  /\ UNCHANGED <<shared, lbot, ent, job, syn, nsched, ran>>

\* Mutant of StealBot: off by one, the last job is not seen.
StealBotMut(t) ==
  /\ pc[t] = "steal_bot"
  /\ lbot' = [lbot EXCEPT ![t] = bot]
  /\ Goto(t, IF bot - ltop[t] > 1 THEN "steal_cas" ELSE "idle")
  /\ UNCHANGED <<shared, ltop, ent, job, syn, nsched, ran>>

\* Looks empty: the attempt returns 0.
StealBot(t) ==
  /\ pc[t] = "steal_bot"
  /\ lbot' = [lbot EXCEPT ![t] = bot]
  /\ Goto(t, IF bot - ltop[t] > 0 THEN "steal_cas" ELSE "idle")
  /\ UNCHANGED <<shared, ltop, ent, job, syn, nsched, ran>>

\* The CAS may fail: the attempt returns -1.
StealCas(t) ==
  /\ pc[t] = "steal_cas"
  /\ thr_consume_top(t, "run_job", "idle")
  /\ ent' = [ent EXCEPT ![t] = Slot(ltop[t])]
  /\ UNCHANGED <<bot, qjob, qsyn, ltop, lbot, job, syn, nsched, ran>>

-----------------------------------------------------------------------------
(* thr_run_deque_entry, by the owner or by a thief *)

RunLoadJob(t) ==
  /\ pc[t] = "run_job"
  /\ job' = [job EXCEPT ![t] = qjob[ent[t]]]
  /\ Goto(t, "run_syn")
  /\ UNCHANGED <<shared, ltop, lbot, ent, syn, nsched, ran>>

RunLoadSyn(t) ==
  /\ pc[t] = "run_syn"
  /\ syn' = [syn EXCEPT ![t] = qsyn[ent[t]]]
  /\ Goto(t, "run_clear")
  /\ UNCHANGED <<shared, ltop, lbot, ent, job, nsched, ran>>

\* Give the entry back, then run the job.
RunClear(t) ==
  /\ pc[t] = "run_clear"
  /\ qjob' = [qjob EXCEPT ![ent[t]] = NULL]
  /\ job_run(t, job[t])
  /\ UNCHANGED <<top, bot, qsyn, ltop, lbot, ent, job, syn, nsched>>

-----------------------------------------------------------------------------
thr_syn_schedule ==
  \/ ScheduleCall \/ ScheduleLimits \/ ScheduleSlot
  \/ ScheduleSyn \/ ScheduleJob \/ SchedulePublish

thr_job_dequeue ==
  DequeueDec \/ DequeueTop \/ DequeueCas \/ DequeueReset \/ DequeueRestore

thr_job_try_steal(t) == StealTop(t) \/ StealBot(t) \/ StealCas(t)

thr_run_deque_entry(t) == RunLoadJob(t) \/ RunLoadSyn(t) \/ RunClear(t)

Next ==
  \/ thr_syn_schedule
  \/ thr_job_dequeue
  \/ \E t \in Thieves : thr_job_try_steal(t)
  \/ \E t \in Threads : thr_run_deque_entry(t)

Spec == Init /\ [][Next]_vars

\* thr_job_main calls thr_job_dequeue again and again, no thread stops in the
\* middle of a call.  Nothing obliges a thief to come back.
Fairness ==
  /\ WF_vars(thr_syn_schedule /\ pc[Owner] # "idle")
  /\ WF_vars(thr_job_dequeue)
  /\ \A t \in Threads : WF_vars(thr_run_deque_entry(t))

FairSpec == Spec /\ Fairness

-----------------------------------------------------------------------------
(* Properties *)

TypeOK ==
  /\ top \in Nat
  /\ bot \in Int
  /\ qjob \in [Slots -> Jobs \cup {NULL}]
  /\ qsyn \in [Slots -> Jobs \cup {NULL}]
  /\ pc \in [Threads -> {"idle", "sched_bot"} \cup SchedPc \cup DeqPc
                          \cup StealPc \cup RunPc]
  /\ ltop \in [Threads -> Nat]
  /\ lbot \in [Threads -> Int]
  /\ ent \in [Threads -> Slots]
  /\ job \in [Threads -> Jobs \cup {NULL}]
  /\ syn \in [Threads -> Jobs \cup {NULL}]
  /\ nsched \in 0..MaxJobs
  /\ ran \in [Jobs -> Nat]

\* One past the last position holding a published job: the owner has already
\* moved 'bot' below the job it is trying to take.
Lim == IF pc[Owner] \in {"deq_top", "deq_cas"} THEN bot + 1 ELSE bot

\* Positions whose job nobody has taken yet.
Live == top..(Lim - 1)

\* Thread t is the only one entitled to the entry ent[t].
Claims(t) == pc[t] \in RunPc \cup {"sched_bot", "deq_reset"}

\* Stealing and popping race for the last job, and a slow thief still reads
\* its entry while the owner laps the deque: no job is ever run twice.
RunAtMostOnce == \A j \in Jobs : ran[j] <= 1

\* A scheduled job has been run, or is in the hands of the owner that is
\* scheduling it, or sits in an entry.
JobsHeld ==
  \A j \in 1..nsched :
     \/ ran[j] = 1
     \/ pc[Owner] \in SchedPc /\ job[Owner] = j
     \/ \E s \in Slots : qjob[s] = j

\* An entry that holds a job is between top and bot, or claimed by the thread
\* that will run it.
EntriesReachable ==
  \A s \in Slots : qjob[s] # NULL =>
     \/ \E p \in Live : Slot(p) = s
     \/ \E t \in Threads : Claims(t) /\ ent[t] = s

\* No job is lost, whoever wins the races for it.
NoJobLost == JobsHeld /\ EntriesReachable

\* A job is run with the syn it was scheduled with, although entry.syn is a
\* plain field that the owner overwrites as soon as entry.job is NULL, and no
\* thread ever runs a NULL job.
RunsItsOwnSyn ==
  \A t \in Threads : pc[t] = "run_clear" => job[t] # NULL /\ syn[t] = job[t]

\* When thr_job_try_steal answers "empty", every published job is taken, but
\* maybe the one the owner itself is taking: the caller, which goes to sleep
\* on that answer, leaves no job behind.
EmptyMeansTaken ==
  [][\A t \in Thieves :
        pc[t] = "steal_bot" /\ pc'[t] = "idle" => Live \subseteq {bot}]_vars

\* Every scheduled job is eventually run.
EveryJobRuns == (\E j \in 1..nsched : ran[j] = 0)
                  ~> (\A j \in 1..nsched : ran[j] = 1)
=============================================================================
