---------------------------- MODULE LifeProofs ----------------------------
(***************************************************************************)
(* Proofs about the objects that end while others still refer to them: the *)
(* syn, which the last of its users frees (ThrSyn), and the child events   *)
(* of the event loop, which their callbacks destroy (ElChild).             *)
(***************************************************************************)
EXTENDS ThrSyn, Sequences, FiniteSetTheorems, TLAPS

-----------------------------------------------------------------------------
(* ThrSyn. *)

JPc == {"new", "retained", "run", "broadcast", "release", "done", "assert"}
WPc == {"out", "get", "load", "cond", "sleep", "release", "wipe_release",
        "wipe_spin", "gone", "assert"}

TypeOK ==
  /\ pending \in Int /\ refcnt \in Int /\ key \in Int
  /\ freed \in BOOLEAN
  /\ jpc \in [Jobs -> JPc]
  /\ parent \in [Jobs -> Jobs \cup {Owner}]
  /\ wpc \in [Waiters -> WPc]
  /\ seen \in [Waiters -> Int]
  /\ wkey \in [Waiters -> Int]
  /\ until \in SUBSET Waiters

(***************************************************************************)
(* The inductive invariant.  The counters are the numbers of those they    *)
(* count; a job that is being queued has a parent that keeps pending or    *)
(* the owner busy; and a waiter that has seen no job pending, or is past   *)
(* its wait, knows that no job is left and that none can be queued.        *)
(***************************************************************************)

Running == {j \in Jobs : jpc[j] = "run"}
JobRefs == {j \in Jobs : jpc[j] \in {"retained", "run", "broadcast", "release"}}
WaitRefs == {w \in Waiters : wpc[w] \in {"get", "load", "cond", "sleep", "release"}}
OwnRef == IF wpc[Owner] \in {"wipe_spin", "gone"} THEN 0 ELSE 1

CountInv ==
  /\ pending = Cardinality(Running)
  /\ refcnt = Cardinality(JobRefs) + Cardinality(WaitRefs) + OwnRef

ParentInv ==
  \A j \in Jobs : jpc[j] = "retained" =>
     IF parent[j] = Owner THEN wpc[Owner] = "out" ELSE jpc[parent[j]] = "run"

PlaceInv ==
  /\ \A w \in Waiters : wpc[w] # "out" => wpc[Owner] # "out"
  /\ \A w \in Waiters \ {Owner} : wpc[w] \notin {"wipe_release", "wipe_spin"}
  /\ wpc[Owner] \in {"wipe_spin", "gone"} => \A w \in Waiters : wpc[w] # "out"
  /\ freed <=> wpc[Owner] = "gone"
  /\ freed => refcnt = 0

UntilInv ==
  \A w \in until :
    /\ jpc[UntilJob] \notin {"new", "retained"}
    /\ wpc[w] = "cond" /\ jpc[UntilJob] = "run" => seen[w] # 0

Quiet == \A j \in Jobs : jpc[j] \notin {"retained", "run"}

QuietInv ==
  \A w \in Waiters \ until :
    \/ wpc[w] \in {"release", "wipe_release", "wipe_spin", "gone"}
    \/ wpc[w] = "cond" /\ seen[w] = 0
    => Quiet

IInv ==
  /\ TypeOK /\ AssertsHold /\ CountInv /\ ParentInv /\ PlaceInv /\ UntilInv
  /\ QuietInv

\* What the counters say of those they count.
Held ==
  /\ wpc[Owner] \notin {"wipe_spin", "gone"} => refcnt > 0
  /\ \A j \in JobRefs : refcnt > 0
  /\ \A w \in WaitRefs : refcnt > 0
  /\ \A j \in Running : pending > 0
  /\ pending = 0 => Running = {}
  /\ refcnt = 0 => JobRefs = {} /\ WaitRefs = {}

\* Those that are counted form finite sets.
LEMMA Finite ==
  /\ IsFiniteSet(Running) /\ Cardinality(Running) \in Nat
  /\ IsFiniteSet(JobRefs) /\ Cardinality(JobRefs) \in Nat
  /\ IsFiniteSet(WaitRefs) /\ Cardinality(WaitRefs) \in Nat
  /\ OwnRef \in {0, 1}
  BY JobsAssumption, WaitersAssumption, FS_Subset, FS_CardinalityType
     DEF Running, JobRefs, WaitRefs, OwnRef

\* The counters are positive as long as somebody is counted, and only then.
LEMMA RefsHeld == ASSUME IInv PROVE Held
  <1>1. /\ Cardinality(Running) = 0 <=> Running = {}
        /\ Cardinality(JobRefs) = 0 <=> JobRefs = {}
        /\ Cardinality(WaitRefs) = 0 <=> WaitRefs = {}
    BY Finite, FS_EmptySet
  <1>2. OwnRef \in {0, 1} /\ (OwnRef = 0 <=> wpc[Owner] \in {"wipe_spin", "gone"})
    BY DEF OwnRef
  <1>3. QED
    <2>1. pending = 0 <=> Running = {}
      BY <1>1 DEF IInv, CountInv
    <2>2. pending >= 0 /\ refcnt >= 0
      BY <1>2, Finite DEF IInv, CountInv
    <2>3. refcnt = 0 <=> JobRefs = {} /\ WaitRefs = {} /\ OwnRef = 0
      <3>1. refcnt = 0 <=> /\ Cardinality(JobRefs) = 0 /\ Cardinality(WaitRefs) = 0
                           /\ OwnRef = 0
        BY <1>2, Finite DEF IInv, CountInv
      <3>2. QED
        BY <3>1, <1>1
    <2>4. pending \in Int /\ refcnt \in Int
      BY DEF IInv, TypeOK
    <2>5. QED
      BY <2>1, <2>2, <2>3, <2>4, <1>2 DEF Held

\* The types are kept.
LEMMA TypeNext == IInv /\ [Next]_vars => TypeOK'
  <1> SUFFICES ASSUME IInv, [Next]_vars PROVE TypeOK'
    OBVIOUS
  <1>inv. TypeOK
    BY DEF IInv
  <1> USE DEF JGoto, WGoto, Checked, JPc, WPc
  <1>1. ASSUME NEW j \in Jobs, PrepareRetain(j) \/ Job(j) PROVE TypeOK'
    <2>1. CASE PrepareRetain(j)
      BY <2>1, <1>inv DEF PrepareRetain, TypeOK
    <2>2. CASE PrepareAdd(j)
      BY <2>2, <1>inv DEF PrepareAdd, TypeOK
    <2>3. CASE DoneSub(j)
      BY <2>3, <1>inv DEF DoneSub, TypeOK
    <2>4. CASE DoneBroadcast(j)
      BY <2>4, <1>inv DEF DoneBroadcast, TypeOK
    <2>5. CASE DoneRelease(j)
      BY <2>5, <1>inv DEF DoneRelease, TypeOK
    <2>6. QED
      BY <1>1, <2>1, <2>2, <2>3, <2>4, <2>5 DEF Job
  <1>2. ASSUME NEW w \in Waiters, Wait(w) PROVE TypeOK'
    <2>1. CASE WaitRetain(w)
      BY <2>1, <1>inv DEF WaitRetain, TypeOK
    <2>2. CASE WaitGet(w)
      BY <2>2, <1>inv DEF WaitGet, TypeOK
    <2>3. CASE WaitLoad(w)
      BY <2>3, <1>inv DEF WaitLoad, TypeOK
    <2>4. CASE WaitCond(w)
      BY <2>4, <1>inv DEF WaitCond, TypeOK
    <2>5. CASE WaitSleep(w)
      BY <2>5, <1>inv DEF WaitSleep, TypeOK
    <2>6. CASE WaitRelease(w)
      BY <2>6, <1>inv DEF WaitRelease, TypeOK
    <2>7. QED
      BY <1>2, <2>1, <2>2, <2>3, <2>4, <2>5, <2>6 DEF Wait
  <1>3. CASE thr_syn_wipe
    <2>1. CASE WipeRelease
      BY <2>1, <1>inv, WaitersAssumption DEF WipeRelease, TypeOK
    <2>2. CASE WipeSpin
      BY <2>2, <1>inv, WaitersAssumption DEF WipeSpin, TypeOK
    <2>3. QED
      BY <1>3, <2>1, <2>2 DEF thr_syn_wipe
  <1>4. CASE UNCHANGED vars
    BY <1>4, <1>inv DEF vars, TypeOK
  <1>5. QED
    BY <1>1, <1>2, <1>3, <1>4 DEF Next

\* No assertion fails: whoever takes or drops a reference, or leaves pending, is
\* itself counted or relies on one who is, and syn_cond has loaded pending while
\* the job it waits for was counted.
LEMMA AssertsNext == IInv /\ [Next]_vars => AssertsHold'
  <1> SUFFICES ASSUME IInv, [Next]_vars PROVE AssertsHold'
    OBVIOUS
  <1>inv. TypeOK /\ AssertsHold /\ PlaceInv /\ UntilInv
    BY DEF IInv
  <1>ref. Held
    BY RefsHeld
  <1> USE DEF JGoto, WGoto, Checked, JPc, WPc
  <1>1. ASSUME NEW j \in Jobs, PrepareRetain(j) \/ Job(j) PROVE AssertsHold'
    <2>1. CASE PrepareRetain(j)
      <3>1. refcnt # 0
        BY <2>1, <1>inv, <1>ref DEF PrepareRetain, MayQueue, Held, JobRefs, TypeOK
      <3>2. QED
        BY <2>1, <3>1, <1>inv DEF PrepareRetain, TypeOK, AssertsHold
    <2>2. CASE PrepareAdd(j)
      BY <2>2, <1>inv, <1>ref DEF PrepareAdd, TypeOK, AssertsHold
    <2>3. CASE DoneSub(j)
      BY <2>3, <1>inv, <1>ref DEF DoneSub, TypeOK, AssertsHold, Held,
         Running
    <2>4. CASE DoneBroadcast(j)
      BY <2>4, <1>inv, <1>ref DEF DoneBroadcast, TypeOK, AssertsHold
    <2>5. CASE DoneRelease(j)
      BY <2>5, <1>inv, <1>ref DEF DoneRelease, TypeOK, AssertsHold,
         Held, JobRefs
    <2>6. QED
      BY <1>1, <2>1, <2>2, <2>3, <2>4, <2>5 DEF Job
  <1>2. ASSUME NEW w \in Waiters, Wait(w) PROVE AssertsHold'
    <2>1. CASE WaitRetain(w)
      BY <2>1, <1>inv, <1>ref DEF WaitRetain, TypeOK, AssertsHold, Held,
         PlaceInv
    <2>2. CASE WaitGet(w)
      BY <2>2, <1>inv, <1>ref DEF WaitGet, TypeOK, AssertsHold
    <2>3. CASE WaitLoad(w)
      BY <2>3, <1>inv, <1>ref DEF WaitLoad, TypeOK, AssertsHold
    <2>4. CASE WaitCond(w)
      BY <2>4, <1>inv, <1>ref, UntilAssumption DEF WaitCond, TypeOK,
         AssertsHold, cond, UntilInv
    <2>5. CASE WaitSleep(w)
      BY <2>5, <1>inv, <1>ref DEF WaitSleep, TypeOK, AssertsHold
    <2>6. CASE WaitRelease(w)
      BY <2>6, <1>inv, <1>ref DEF WaitRelease, TypeOK, AssertsHold,
         Held, WaitRefs
    <2>7. QED
      BY <1>2, <2>1, <2>2, <2>3, <2>4, <2>5, <2>6 DEF Wait
  <1>3. CASE thr_syn_wipe
    <2>1. CASE WipeRelease
      BY <2>1, <1>inv, <1>ref DEF WipeRelease, TypeOK, AssertsHold, Held
    <2>2. CASE WipeSpin
      BY <2>2, <1>inv, <1>ref DEF WipeSpin, TypeOK, AssertsHold
    <2>3. QED
      BY <1>3, <2>1, <2>2 DEF thr_syn_wipe
  <1>4. CASE UNCHANGED vars
    BY <1>4, <1>inv, <1>ref DEF vars, TypeOK, AssertsHold
  <1>5. QED
    BY <1>1, <1>2, <1>3, <1>4 DEF Next

\* pending and refcnt count the jobs that run and those who hold a reference.
LEMMA CountNext == IInv /\ [Next]_vars => CountInv'
  <1> SUFFICES ASSUME IInv, [Next]_vars PROVE CountInv'
    OBVIOUS
  <1>inv. TypeOK /\ CountInv
    BY DEF IInv
  <1> USE DEF JGoto, WGoto, Checked, JPc, WPc
  <1>1. ASSUME NEW j \in Jobs, PrepareRetain(j) \/ Job(j) PROVE CountInv'
    <2>1. CASE PrepareRetain(j)
      <3>1. AssertsHold'
        BY AssertsNext
      <3>2. /\ j \notin JobRefs /\ JobRefs' = JobRefs \cup {j}
            /\ Running' = Running /\ WaitRefs' = WaitRefs /\ OwnRef' = OwnRef
        BY <2>1, <3>1, <1>inv, WaitersAssumption DEF PrepareRetain, TypeOK, AssertsHold,
           Running, JobRefs, WaitRefs, OwnRef
      <3>3. Cardinality(JobRefs') = Cardinality(JobRefs) + 1
        BY <3>2, Finite, FS_AddElement
      <3>4. QED
        BY <2>1, <3>2, <3>3, <1>inv, Finite DEF PrepareRetain, CountInv, TypeOK
    <2>2. CASE PrepareAdd(j)
      <3>1. AssertsHold'
        BY AssertsNext
      <3>2. /\ j \notin Running /\ Running' = Running \cup {j}
            /\ JobRefs' = JobRefs /\ WaitRefs' = WaitRefs /\ OwnRef' = OwnRef
        BY <2>2, <3>1, <1>inv, WaitersAssumption DEF PrepareAdd, TypeOK, AssertsHold,
           Running, JobRefs, WaitRefs, OwnRef
      <3>3. Cardinality(Running') = Cardinality(Running) + 1
        BY <3>2, Finite, FS_AddElement
      <3>4. QED
        BY <2>2, <3>2, <3>3, <1>inv, Finite DEF PrepareAdd, CountInv, TypeOK
    <2>3. CASE DoneSub(j)
      <3>1. AssertsHold'
        BY AssertsNext
      <3>2. /\ j \in Running /\ Running' = Running \ {j}
            /\ JobRefs' = JobRefs /\ WaitRefs' = WaitRefs /\ OwnRef' = OwnRef
        BY <2>3, <3>1, <1>inv, WaitersAssumption DEF DoneSub, TypeOK, AssertsHold,
           Running, JobRefs, WaitRefs, OwnRef
      <3>3. Cardinality(Running') = Cardinality(Running) - 1
        BY <3>2, Finite, FS_RemoveElement
      <3>4. QED
        BY <2>3, <3>2, <3>3, <1>inv, Finite DEF DoneSub, CountInv, TypeOK
    <2>4. CASE DoneBroadcast(j)
      <3>1. Running' = Running /\ JobRefs' = JobRefs /\ WaitRefs' = WaitRefs
              /\ OwnRef' = OwnRef
        BY <2>4, <1>inv, WaitersAssumption DEF DoneBroadcast, TypeOK, Running, JobRefs,
           WaitRefs, OwnRef
      <3>2. QED
        BY <2>4, <3>1, <1>inv DEF DoneBroadcast, CountInv
    <2>5. CASE DoneRelease(j)
      <3>1. AssertsHold'
        BY AssertsNext
      <3>2. /\ j \in JobRefs /\ JobRefs' = JobRefs \ {j}
            /\ Running' = Running /\ WaitRefs' = WaitRefs /\ OwnRef' = OwnRef
        BY <2>5, <3>1, <1>inv, WaitersAssumption DEF DoneRelease, TypeOK, AssertsHold,
           Running, JobRefs, WaitRefs, OwnRef
      <3>3. Cardinality(JobRefs') = Cardinality(JobRefs) - 1
        BY <3>2, Finite, FS_RemoveElement
      <3>4. QED
        BY <2>5, <3>2, <3>3, <1>inv, Finite DEF DoneRelease, CountInv, TypeOK
    <2>6. QED
      BY <1>1, <2>1, <2>2, <2>3, <2>4, <2>5 DEF Job
  <1>2. ASSUME NEW w \in Waiters, Wait(w) PROVE CountInv'
    <2>1. CASE WaitRetain(w)
      <3>1. AssertsHold'
        BY AssertsNext
      <3>2. /\ w \notin WaitRefs /\ WaitRefs' = WaitRefs \cup {w}
            /\ Running' = Running /\ JobRefs' = JobRefs /\ OwnRef' = OwnRef
        BY <2>1, <3>1, <1>inv, WaitersAssumption DEF WaitRetain, TypeOK, AssertsHold,
           Running, JobRefs, WaitRefs, OwnRef
      <3>3. Cardinality(WaitRefs') = Cardinality(WaitRefs) + 1
        BY <3>2, Finite, FS_AddElement
      <3>4. QED
        BY <2>1, <3>2, <3>3, <1>inv, Finite DEF WaitRetain, CountInv, TypeOK
    <2>2. CASE WaitGet(w)
      <3>1. Running' = Running /\ JobRefs' = JobRefs /\ WaitRefs' = WaitRefs
              /\ OwnRef' = OwnRef
        BY <2>2, <1>inv, WaitersAssumption DEF WaitGet, TypeOK, Running, JobRefs,
           WaitRefs, OwnRef
      <3>2. QED
        BY <2>2, <3>1, <1>inv DEF WaitGet, CountInv
    <2>3. CASE WaitLoad(w)
      <3>1. Running' = Running /\ JobRefs' = JobRefs /\ WaitRefs' = WaitRefs
              /\ OwnRef' = OwnRef
        BY <2>3, <1>inv, WaitersAssumption DEF WaitLoad, TypeOK, Running, JobRefs,
           WaitRefs, OwnRef
      <3>2. QED
        BY <2>3, <3>1, <1>inv DEF WaitLoad, CountInv
    <2>4. CASE WaitCond(w)
      <3>0. wpc' \in [Waiters -> WPc] /\ AssertsHold'
        BY AssertsNext, TypeNext DEF TypeOK
      <3>1. Running' = Running /\ JobRefs' = JobRefs /\ WaitRefs' = WaitRefs
              /\ OwnRef' = OwnRef
        BY <2>4, <3>0, <1>inv, WaitersAssumption DEF WaitCond, TypeOK, Running, JobRefs,
           WaitRefs, OwnRef, AssertsHold
      <3>2. QED
        BY <2>4, <3>1, <1>inv DEF WaitCond, CountInv
    <2>5. CASE WaitSleep(w)
      <3>1. Running' = Running /\ JobRefs' = JobRefs /\ WaitRefs' = WaitRefs
              /\ OwnRef' = OwnRef
        BY <2>5, <1>inv, WaitersAssumption DEF WaitSleep, TypeOK, Running, JobRefs,
           WaitRefs, OwnRef
      <3>2. QED
        BY <2>5, <3>1, <1>inv DEF WaitSleep, CountInv
    <2>6. CASE WaitRelease(w)
      <3>1. AssertsHold'
        BY AssertsNext
      <3>2. /\ w \in WaitRefs /\ WaitRefs' = WaitRefs \ {w}
            /\ Running' = Running /\ JobRefs' = JobRefs /\ OwnRef' = OwnRef
        BY <2>6, <3>1, <1>inv, WaitersAssumption DEF WaitRelease, TypeOK, AssertsHold,
           Running, JobRefs, WaitRefs, OwnRef
      <3>3. Cardinality(WaitRefs') = Cardinality(WaitRefs) - 1
        BY <3>2, Finite, FS_RemoveElement
      <3>4. QED
        BY <2>6, <3>2, <3>3, <1>inv, Finite DEF WaitRelease, CountInv, TypeOK
    <2>7. QED
      BY <1>2, <2>1, <2>2, <2>3, <2>4, <2>5, <2>6 DEF Wait
  <1>3. CASE thr_syn_wipe
    <2>1. CASE WipeRelease
      <3>1. AssertsHold'
        BY AssertsNext
      <3>2. /\ OwnRef = 1 /\ OwnRef' = 0
            /\ Running' = Running /\ JobRefs' = JobRefs /\ WaitRefs' = WaitRefs
        BY <2>1, <3>1, <1>inv, WaitersAssumption DEF WipeRelease, TypeOK, AssertsHold,
           Running, JobRefs, WaitRefs, OwnRef
      <3>3. OwnRef' = OwnRef - 1
        BY <3>2, Finite, FS_CardinalityType
      <3>4. QED
        BY <2>1, <3>2, <3>3, <1>inv, Finite DEF WipeRelease, CountInv, TypeOK
    <2>2. CASE WipeSpin
      <3>1. Running' = Running /\ JobRefs' = JobRefs /\ WaitRefs' = WaitRefs
              /\ OwnRef' = OwnRef
        BY <2>2, <1>inv, WaitersAssumption DEF WipeSpin, TypeOK, Running, JobRefs,
           WaitRefs, OwnRef
      <3>2. QED
        BY <2>2, <3>1, <1>inv DEF WipeSpin, CountInv
    <2>3. QED
      BY <1>3, <2>1, <2>2 DEF thr_syn_wipe
  <1>4. CASE UNCHANGED vars
    <2>1. Running' = Running /\ JobRefs' = JobRefs /\ WaitRefs' = WaitRefs
            /\ OwnRef' = OwnRef
      BY <1>4 DEF vars, Running, JobRefs, WaitRefs, OwnRef
    <2>2. QED
      BY <1>4, <2>1, <1>inv DEF vars, CountInv
  <1>5. QED
    BY <1>1, <1>2, <1>3, <1>4 DEF Next

\* Who queues a job does nothing else until the job is counted.
LEMMA ParentNext == IInv /\ [Next]_vars => ParentInv'
  <1> SUFFICES ASSUME IInv, [Next]_vars PROVE ParentInv'
    OBVIOUS
  <1>inv. TypeOK /\ ParentInv
    BY DEF IInv
  <1> USE DEF JGoto, WGoto, Checked, JPc, WPc
  <1>1. ASSUME NEW j \in Jobs, PrepareRetain(j) \/ Job(j) PROVE ParentInv'
    <2>1. CASE PrepareRetain(j)
      BY <2>1, <1>inv, JobsAssumption, WaitersAssumption DEF
         PrepareRetain, TypeOK, ParentInv, MayQueue, Queuing
    <2>2. CASE PrepareAdd(j)
      BY <2>2, <1>inv, JobsAssumption, WaitersAssumption DEF PrepareAdd,
         TypeOK, ParentInv
    <2>3. CASE DoneSub(j)
      BY <2>3, <1>inv, JobsAssumption, WaitersAssumption DEF DoneSub,
         TypeOK, ParentInv, Queuing
    <2>4. CASE DoneBroadcast(j)
      BY <2>4, <1>inv, JobsAssumption, WaitersAssumption DEF
         DoneBroadcast, TypeOK, ParentInv
    <2>5. CASE DoneRelease(j)
      BY <2>5, <1>inv, JobsAssumption, WaitersAssumption DEF
         DoneRelease, TypeOK, ParentInv
    <2>6. QED
      BY <1>1, <2>1, <2>2, <2>3, <2>4, <2>5 DEF Job
  <1>2. ASSUME NEW w \in Waiters, Wait(w) PROVE ParentInv'
    <2>1. CASE WaitRetain(w)
      BY <2>1, <1>inv, JobsAssumption, WaitersAssumption DEF WaitRetain,
         TypeOK, ParentInv, Queuing
    <2>2. CASE WaitGet(w)
      BY <2>2, <1>inv, JobsAssumption, WaitersAssumption DEF WaitGet,
         TypeOK, ParentInv
    <2>3. CASE WaitLoad(w)
      BY <2>3, <1>inv, JobsAssumption, WaitersAssumption DEF WaitLoad,
         TypeOK, ParentInv
    <2>4. CASE WaitCond(w)
      BY <2>4, <1>inv, JobsAssumption, WaitersAssumption DEF WaitCond,
         TypeOK, ParentInv
    <2>5. CASE WaitSleep(w)
      BY <2>5, <1>inv, JobsAssumption, WaitersAssumption DEF WaitSleep,
         TypeOK, ParentInv
    <2>6. CASE WaitRelease(w)
      BY <2>6, <1>inv, JobsAssumption, WaitersAssumption DEF
         WaitRelease, TypeOK, ParentInv
    <2>7. QED
      BY <1>2, <2>1, <2>2, <2>3, <2>4, <2>5, <2>6 DEF Wait
  <1>3. CASE thr_syn_wipe
    <2>1. CASE WipeRelease
      BY <2>1, <1>inv, JobsAssumption, WaitersAssumption DEF
         WipeRelease, TypeOK, ParentInv
    <2>2. CASE WipeSpin
      BY <2>2, <1>inv, JobsAssumption, WaitersAssumption DEF WipeSpin,
         TypeOK, ParentInv
    <2>3. QED
      BY <1>3, <2>1, <2>2 DEF thr_syn_wipe
  <1>4. CASE UNCHANGED vars
    BY <1>4, <1>inv, JobsAssumption, WaitersAssumption DEF vars, TypeOK,
       ParentInv
  <1>5. QED
    BY <1>1, <1>2, <1>3, <1>4 DEF Next

\* The waits are between the owner's first step and its last.
LEMMA PlaceNext == IInv /\ [Next]_vars => PlaceInv'
  <1> SUFFICES ASSUME IInv, [Next]_vars PROVE PlaceInv'
    OBVIOUS
  <1>inv. TypeOK /\ PlaceInv
    BY DEF IInv
  <1>ref. Held
    BY RefsHeld
  <1> USE DEF JGoto, WGoto, Checked, JPc, WPc
  <1>1. ASSUME NEW j \in Jobs, PrepareRetain(j) \/ Job(j) PROVE PlaceInv'
    <2>1. CASE PrepareRetain(j)
      BY <2>1, <1>inv, <1>ref, WaitersAssumption DEF PrepareRetain,
         TypeOK, PlaceInv, Held, MayQueue, JobRefs
    <2>2. CASE PrepareAdd(j)
      BY <2>2, <1>inv, <1>ref, WaitersAssumption DEF PrepareAdd, TypeOK,
         PlaceInv
    <2>3. CASE DoneSub(j)
      BY <2>3, <1>inv, <1>ref, WaitersAssumption DEF DoneSub, TypeOK,
         PlaceInv
    <2>4. CASE DoneBroadcast(j)
      BY <2>4, <1>inv, <1>ref, WaitersAssumption DEF DoneBroadcast,
         TypeOK, PlaceInv
    <2>5. CASE DoneRelease(j)
      BY <2>5, <1>inv, <1>ref, WaitersAssumption DEF DoneRelease,
         TypeOK, PlaceInv, Held, JobRefs
    <2>6. QED
      BY <1>1, <2>1, <2>2, <2>3, <2>4, <2>5 DEF Job
  <1>2. ASSUME NEW w \in Waiters, Wait(w) PROVE PlaceInv'
    <2>1. CASE WaitRetain(w)
      BY <2>1, <1>inv, <1>ref, WaitersAssumption DEF WaitRetain, TypeOK,
         PlaceInv, Held
    <2>2. CASE WaitGet(w)
      BY <2>2, <1>inv, <1>ref, WaitersAssumption DEF WaitGet, TypeOK,
         PlaceInv
    <2>3. CASE WaitLoad(w)
      BY <2>3, <1>inv, <1>ref, WaitersAssumption DEF WaitLoad, TypeOK,
         PlaceInv
    <2>4. CASE WaitCond(w)
      BY <2>4, <1>inv, <1>ref, WaitersAssumption DEF WaitCond, TypeOK,
         PlaceInv
    <2>5. CASE WaitSleep(w)
      BY <2>5, <1>inv, <1>ref, WaitersAssumption DEF WaitSleep, TypeOK,
         PlaceInv
    <2>6. CASE WaitRelease(w)
      BY <2>6, <1>inv, <1>ref, WaitersAssumption DEF WaitRelease,
         TypeOK, PlaceInv, Held, WaitRefs
    <2>7. QED
      BY <1>2, <2>1, <2>2, <2>3, <2>4, <2>5, <2>6 DEF Wait
  <1>3. CASE thr_syn_wipe
    <2>1. CASE WipeRelease
      BY <2>1, <1>inv, <1>ref, WaitersAssumption DEF WipeRelease,
         TypeOK, PlaceInv, Held
    <2>2. CASE WipeSpin
      BY <2>2, <1>inv, <1>ref, WaitersAssumption DEF WipeSpin, TypeOK,
         PlaceInv
    <2>3. QED
      BY <1>3, <2>1, <2>2 DEF thr_syn_wipe
  <1>4. CASE UNCHANGED vars
    BY <1>4, <1>inv, <1>ref, WaitersAssumption DEF vars, TypeOK, PlaceInv
  <1>5. QED
    BY <1>1, <1>2, <1>3, <1>4 DEF Next

\* A condition is waited for while the job that makes it true is queued, and as
\* long as this job runs pending is seen positive.
LEMMA UntilNext == IInv /\ [Next]_vars => UntilInv'
  <1> SUFFICES ASSUME IInv, [Next]_vars PROVE UntilInv'
    OBVIOUS
  <1>inv. TypeOK /\ UntilInv
    BY DEF IInv
  <1>ref. Held
    BY RefsHeld
  <1> USE DEF JGoto, WGoto, Checked, JPc, WPc
  <1>1. ASSUME NEW j \in Jobs, PrepareRetain(j) \/ Job(j) PROVE UntilInv'
    <2>1. CASE PrepareRetain(j)
      BY <2>1, <1>inv, <1>ref, UntilAssumption DEF PrepareRetain,
         TypeOK, UntilInv
    <2>2. CASE PrepareAdd(j)
      BY <2>2, <1>inv, <1>ref, UntilAssumption DEF PrepareAdd, TypeOK,
         UntilInv
    <2>3. CASE DoneSub(j)
      BY <2>3, <1>inv, <1>ref, UntilAssumption DEF DoneSub, TypeOK,
         UntilInv
    <2>4. CASE DoneBroadcast(j)
      BY <2>4, <1>inv, <1>ref, UntilAssumption DEF DoneBroadcast,
         TypeOK, UntilInv
    <2>5. CASE DoneRelease(j)
      BY <2>5, <1>inv, <1>ref, UntilAssumption DEF DoneRelease, TypeOK,
         UntilInv
    <2>6. QED
      BY <1>1, <2>1, <2>2, <2>3, <2>4, <2>5 DEF Job
  <1>2. ASSUME NEW w \in Waiters, Wait(w) PROVE UntilInv'
    <2>1. CASE WaitRetain(w)
      BY <2>1, <1>inv, <1>ref, UntilAssumption DEF WaitRetain, TypeOK,
         UntilInv
    <2>2. CASE WaitGet(w)
      BY <2>2, <1>inv, <1>ref, UntilAssumption DEF WaitGet, TypeOK,
         UntilInv
    <2>3. CASE WaitLoad(w)
      BY <2>3, <1>inv, <1>ref, UntilAssumption DEF WaitLoad, TypeOK,
         UntilInv, Held, Running
    <2>4. CASE WaitCond(w)
      BY <2>4, <1>inv, <1>ref, UntilAssumption DEF WaitCond, TypeOK,
         UntilInv
    <2>5. CASE WaitSleep(w)
      BY <2>5, <1>inv, <1>ref, UntilAssumption DEF WaitSleep, TypeOK,
         UntilInv
    <2>6. CASE WaitRelease(w)
      BY <2>6, <1>inv, <1>ref, UntilAssumption DEF WaitRelease, TypeOK,
         UntilInv
    <2>7. QED
      BY <1>2, <2>1, <2>2, <2>3, <2>4, <2>5, <2>6 DEF Wait
  <1>3. CASE thr_syn_wipe
    <2>1. CASE WipeRelease
      BY <2>1, <1>inv, <1>ref, UntilAssumption DEF WipeRelease, TypeOK,
         UntilInv
    <2>2. CASE WipeSpin
      BY <2>2, <1>inv, <1>ref, UntilAssumption DEF WipeSpin, TypeOK,
         UntilInv
    <2>3. QED
      BY <1>3, <2>1, <2>2 DEF thr_syn_wipe
  <1>4. CASE UNCHANGED vars
    BY <1>4, <1>inv, <1>ref, UntilAssumption DEF vars, TypeOK, UntilInv
  <1>5. QED
    BY <1>1, <1>2, <1>3, <1>4 DEF Next

\* A waiter that has seen no job pending, or whose wait is over, knows that no job
\* runs or is being queued, and nobody is left to queue one.
LEMMA QuietNext == IInv /\ [Next]_vars => QuietInv'
  <1> SUFFICES ASSUME IInv, [Next]_vars PROVE QuietInv'
    OBVIOUS
  <1>inv. TypeOK /\ QuietInv /\ ParentInv /\ PlaceInv
    BY DEF IInv
  <1>ref. Held
    BY RefsHeld
  <1> USE DEF JGoto, WGoto, Checked, JPc, WPc
  <1>1. ASSUME NEW j \in Jobs, PrepareRetain(j) \/ Job(j) PROVE QuietInv'
    <2>1. CASE PrepareRetain(j)
      BY <2>1, <1>inv, WaitersAssumption DEF PrepareRetain, TypeOK,
         QuietInv, Quiet, MayQueue, PlaceInv
    <2>2. CASE PrepareAdd(j)
      BY <2>2, <1>inv DEF PrepareAdd, TypeOK, QuietInv, Quiet
    <2>3. CASE DoneSub(j)
      BY <2>3, <1>inv DEF DoneSub, TypeOK, QuietInv, Quiet
    <2>4. CASE DoneBroadcast(j)
      BY <2>4, <1>inv DEF DoneBroadcast, TypeOK, QuietInv, Quiet
    <2>5. CASE DoneRelease(j)
      BY <2>5, <1>inv DEF DoneRelease, TypeOK, QuietInv, Quiet
    <2>6. QED
      BY <1>1, <2>1, <2>2, <2>3, <2>4, <2>5 DEF Job
  <1>2. ASSUME NEW w \in Waiters, Wait(w) PROVE QuietInv'
    <2>1. CASE WaitRetain(w)
      BY <2>1, <1>inv DEF WaitRetain, TypeOK, QuietInv, Quiet
    <2>2. CASE WaitGet(w)
      BY <2>2, <1>inv DEF WaitGet, TypeOK, QuietInv, Quiet
    <2>3. CASE WaitLoad(w)
      <3>1. pending = 0 => Quiet
        BY <2>3, <1>inv, <1>ref, WaitersAssumption DEF WaitLoad, TypeOK, Quiet, Held,
           Running, ParentInv, PlaceInv
      <3>2. QED
        BY <2>3, <3>1, <1>inv DEF WaitLoad, TypeOK, QuietInv, Quiet
    <2>4. CASE WaitCond(w)
      BY <2>4, <1>inv DEF WaitCond, TypeOK, QuietInv, Quiet
    <2>5. CASE WaitSleep(w)
      BY <2>5, <1>inv DEF WaitSleep, TypeOK, QuietInv, Quiet
    <2>6. CASE WaitRelease(w)
      BY <2>6, <1>inv DEF WaitRelease, TypeOK, QuietInv, Quiet
    <2>7. QED
      BY <1>2, <2>1, <2>2, <2>3, <2>4, <2>5, <2>6 DEF Wait
  <1>3. CASE thr_syn_wipe
    <2>1. CASE WipeRelease
      BY <2>1, <1>inv DEF WipeRelease, TypeOK, QuietInv, Quiet
    <2>2. CASE WipeSpin
      BY <2>2, <1>inv DEF WipeSpin, TypeOK, QuietInv, Quiet
    <2>3. QED
      BY <1>3, <2>1, <2>2 DEF thr_syn_wipe
  <1>4. CASE UNCHANGED vars
    BY <1>4, <1>inv DEF vars, TypeOK, QuietInv, Quiet
  <1>5. QED
    BY <1>1, <1>2, <1>3, <1>4 DEF Next

-----------------------------------------------------------------------------
\* The invariant holds from thr_syn_init on.
LEMMA InitInv == Init => IInv
  <1> SUFFICES ASSUME Init PROVE IInv
    OBVIOUS
  <1>1. TypeOK /\ AssertsHold /\ ParentInv /\ PlaceInv /\ UntilInv /\ QuietInv
    <2>1. TypeOK
      <3>1. freed \in BOOLEAN /\ until \in SUBSET Waiters
        BY DEF Init
      <3>2. /\ pending \in Int /\ refcnt \in Int /\ key \in Int
            /\ jpc \in [Jobs -> JPc] /\ parent \in [Jobs -> Jobs \cup {Owner}]
            /\ wpc \in [Waiters -> WPc]
            /\ seen \in [Waiters -> Int] /\ wkey \in [Waiters -> Int]
        BY DEF Init, JPc, WPc
      <3>3. QED
        BY <3>1, <3>2 DEF TypeOK
    <2>2. AssertsHold /\ ParentInv /\ UntilInv
      BY DEF Init, AssertsHold, ParentInv, UntilInv
    <2>3. PlaceInv /\ QuietInv
      BY WaitersAssumption DEF Init, PlaceInv, QuietInv
    <2>4. QED
      BY <2>1, <2>2, <2>3
  <1>2. Running = {} /\ JobRefs = {} /\ WaitRefs = {} /\ OwnRef = 1
    BY WaitersAssumption DEF Init, Running, JobRefs, WaitRefs, OwnRef
  <1>3. CountInv
    BY <1>2, FS_EmptySet DEF Init, CountInv
  <1>4. QED
    BY <1>1, <1>3 DEF IInv

\* Every step keeps the invariant.
LEMMA InvNext == IInv /\ [Next]_vars => IInv'
  BY TypeNext, AssertsNext, CountNext, ParentNext, PlaceNext, UntilNext, QuietNext
     DEF IInv

\* The counters, the places and the parents agree in every state, whatever the
\* jobs and the waiters.
THEOREM Invariance == Spec => []IInv
  BY InitInv, InvNext, PTL DEF Spec

\* thr_syn_wipe leaves its loop, and the syn is freed, only when no job and no
\* waiter will touch it again.
THEOREM FreeIsLast == Spec => []NoUseAfterFree
  <1>1. IInv => NoUseAfterFree
    <2> SUFFICES ASSUME IInv, freed PROVE
          /\ \A j \in Jobs : jpc[j] \in {"new", "done"}
          /\ \A w \in Waiters : wpc[w] = "gone"
      BY DEF NoUseAfterFree
    <2>1. JobRefs = {} /\ WaitRefs = {}
      BY RefsHeld DEF IInv, PlaceInv, Held
    <2>2. QED
      BY <2>1, WaitersAssumption DEF IInv, TypeOK, JPc, WPc, AssertsHold, PlaceInv,
         JobRefs, WaitRefs
  <1>2. QED
    BY <1>1, Invariance, PTL

\* A plain wait returns when no job is left, and no assertion of thr_syn__retain,
\* thr_syn__release, thr_syn__job_done and syn_cond fails.
THEOREM CountsAreSound == Spec => []CountsSound
  <1>1. IInv => CountsSound
    BY DEF IInv, QuietInv, Quiet, CountsSound, WaitMeansDone
  <1>2. QED
    BY <1>1, Invariance, PTL

\* No step touches the memory of a syn that was freed: neither a late job nor a
\* late waiter counts on it, signals it or drops a reference.
NoTouchAfterFree == [][freed => UNCHANGED <<pending, refcnt, key, freed>>]_vars

\* Once thr_syn_wipe has returned nothing of the syn is read or written.
THEOREM FreedIsUntouched == Spec => NoTouchAfterFree
  <1>1. IInv /\ [Next]_vars => [freed => UNCHANGED <<pending, refcnt, key, freed>>]_vars
    <2> SUFFICES ASSUME IInv, Next, freed
                 PROVE  UNCHANGED <<pending, refcnt, key, freed>>
      BY DEF vars
    <2>1. /\ \A j \in Jobs : jpc[j] \in {"new", "done"}
          /\ \A w \in Waiters : wpc[w] = "gone"
      <3>1. JobRefs = {} /\ WaitRefs = {}
        BY RefsHeld DEF IInv, PlaceInv, Held
      <3>2. QED
        BY <3>1, WaitersAssumption DEF IInv, TypeOK, JPc, WPc, AssertsHold, PlaceInv,
           JobRefs, WaitRefs
    <2>2. ASSUME NEW j \in Jobs, PrepareRetain(j) \/ Job(j) PROVE FALSE
      BY <2>1, <2>2, WaitersAssumption DEF PrepareRetain, MayQueue, Job, PrepareAdd,
         DoneSub, DoneBroadcast, DoneRelease
    <2>3. ASSUME NEW w \in Waiters, Wait(w) PROVE FALSE
      BY <2>1, <2>3 DEF Wait, WaitRetain, WaitGet, WaitLoad, WaitCond, WaitSleep,
         WaitRelease
    <2>4. ~thr_syn_wipe
      BY <2>1, WaitersAssumption DEF thr_syn_wipe, WipeRelease, WipeSpin
    <2>5. QED
      BY <2>2, <2>3, <2>4 DEF Next
  <1>2. QED
    BY <1>1, Invariance, PTL DEF Spec, NoTouchAfterFree

-----------------------------------------------------------------------------
(* ElChild.  An event that is live can be found by the loop or is about to *)
(* be fired, and one that is fired or destroyed is in no table.            *)
CONSTANTS Pids, NONE, MaxNest, Careless
VARIABLES proc, childs, ev, exited, hook, forking, got, before, frames, broken, late

C == INSTANCE ElChild


FrameRec == [pc : {"before", "clear", "scan", "hook"}, batch : SUBSET Pids,
             at : Pids \cup {NONE}]

ChildTypeOK ==
  /\ proc \in [Pids -> {"none", "running", "zombie", "reaped"}]
  /\ childs \in [Pids -> {NONE, C!Watched, C!Null}]
  /\ ev \in [Pids -> {"none", "live", "destroyed"}]
  /\ exited \subseteq Pids /\ before \subseteq exited
  /\ forking \in Pids \cup {NONE}
  /\ frames \in Seq(FrameRec)
  /\ broken = FALSE /\ late = FALSE

\* An event is not older than its process is known, an entry with an event leads
\* to one that is live, and one registered dead is in no entry.
EventInv ==
  /\ \A p \in Pids : proc[p] = "none" \/ forking = p => ev[p] = "none"
  /\ \A p \in Pids : childs[p] = C!Watched => ev[p] = "live"
  /\ \A p \in exited : ev[p] # "none" /\ childs[p] # C!Watched

\* A live event can be found, or is on its way to be fired.
FoundInv ==
  \A p \in Pids : ev[p] = "live" =>
    childs[p] = C!Watched \/ p \in exited \/ C!InBatch(p) \/ C!InCallback(p)

\* The event a frame f fires.
AtInv(f) ==
  f.at # NONE => /\ ev[f.at] # "none" /\ childs[f.at] # C!Watched
                 /\ f.pc = "hook" => f.at \notin exited

\* The events the loop at i is about to fire are fired by no other.
BatchInv(i) ==
  LET f == frames[i]
  IN /\ f.pc = "before" =>
          /\ f.batch \subseteq exited
          /\ \A p \in f.batch : ev[p] = "live" => ~C!InCallback(p)
     /\ f.pc = "hook" => \A p \in f.batch :
          /\ ev[p] = "live" /\ childs[p] # C!Watched /\ p \notin exited /\ ~C!InCallback(p)
          /\ \A j \in DOMAIN frames : j # i /\ frames[j].pc = "hook" => p \notin frames[j].batch

FrameInv ==
  /\ \A i \in DOMAIN frames : i < Len(frames) => frames[i].pc = "hook"
  /\ \A i \in DOMAIN frames : AtInv(frames[i]) /\ BatchInv(i)

ChildInv == ChildTypeOK /\ EventInv /\ FoundInv /\ FrameInv

\* At the start nothing is registered.
LEMMA ChildInit == ASSUME C!ChildConstants, C!Init PROVE ChildInv
  <1>1. frames = <<>> /\ DOMAIN frames = {} /\ frames \in Seq(FrameRec)
    BY DEF C!Init
  <1>2. ChildTypeOK
    BY <1>1 DEF C!Init, ChildTypeOK
  <1>3. EventInv
    BY DEF C!Init, EventInv, C!ChildConstants
  <1>4. FoundInv
    BY DEF C!Init, FoundInv
  <1>5. FrameInv
    BY <1>1 DEF FrameInv
  <1>6. QED
    BY <1>2, <1>3, <1>4, <1>5 DEF ChildInv

\* A step that leaves the frames keeps what they say of the events not changed.
LEMMA SameFrames ==
  ASSUME ChildInv, frames' = frames, exited \subseteq exited',
         \A p \in Pids : \/ ev'[p] = ev[p] /\ (childs'[p] = C!Watched => childs[p] = C!Watched)
                            /\ (p \in exited' => p \in exited)
                         \/ ev[p] = "none"
                         \/ /\ ev[p] = "live" /\ ev'[p] # "none" /\ childs'[p] # C!Watched
                            /\ ~C!InBatch(p) /\ ~C!InCallback(p) /\ (p \in exited' => p \in exited)
  PROVE  FrameInv'
  <1>1. /\ \A p : C!InCallback(p)' <=> C!InCallback(p)
        /\ \A p : C!InBatch(p)' <=> C!InBatch(p)
    BY DEF C!InCallback, C!InBatch
  <1>2. \A i \in DOMAIN frames : i < Len(frames) => frames[i].pc = "hook"
    BY DEF ChildInv, FrameInv
  <1>3. \A i \in DOMAIN frames : frames[i] \in FrameRec
    BY DEF ChildInv, ChildTypeOK
  <1>4. exited \subseteq Pids /\ \A p \in exited : ev[p] # "none"
    BY DEF ChildInv, ChildTypeOK, EventInv
  <1>5. ASSUME NEW i \in DOMAIN frames PROVE AtInv(frames[i])' /\ BatchInv(i)'
    <2>1. AtInv(frames[i]) /\ BatchInv(i)
      BY DEF ChildInv, FrameInv
    <2>2. frames[i].batch \subseteq Pids /\ frames[i].at \in Pids \cup {NONE}
      BY <1>3 DEF FrameRec
    <2>3. AtInv(frames[i])'
      <3>1. frames[i].at # NONE => C!InCallback(frames[i].at)
        BY DEF C!InCallback
      <3>2. QED
        BY <2>1, <2>2, <3>1 DEF AtInv
    <2>4. BatchInv(i)'
      <3>1. ASSUME frames[i].pc = "before"
            PROVE  /\ frames[i].batch \subseteq exited'
                   /\ \A p \in frames[i].batch : ev'[p] = "live" => ~C!InCallback(p)
        BY <1>4, <2>1, <2>2, <3>1 DEF BatchInv
      <3>2. ASSUME frames[i].pc = "hook", NEW p \in frames[i].batch
            PROVE  /\ ev'[p] = "live" /\ childs'[p] # C!Watched /\ p \notin exited' /\ ~C!InCallback(p)
                   /\ \A j \in DOMAIN frames : j # i /\ frames[j].pc = "hook" => p \notin frames[j].batch
        <4>1. C!InBatch(p)
          BY <3>2 DEF C!InBatch
        <4>2. QED
          BY <2>1, <2>2, <3>2, <4>1 DEF BatchInv
      <3>3. QED
        BY <1>1, <3>1, <3>2 DEF BatchInv
    <2>5. QED
      BY <2>3, <2>4
  <1>6. QED
    BY <1>2, <1>5 DEF FrameInv

\* fork(), the death of a process and the note of a new one.
LEMMA ProcessNext ==
  ASSUME C!ChildConstants, ChildInv, NEW p \in Pids,
         C!Fork(p) \/ C!Exit(p) \/ C!el_child_at_fork_on_parent
  PROVE  ChildInv'
  <1>1. frames' = frames /\ ev' = ev /\ exited' = exited /\ before' = before
        /\ broken' = broken /\ late' = late
    BY DEF C!Fork, C!Exit, C!el_child_at_fork_on_parent
  <1>2. ChildTypeOK'
    BY <1>1 DEF ChildInv, ChildTypeOK, C!Fork, C!Exit, C!el_child_at_fork_on_parent
  <1>3. EventInv'
    BY <1>1 DEF ChildInv, ChildTypeOK, EventInv, C!Fork, C!Exit, C!el_child_at_fork_on_parent,
                C!ChildConstants, C!Watched, C!Null
  <1>4. \A q \in Pids : childs'[q] = C!Watched <=> childs[q] = C!Watched
    BY DEF ChildInv, ChildTypeOK, EventInv, C!Fork, C!Exit, C!el_child_at_fork_on_parent, C!Watched, C!Null
  <1>5. FoundInv'
    BY <1>1, <1>4 DEF ChildInv, FoundInv, C!InBatch, C!InCallback
  <1>6. FrameInv'
    BY <1>1, <1>4, SameFrames
  <1>7. QED
    BY <1>2, <1>3, <1>5, <1>6 DEF ChildInv

\* el_child_register_d: the event is new, and is found or in the list _G.before.
LEMMA RegisterNext ==
  ASSUME C!ChildConstants, ChildInv, NEW p \in Pids, C!el_child_register_d(p)
  PROVE  ChildInv'
  <1> USE DEF C!el_child_register_d
  <1>1. frames' = frames /\ broken' = broken /\ late' = late /\ forking' = forking
        /\ forking = NONE
    BY DEF C!UserRuns
  <1>2. /\ ev[p] = "none" /\ ev' = [ev EXCEPT ![p] = "live"]
        /\ exited \subseteq exited' /\ exited' \subseteq exited \cup {p}
        /\ childs' \in [Pids -> {NONE, C!Watched, C!Null}]
        /\ childs'[p] = C!Watched \/ (p \in exited' /\ childs'[p] # C!Watched)
        /\ \A q \in Pids : q # p => childs'[q] = childs[q] /\ proc'[q] = proc[q]
        /\ proc'[p] # "none"
    <2>1. /\ proc \in [Pids -> {"none", "running", "zombie", "reaped"}]
          /\ childs \in [Pids -> {NONE, C!Watched, C!Null}]
      BY DEF ChildInv, ChildTypeOK
    <2>2. CASE proc[p] = "zombie"
      BY <2>1, <2>2 DEF C!ChildConstants
    <2>3. CASE proc[p] # "zombie"
      <3>1. proc' = proc /\ exited' = exited /\ childs' = [childs EXCEPT ![p] = C!Watched]
        BY <2>3
      <3>2. proc[p] # "none" /\ ev[p] = "none" /\ ev' = [ev EXCEPT ![p] = "live"]
        OBVIOUS
      <3> HIDE DEF C!el_child_register_d
      <3>3. childs' \in [Pids -> {NONE, C!Watched, C!Null}] /\ childs'[p] = C!Watched
            /\ \A q \in Pids : q # p => childs'[q] = childs[q]
        BY <2>1, <3>1
      <3>4. QED
        BY <3>1, <3>2, <3>3
    <2>4. QED
      BY <2>2, <2>3
  <1>3. ChildTypeOK'
    BY <1>1 DEF ChildInv, ChildTypeOK
  <1>4. p \notin exited /\ ev \in [Pids -> {"none", "live", "destroyed"}] /\ exited \subseteq Pids
    BY <1>2 DEF ChildInv, ChildTypeOK, EventInv
  <1>5. childs'[p] = C!Watched => p \notin exited'
    BY <1>4 DEF ChildInv, ChildTypeOK, C!ChildConstants
  <1>6. EventInv'
    BY <1>1, <1>2, <1>4, <1>5 DEF ChildInv, EventInv, C!ChildConstants
  <1>7. FoundInv'
    BY <1>1, <1>2, <1>4 DEF ChildInv, FoundInv, C!InBatch, C!InCallback
  <1>8. FrameInv'
    BY <1>1, <1>2, <1>4, SameFrames
  <1>9. QED
    BY <1>3, <1>6, <1>7, <1>8 DEF ChildInv

\* el_child_unregister: ASSERT("event not found") holds.
LEMMA UnregisterNext ==
  ASSUME C!ChildConstants, ~Careless, ChildInv, NEW p \in Pids, C!el_child_unregister(p)
  PROVE  ChildInv'
  <1> USE DEF C!el_child_unregister
  <1>1. /\ frames' = frames /\ late' = late /\ forking' = forking /\ proc' = proc
        /\ exited' = exited /\ ev[p] = "live" /\ ~C!InCallback(p) /\ ~C!InBatch(p)
        /\ childs' = [childs EXCEPT ![p] = NONE] /\ ev' = [ev EXCEPT ![p] = "destroyed"]
    OBVIOUS
  <1>2. ~(childs[p] = NONE /\ p \notin exited)
    BY <1>1 DEF ChildInv, FoundInv, C!ChildConstants
  <1>3. broken' = FALSE
    <2>1. broken = FALSE
      BY DEF ChildInv, ChildTypeOK
    <2>2. QED
      BY <1>2, <2>1, Zenon
  <1>4. ChildTypeOK'
    BY <1>1, <1>3 DEF ChildInv, ChildTypeOK
  <1>5. /\ ev \in [Pids -> {"none", "live", "destroyed"}]
        /\ childs \in [Pids -> {NONE, C!Watched, C!Null}] /\ exited \subseteq Pids
    BY DEF ChildInv, ChildTypeOK
  <1>6. EventInv'
    BY <1>1, <1>5 DEF ChildInv, EventInv, C!ChildConstants
  <1>7. FoundInv'
    BY <1>1, <1>5 DEF ChildInv, FoundInv, C!InBatch, C!InCallback
  <1>8. FrameInv'
    BY <1>1, <1>5, SameFrames DEF C!ChildConstants
  <1>9. QED
    BY <1>4, <1>6, <1>7, <1>8 DEF ChildInv

-----------------------------------------------------------------------------
\* The innermost loop.
LEMMA TopFrame ==
  ASSUME ChildInv, frames # <<>>
  PROVE  /\ Len(frames) \in Nat \ {0} /\ DOMAIN frames = 1..Len(frames)
         /\ Len(frames) \in DOMAIN frames /\ C!Top \in FrameRec
         /\ frames \in Seq(FrameRec) /\ \A i \in DOMAIN frames : frames[i] \in FrameRec
  <1>1. frames \in Seq(FrameRec)
    BY DEF ChildInv, ChildTypeOK
  <1>2. Len(frames) \in Nat \ {0} /\ DOMAIN frames = 1..Len(frames)
    BY <1>1
  <1>3. Len(frames) \in 1..Len(frames)
    BY <1>2
  <1>4. \A i \in DOMAIN frames : frames[i] \in FrameRec
    BY <1>1, <1>2
  <1>5. QED
    BY <1>1, <1>2, <1>3, <1>4 DEF C!Top

\* A step of the innermost loop.
LEMMA GoesTo ==
  ASSUME ChildInv, frames # <<>>, NEW f \in FrameRec, C!Goes(f)
  PROVE  /\ frames' \in Seq(FrameRec) /\ Len(frames') = Len(frames)
         /\ DOMAIN frames' = DOMAIN frames /\ frames'[Len(frames)] = f
         /\ \A i \in DOMAIN frames : i # Len(frames) => frames'[i] = frames[i]
  <1>1. /\ frames \in Seq(FrameRec) /\ Len(frames) \in 1..Len(frames)
        /\ DOMAIN frames = 1..Len(frames)
    BY TopFrame
  <1>2. frames' = [frames EXCEPT ![Len(frames)] = f]
    BY DEF C!Goes
  <1>3. /\ frames' \in Seq(FrameRec) /\ Len(frames') = Len(frames)
        /\ \A j \in 1..Len(frames) : frames'[j] = IF j = Len(frames) THEN f ELSE frames[j]
    BY <1>1, <1>2
  <1>4. DOMAIN frames' = 1..Len(frames)
    BY <1>1, <1>2
  <1>5. QED
    BY <1>1, <1>3, <1>4

\* What is left of a batch, when no event of it has come to be fired.
LEMMA BatchKept ==
  ASSUME NEW i \in DOMAIN frames, BatchInv(i), DOMAIN frames' = DOMAIN frames,
         ev' = ev, childs' = childs, exited' = exited,
         \A j \in DOMAIN frames : frames'[j].pc = frames[j].pc
                                   /\ frames'[j].batch \subseteq frames[j].batch,
         \A q \in frames'[i].batch : C!InCallback(q)' => C!InCallback(q)
  PROVE  BatchInv(i)'
  <1>1. ASSUME frames'[i].pc = "before"
        PROVE  /\ frames'[i].batch \subseteq exited'
               /\ \A q \in frames'[i].batch : ev'[q] = "live" => ~C!InCallback(q)'
    BY <1>1 DEF BatchInv
  <1>2. ASSUME frames'[i].pc = "hook", NEW q \in frames'[i].batch
        PROVE  /\ ev'[q] = "live" /\ childs'[q] # C!Watched /\ q \notin exited' /\ ~C!InCallback(q)'
               /\ \A j \in DOMAIN frames' :
                    j # i /\ frames'[j].pc = "hook" => q \notin frames'[j].batch
    <2>1. q \in frames[i].batch /\ frames[i].pc = "hook"
      BY <1>2
    <2>2. QED
      BY <1>2, <2>1 DEF BatchInv
  <1>3. QED
    BY <1>1, <1>2 DEF BatchInv

\* el_child_fire: the event exists, and no other loop fires it.
LEMMA FireNext ==
  ASSUME C!ChildConstants, ChildInv, C!el_child_fire PROVE ChildInv'
  <1> DEFINE n == Len(frames)
  <1>1. /\ frames # <<>> /\ C!Top.pc \in {"before", "hook"} /\ C!Top.at = NONE
        /\ proc' = proc /\ childs' = childs /\ ev' = ev /\ exited' = exited
        /\ forking' = forking /\ before' = before /\ broken' = broken
    BY DEF C!el_child_fire, C!Running
  <1>2. /\ n \in Nat \ {0} /\ DOMAIN frames = 1..n /\ n \in DOMAIN frames /\ C!Top = frames[n]
        /\ C!Top \in FrameRec /\ \A i \in DOMAIN frames : frames[i] \in FrameRec
    BY <1>1, TopFrame DEF C!Top
  <1>3. PICK p \in C!Top.batch :
          LET gone == ev[p] # "live"
          IN IF gone /\ C!Top.pc = "before"
             THEN /\ C!Goes(C!Frame(C!Top.pc, C!Top.batch \ {p}, NONE))
                  /\ UNCHANGED late
             ELSE /\ C!Goes(C!Frame(C!Top.pc, C!Top.batch \ {p}, p))
                  /\ late' = (late \/ gone \/ C!InCallback(p))
    BY DEF C!el_child_fire
  <1>4. p \in Pids /\ C!Top.batch \subseteq Pids
    BY <1>2 DEF FrameRec
  <1>5. AtInv(frames[n]) /\ BatchInv(n) /\ EventInv /\ late = FALSE
        /\ \A i \in DOMAIN frames : AtInv(frames[i]) /\ BatchInv(i)
    BY <1>2 DEF ChildInv, FrameInv, ChildTypeOK
  <1>6. CASE ev[p] # "live" /\ C!Top.pc = "before"
    <2> DEFINE f == C!Frame(C!Top.pc, C!Top.batch \ {p}, NONE)
    <2>1. f \in FrameRec /\ f.pc = C!Top.pc /\ f.at = NONE /\ f.batch = C!Top.batch \ {p} /\ C!Goes(f)
          /\ late' = late
      BY <1>2, <1>3, <1>6 DEF C!Frame, FrameRec
    <2> HIDE DEF f
    <2>2. /\ frames' \in Seq(FrameRec) /\ Len(frames') = n /\ DOMAIN frames' = DOMAIN frames
          /\ frames'[n] = f /\ \A i \in DOMAIN frames : i # n => frames'[i] = frames[i]
      BY <1>1, <2>1, GoesTo
    <2>3. /\ \A q : q # NONE => (C!InCallback(q)' <=> C!InCallback(q))
          /\ \A q : C!InBatch(q)' <=> C!InBatch(q)
      BY <1>1, <1>2, <1>6, <2>1, <2>2 DEF C!InCallback, C!InBatch
    <2>4. ChildTypeOK'
      BY <1>1, <2>1, <2>2 DEF ChildInv, ChildTypeOK
    <2>5. EventInv'
      BY <1>1, <1>5 DEF EventInv
    <2>6. FoundInv'
      BY <1>1, <2>3 DEF ChildInv, FoundInv, C!ChildConstants
    <2>7. ASSUME NEW i \in DOMAIN frames PROVE AtInv(frames[i])' /\ BatchInv(i)'
      <3>1. AtInv(frames[i])'
        BY <1>1, <1>5, <2>1, <2>2 DEF AtInv
      <3>2. \A j \in DOMAIN frames : frames'[j].pc = frames[j].pc
                                      /\ frames'[j].batch \subseteq frames[j].batch
        BY <1>2, <2>1, <2>2
      <3>3. \A q \in frames'[i].batch : C!InCallback(q)' => C!InCallback(q)
        <4>1. frames[i].batch \subseteq Pids
          BY <1>2 DEF FrameRec
        <4>2. QED
          BY <2>3, <3>2, <4>1 DEF C!ChildConstants
      <3>4. QED
        BY <1>1, <1>5, <2>2, <3>1, <3>2, <3>3, BatchKept
    <2>8. \A i \in DOMAIN frames : i < n => frames'[i].pc = "hook"
      BY <1>2, <2>2 DEF ChildInv, FrameInv
    <2>9. QED
      BY <2>2, <2>4, <2>5, <2>6, <2>7, <2>8 DEF ChildInv, FrameInv
  <1>7. CASE ~(ev[p] # "live" /\ C!Top.pc = "before")
    <2> DEFINE f == C!Frame(C!Top.pc, C!Top.batch \ {p}, p)
    <2>1. f \in FrameRec /\ f.pc = C!Top.pc /\ f.at = p /\ f.batch = C!Top.batch \ {p} /\ C!Goes(f)
          /\ late' = (late \/ ev[p] # "live" \/ C!InCallback(p))
      BY <1>2, <1>3, <1>4, <1>7 DEF C!Frame, FrameRec
    <2> HIDE DEF f
    <2>2. /\ frames' \in Seq(FrameRec) /\ Len(frames') = n /\ DOMAIN frames' = DOMAIN frames
          /\ frames'[n] = f /\ \A i \in DOMAIN frames : i # n => frames'[i] = frames[i]
      BY <1>1, <2>1, GoesTo
    <2>3. /\ ev[p] = "live" /\ ~C!InCallback(p) /\ childs[p] # C!Watched
          /\ C!Top.pc = "hook" => p \notin exited
          /\ C!Top.pc = "before" => p \in exited
      BY <1>1, <1>2, <1>5, <1>7 DEF BatchInv, EventInv
    <2>4. late' = FALSE
      BY <1>5, <2>1, <2>3, Zenon
    <2>5. \A i \in DOMAIN frames : i # n => frames[i].pc = "hook" /\ p \notin frames[i].batch
      <3>1. \A i \in DOMAIN frames : i # n => frames[i].pc = "hook"
        BY <1>2 DEF ChildInv, FrameInv
      <3>2. QED
        BY <1>1, <1>2, <1>5, <2>3, <3>1 DEF BatchInv
    <2>6. /\ \A q : q # NONE => (C!InCallback(q)' <=> C!InCallback(q) \/ q = p)
          /\ \A q : q # p => (C!InBatch(q)' <=> C!InBatch(q))
      BY <1>1, <1>2, <2>1, <2>2 DEF C!InCallback, C!InBatch
    <2>7. ChildTypeOK'
      BY <1>1, <2>2, <2>4 DEF ChildInv, ChildTypeOK
    <2>8. EventInv'
      BY <1>1, <1>5 DEF EventInv
    <2>9. FoundInv'
      BY <1>1, <2>6 DEF ChildInv, FoundInv, C!ChildConstants
    <2>10. ASSUME NEW i \in DOMAIN frames PROVE AtInv(frames[i])' /\ BatchInv(i)'
      <3>1. AtInv(frames[i])'
        BY <1>1, <1>5, <2>1, <2>2, <2>3 DEF AtInv
      <3>2. \A j \in DOMAIN frames : frames'[j].pc = frames[j].pc
                                      /\ frames'[j].batch \subseteq frames[j].batch
        BY <1>2, <2>1, <2>2
      <3>3. \A q \in frames'[i].batch : C!InCallback(q)' => C!InCallback(q)
        <4>1. frames[i].batch \subseteq Pids
          BY <1>2 DEF FrameRec
        <4>2. p \notin frames'[i].batch
          BY <1>2, <2>1, <2>2, <2>5
        <4>3. QED
          BY <2>6, <3>2, <4>1, <4>2 DEF C!ChildConstants
      <3>4. QED
        BY <1>1, <1>5, <2>2, <3>1, <3>2, <3>3, BatchKept
    <2>11. \A i \in DOMAIN frames : i < n => frames'[i].pc = "hook"
      BY <1>2, <2>2 DEF ChildInv, FrameInv
    <2>12. QED
      BY <2>2, <2>7, <2>8, <2>9, <2>10, <2>11 DEF ChildInv, FrameInv
  <1>8. QED
    BY <1>6, <1>7

\* The end of a callback: its event is in no batch.
LEMMA ReturnNext ==
  ASSUME C!ChildConstants, ChildInv, C!FireReturns PROVE ChildInv'
  <1> DEFINE n == Len(frames)
             f == C!Frame(C!Top.pc, C!Top.batch, NONE)
             a == C!Top.at
  <1>1. /\ frames # <<>> /\ a # NONE /\ C!Goes(f)
        /\ ev' = [ev EXCEPT ![a] = "destroyed"] /\ before' = before \ {a}
        /\ proc' = proc /\ childs' = childs /\ exited' = exited
        /\ forking' = forking /\ broken' = broken /\ late' = late
    BY DEF C!FireReturns
  <1>2. /\ n \in Nat \ {0} /\ DOMAIN frames = 1..n /\ n \in DOMAIN frames /\ C!Top = frames[n]
        /\ C!Top \in FrameRec /\ \A i \in DOMAIN frames : frames[i] \in FrameRec
    BY <1>1, TopFrame DEF C!Top
  <1>3. f \in FrameRec /\ f.pc = C!Top.pc /\ f.at = NONE /\ f.batch = C!Top.batch /\ a \in Pids
    BY <1>1, <1>2 DEF C!Frame, FrameRec
  <1> HIDE DEF f
  <1>4. /\ frames' \in Seq(FrameRec) /\ Len(frames') = n /\ DOMAIN frames' = DOMAIN frames
        /\ frames'[n] = f /\ \A i \in DOMAIN frames : i # n => frames'[i] = frames[i]
    BY <1>1, <1>3, GoesTo
  <1>5. /\ \A i \in DOMAIN frames : AtInv(frames[i]) /\ BatchInv(i)
        /\ EventInv /\ ev \in [Pids -> {"none", "live", "destroyed"}] /\ exited \subseteq Pids
    BY DEF ChildInv, FrameInv, ChildTypeOK
  <1>6. C!InCallback(a) /\ childs[a] # C!Watched /\ ev[a] # "none"
    BY <1>1, <1>2, <1>5 DEF C!InCallback, AtInv
  <1>7. /\ \A q : C!InCallback(q)' /\ q # NONE => C!InCallback(q)
        /\ \A q : q # a /\ C!InCallback(q) => C!InCallback(q)'
        /\ \A q : C!InBatch(q)' <=> C!InBatch(q)
    BY <1>1, <1>2, <1>3, <1>4 DEF C!InCallback, C!InBatch
  <1>8. ChildTypeOK'
    BY <1>1, <1>3, <1>4 DEF ChildInv, ChildTypeOK
  <1>9. EventInv'
    BY <1>1, <1>3, <1>5, <1>6 DEF EventInv
  <1>10. FoundInv'
    BY <1>1, <1>3, <1>5, <1>7 DEF ChildInv, FoundInv
  <1>11. \A j \in DOMAIN frames : frames'[j].pc = frames[j].pc /\ frames'[j].batch = frames[j].batch
                                  /\ frames'[j].at \in {frames[j].at, NONE}
    BY <1>2, <1>3, <1>4
  <1>12. ASSUME NEW i \in DOMAIN frames PROVE AtInv(frames[i])' /\ BatchInv(i)'
    <2>1. frames[i].batch \subseteq Pids /\ frames[i].at \in Pids \cup {NONE}
      BY <1>2 DEF FrameRec
    <2>2. AtInv(frames[i])'
      BY <1>1, <1>3, <1>5, <1>11, <2>1 DEF AtInv
    <2>3. \A q \in frames[i].batch : ev'[q] = "live" => ev[q] = "live"
      BY <1>1, <1>3, <1>5, <2>1
    <2>4. frames[i].pc = "hook" => \A q \in frames[i].batch : ev'[q] = "live"
      BY <1>1, <1>5, <1>6, <2>1 DEF BatchInv
    <2>5. frames'[i].pc = frames[i].pc /\ frames'[i].batch = frames[i].batch
      BY <1>11
    <2>6. \A q \in frames[i].batch : ~C!InCallback(q) => ~C!InCallback(q)'
      BY <1>7, <2>1 DEF C!ChildConstants
    <2>7. ASSUME frames[i].pc = "before"
          PROVE  frames[i].batch \subseteq exited'
                 /\ \A q \in frames[i].batch : ev'[q] = "live" => ~C!InCallback(q)'
      BY <1>1, <1>5, <2>3, <2>6, <2>7 DEF BatchInv
    <2>8. ASSUME frames[i].pc = "hook", NEW q \in frames[i].batch
          PROVE  /\ ev'[q] = "live" /\ childs'[q] # C!Watched /\ q \notin exited' /\ ~C!InCallback(q)'
                 /\ \A j \in DOMAIN frames' :
                      j # i /\ frames'[j].pc = "hook" => q \notin frames'[j].batch
      <3>1. /\ childs[q] # C!Watched /\ q \notin exited /\ ~C!InCallback(q)
            /\ \A j \in DOMAIN frames : j # i /\ frames[j].pc = "hook" => q \notin frames[j].batch
        BY <1>5, <2>8 DEF BatchInv
      <3>2. QED
        BY <1>1, <1>4, <1>11, <2>4, <2>6, <2>8, <3>1
    <2>9. BatchInv(i)'
      BY <2>5, <2>7, <2>8 DEF BatchInv
    <2>10. QED
      BY <2>2, <2>9
  <1>13. \A i \in DOMAIN frames : i < n => frames'[i].pc = "hook"
    BY <1>11 DEF ChildInv, FrameInv
  <1>14. QED
    BY <1>4, <1>8, <1>9, <1>10, <1>12, <1>13 DEF ChildInv, FrameInv

\* The end of a loop that has no event left to fire.
LEMMA EndsNext ==
  ASSUME C!ChildConstants, ChildInv, frames # <<>>, C!Top.at = NONE, C!Top.batch = {}, C!Ends,
         UNCHANGED <<proc, childs, ev, exited, forking, before, broken, late>>
  PROVE  ChildInv'
  <1> DEFINE n == Len(frames)
  <1>1. /\ n \in Nat \ {0} /\ DOMAIN frames = 1..n /\ n \in DOMAIN frames /\ C!Top = frames[n]
        /\ frames \in Seq(FrameRec) /\ \A i \in DOMAIN frames : frames[i] \in FrameRec
    BY TopFrame DEF C!Top
  <1>2. /\ frames' \in Seq(FrameRec) /\ Len(frames') = n - 1 /\ DOMAIN frames' = 1..(n - 1)
        /\ \A i \in 1..(n - 1) : frames'[i] = frames[i]
    <2>1. \A i \in 1..(n - 1) : frames[i] \in FrameRec
      BY <1>1
    <2>2. frames' = SubSeq(frames, 1, n - 1)
      BY DEF C!Ends
    <2>3. n - 1 \in Nat
      BY <1>1
    <2>4. /\ frames' \in Seq(FrameRec) /\ Len(frames') = (IF 1 <= n - 1 THEN n - 1 - 1 + 1 ELSE 0)
          /\ \A i \in 1..(n - 1 - 1 + 1) : frames'[i] = frames[1 + i - 1]
      BY <2>1, <2>2, <2>3
    <2> HIDE DEF n
    <2>5. Len(frames') = n - 1 /\ \A i \in 1..(n - 1) : frames'[i] = frames[i]
      BY <2>3, <2>4
    <2>6. QED
      BY <2>4, <2>5
  <1>3. \A i \in 1..(n - 1) : i \in DOMAIN frames /\ i # n /\ i < n
    <2> HIDE DEF n
    <2>1. \A i \in 1..(n - 1) : i \in 1..n /\ i # n /\ i < n
      BY <1>1
    <2>2. QED
      BY <1>1, <2>1
  <1>4. \A i \in DOMAIN frames : i # n => i \in 1..(n - 1)
    BY <1>1
  <1>5. /\ \A q : q # NONE => (C!InCallback(q)' <=> C!InCallback(q))
        /\ \A q : C!InBatch(q)' <=> C!InBatch(q)
    BY <1>1, <1>2, <1>3, <1>4 DEF C!InCallback, C!InBatch
  <1>6. ChildTypeOK'
    BY <1>2 DEF ChildInv, ChildTypeOK
  <1>7. EventInv'
    BY DEF ChildInv, EventInv
  <1>8. FoundInv'
    BY <1>5 DEF ChildInv, FoundInv, C!ChildConstants
  <1>9. ASSUME NEW i \in 1..(n - 1) PROVE AtInv(frames[i])' /\ BatchInv(i)'
    <2>1. AtInv(frames[i]) /\ BatchInv(i) /\ frames'[i] = frames[i]
      BY <1>2, <1>3 DEF ChildInv, FrameInv
    <2>2. frames[i].batch \subseteq Pids
      BY <1>1, <1>3 DEF FrameRec
    <2>3. AtInv(frames[i])'
      BY <2>1 DEF AtInv
    <2>4. \A q \in frames[i].batch : C!InCallback(q)' <=> C!InCallback(q)
      BY <1>5, <2>2 DEF C!ChildConstants
    <2>5. \A j \in DOMAIN frames' : j \in DOMAIN frames /\ frames'[j] = frames[j]
      BY <1>2, <1>3
    <2>6. BatchInv(i)'
      BY <2>1, <2>4, <2>5 DEF BatchInv
    <2>7. QED
      BY <2>3, <2>6
  <1>10. \A i \in 1..(n - 1) : frames'[i].pc = "hook"
    BY <1>2, <1>3 DEF ChildInv, FrameInv
  <1>11. QED
    BY <1>2, <1>6, <1>7, <1>8, <1>9, <1>10 DEF ChildInv, FrameInv

\* The signals are read, then cleared.
LEMMA SignalNext ==
  ASSUME C!ChildConstants, ChildInv, NEW f \in FrameRec, f.at = NONE, f.batch = {},
         f.pc \in {"clear", "scan"}, C!Goes(f),
         frames # <<>>, C!Top.at = NONE, C!Top.pc # "hook",
         UNCHANGED <<proc, childs, ev, exited, forking, before, broken, late>>
  PROVE  ChildInv'
  <1> DEFINE n == Len(frames)
  <1>1. /\ n \in Nat \ {0} /\ DOMAIN frames = 1..n /\ n \in DOMAIN frames /\ C!Top = frames[n]
        /\ \A i \in DOMAIN frames : frames[i] \in FrameRec
    BY TopFrame DEF C!Top
  <1>2. /\ frames' \in Seq(FrameRec) /\ Len(frames') = n /\ DOMAIN frames' = DOMAIN frames
        /\ frames'[n] = f /\ \A i \in DOMAIN frames : i # n => frames'[i] = frames[i]
    BY GoesTo
  <1>3. /\ \A q : q # NONE => (C!InCallback(q)' <=> C!InCallback(q))
        /\ \A q : C!InBatch(q)' <=> C!InBatch(q)
    BY <1>1, <1>2 DEF C!InCallback, C!InBatch
  <1>4. ChildTypeOK'
    BY <1>2 DEF ChildInv, ChildTypeOK
  <1>5. EventInv'
    BY DEF ChildInv, EventInv
  <1>6. FoundInv'
    BY <1>3 DEF ChildInv, FoundInv, C!ChildConstants
  <1>7. ASSUME NEW i \in DOMAIN frames PROVE AtInv(frames[i])' /\ BatchInv(i)'
    <2>1. CASE i = n
      BY <1>2, <2>1 DEF AtInv, BatchInv
    <2>2. CASE i # n
      <3>1. AtInv(frames[i]) /\ BatchInv(i) /\ frames'[i] = frames[i]
        BY <1>2, <2>2 DEF ChildInv, FrameInv
      <3>2. frames[i].batch \subseteq Pids
        BY <1>1 DEF FrameRec
      <3>3. AtInv(frames[i])'
        BY <3>1 DEF AtInv
      <3>4. \A q \in frames[i].batch : C!InCallback(q)' <=> C!InCallback(q)
        BY <1>3, <3>2 DEF C!ChildConstants
      <3>5. \A j \in DOMAIN frames : frames'[j].pc = "hook" => frames[j] = frames'[j]
        BY <1>2
      <3>6. BatchInv(i)'
        BY <1>2, <3>1, <3>4, <3>5 DEF BatchInv
      <3>7. QED
        BY <3>3, <3>6
    <2>3. QED
      BY <2>1, <2>2
  <1>8. \A i \in DOMAIN frames : i < n => frames'[i].pc = "hook"
    BY <1>1, <1>2 DEF ChildInv, FrameInv
  <1>9. QED
    BY <1>2, <1>4, <1>5, <1>6, <1>7, <1>8 DEF ChildInv, FrameInv

\* el_sigchld_hook: the events taken off _G.childs are live, and in no batch.
LEMMA HookNext ==
  ASSUME C!ChildConstants, ChildInv, C!el_sigchld_hook PROVE ChildInv'
  <1> DEFINE n == Len(frames)
             dead == {p \in Pids : childs[p] # NONE /\ proc[p] # "running"}
             new == {p \in dead : childs[p] = C!Watched}
             f == C!Frame("hook", new, NONE)
  <1>1. /\ frames # <<>> /\ C!Top.pc = "scan" /\ C!Top.at = NONE /\ C!Goes(f)
        /\ childs' = [p \in Pids |-> IF p \in dead THEN NONE ELSE childs[p]]
        /\ proc' = [p \in Pids |-> IF p \in dead THEN "reaped" ELSE proc[p]]
        /\ UNCHANGED <<ev, exited, forking, before, broken, late>>
    BY DEF C!el_sigchld_hook, C!Running
  <1>2. /\ n \in Nat \ {0} /\ DOMAIN frames = 1..n /\ n \in DOMAIN frames /\ C!Top = frames[n]
        /\ \A i \in DOMAIN frames : frames[i] \in FrameRec
    BY <1>1, TopFrame DEF C!Top
  <1>3. f \in FrameRec /\ f.pc = "hook" /\ f.at = NONE /\ f.batch = new /\ new \subseteq Pids
    BY DEF C!Frame, FrameRec
  <1>4. \A p \in Pids : /\ childs'[p] = C!Watched <=> childs[p] = C!Watched /\ p \notin new
                        /\ proc'[p] = "none" => proc[p] = "none"
    BY <1>1 DEF C!ChildConstants
  <1>5. \A p \in new : ev[p] = "live" /\ childs[p] = C!Watched /\ p \notin exited
    BY DEF ChildInv, EventInv
  <1> HIDE DEF f
  <1>6. /\ frames' \in Seq(FrameRec) /\ Len(frames') = n /\ DOMAIN frames' = DOMAIN frames
        /\ frames'[n] = f /\ \A i \in DOMAIN frames : i # n => frames'[i] = frames[i]
    BY <1>1, <1>3, GoesTo
  <1>7. ChildTypeOK'
    BY <1>1, <1>6 DEF ChildInv, ChildTypeOK
  <1> HIDE DEF new, dead
  <1>8. /\ \A q : q # NONE => (C!InCallback(q)' <=> C!InCallback(q))
        /\ \A q : C!InBatch(q)' <=> C!InBatch(q) \/ q \in new
    BY <1>1, <1>2, <1>3, <1>6 DEF C!InCallback, C!InBatch
  <1>9. EventInv'
    BY <1>1, <1>4 DEF ChildInv, ChildTypeOK, EventInv
  <1>10. FoundInv'
    BY <1>1, <1>4, <1>8 DEF ChildInv, FoundInv, C!ChildConstants
  <1>11. ASSUME NEW i \in DOMAIN frames PROVE AtInv(frames[i])' /\ BatchInv(i)'
    <2>1. AtInv(frames[i]) /\ BatchInv(i) /\ \A j \in DOMAIN frames : AtInv(frames[j]) /\ BatchInv(j)
      BY DEF ChildInv, FrameInv
    <2>2. \A j \in DOMAIN frames : frames[j].batch \subseteq Pids /\ frames[j].at \in Pids \cup {NONE}
      BY <1>2 DEF FrameRec
    <2>3. \A j \in DOMAIN frames : frames[j].pc = "hook" => frames[j].batch \cap new = {}
      BY <1>5, <2>1 DEF BatchInv
    <2>4. CASE i = n
      <3>1. \A q \in new : ~C!InCallback(q)
        <4>1. \A j \in DOMAIN frames : frames[j].at \notin new
          BY <1>3, <1>5, <2>1 DEF AtInv, C!ChildConstants
        <4>2. QED
          BY <4>1 DEF C!InCallback
      <3>2. \A q \in new : ~C!InCallback(q)'
        BY <1>3, <1>8, <3>1 DEF C!ChildConstants
      <3>3. \A j \in DOMAIN frames : j # n /\ frames'[j].pc = "hook" => frames'[j].batch \cap new = {}
        BY <1>6, <2>3
      <3>4. AtInv(frames[i])'
        BY <1>3, <1>6, <2>4 DEF AtInv
      <3>5. \A q \in new : ev'[q] = "live" /\ childs'[q] # C!Watched /\ q \notin exited'
        BY <1>1, <1>3, <1>4, <1>5
      <3>6. BatchInv(i)'
        BY <1>3, <1>6, <2>4, <3>2, <3>3, <3>5 DEF BatchInv
      <3>7. QED
        BY <3>4, <3>6
    <2>5. CASE i # n
      <3>1. frames'[i] = frames[i] /\ frames[i].pc = "hook"
        BY <1>2, <1>6, <2>5 DEF ChildInv, FrameInv
      <3>2. AtInv(frames[i])'
        BY <1>1, <1>4, <2>1, <2>2, <3>1 DEF AtInv
      <3>3. \A q \in frames[i].batch : ~C!InCallback(q)' /\ ev'[q] = "live" /\ childs'[q] # C!Watched /\ q \notin exited'
        BY <1>1, <1>4, <1>8, <2>1, <2>2, <3>1 DEF BatchInv, C!ChildConstants
      <3>4. \A q \in frames[i].batch : \A j \in DOMAIN frames :
               j # i /\ frames'[j].pc = "hook" => q \notin frames'[j].batch
        <4> TAKE q \in frames[i].batch
        <4> TAKE j \in DOMAIN frames
        <4>1. CASE j = n
          BY <1>3, <1>6, <2>3, <3>1, <4>1
        <4>2. CASE j # n
          BY <1>6, <2>1, <3>1, <4>2 DEF BatchInv
        <4>3. QED
          BY <4>1, <4>2
      <3>5. BatchInv(i)'
        BY <1>6, <3>1, <3>3, <3>4 DEF BatchInv
      <3>6. QED
        BY <3>2, <3>5
    <2>6. QED
      BY <2>4, <2>5
  <1>12. \A i \in DOMAIN frames : i < n => frames'[i].pc = "hook"
    BY <1>2, <1>6 DEF ChildInv, FrameInv
  <1>13. QED
    BY <1>6, <1>7, <1>9, <1>10, <1>11, <1>12 DEF ChildInv, FrameInv

\* A loop starts, in none or in callbacks of the hook: the events of _G.before are
\* fired by none of these.
LEMMA StartsNext ==
  ASSUME C!ChildConstants, ~Careless, ChildInv, C!LoopStarts PROVE ChildInv'
  <1> DEFINE n == Len(frames)
             f == C!Frame("before", before, NONE)
  <1>1. /\ frames \in Seq(FrameRec) /\ n \in Nat /\ DOMAIN frames = 1..n
        /\ before \subseteq exited /\ exited \subseteq Pids
    BY DEF ChildInv, ChildTypeOK
  <1>2. /\ \A i \in DOMAIN frames : frames[i].pc = "hook"
        /\ UNCHANGED <<proc, childs, ev, exited, forking, before, broken, late>>
    <2>1. frames = <<>> => DOMAIN frames = {}
      OBVIOUS
    <2>2. QED
      BY <2>1 DEF C!LoopStarts
  <1>3. f \in FrameRec /\ f.pc = "before" /\ f.at = NONE /\ f.batch = before
    BY <1>1 DEF C!Frame, FrameRec
  <1>4. frames' = Append(frames, f)
    <2> DEFINE g == [i \in DOMAIN frames |->
                       IF frames[i].pc = "before" THEN C!Frame("before", {}, frames[i].at)
                       ELSE frames[i]]
    <2>1. frames' = Append(g, f)
      BY DEF C!LoopStarts
    <2>2. g = [i \in DOMAIN frames |-> frames[i]]
      BY <1>2
    <2>3. frames = [i \in DOMAIN frames |-> frames[i]]
      BY <1>1
    <2>4. g = frames
      BY <2>2, <2>3
    <2>5. QED
      BY <2>1, <2>4
  <1> HIDE DEF f
  <1>5. /\ frames' \in Seq(FrameRec) /\ Len(frames') = n + 1
        /\ \A i \in 1..n : frames'[i] = frames[i]
        /\ frames'[n + 1] = f
    BY <1>1, <1>3, <1>4
  <1>6. DOMAIN frames' = 1..(n + 1)
    BY <1>5
  <1>7. /\ \A i \in DOMAIN frames' : i = n + 1 \/ i \in 1..n
        /\ \A i \in 1..n : i \in DOMAIN frames' /\ i # n + 1
        /\ n + 1 \in DOMAIN frames'
    BY <1>1, <1>6
  <1>8. /\ \A q : q # NONE => (C!InCallback(q)' <=> C!InCallback(q))
        /\ \A q : C!InBatch(q)' <=> C!InBatch(q)
    BY <1>1, <1>3, <1>5, <1>7 DEF C!InCallback, C!InBatch
  <1>9. ChildTypeOK'
    BY <1>2, <1>5 DEF ChildInv, ChildTypeOK
  <1>10. EventInv'
    BY <1>2 DEF ChildInv, EventInv
  <1>11. FoundInv'
    BY <1>2, <1>8 DEF ChildInv, FoundInv, C!ChildConstants
  <1>12. ASSUME NEW i, i = n + 1 PROVE AtInv(frames[i])' /\ BatchInv(i)'
    <2>1. \A q \in before : ~C!InCallback(q)
      <3>1. \A j \in DOMAIN frames : AtInv(frames[j])
        BY DEF ChildInv, FrameInv
      <3>2. QED
        BY <1>1, <1>2, <3>1 DEF C!InCallback, AtInv, C!ChildConstants
    <2>2. \A q \in before : ~C!InCallback(q)'
      BY <1>1, <1>8, <2>1 DEF C!ChildConstants
    <2>3. QED
      BY <1>1, <1>2, <1>3, <1>5, <1>12, <2>2 DEF AtInv, BatchInv
  <1>13. ASSUME NEW i \in 1..n PROVE AtInv(frames[i])' /\ BatchInv(i)'
    <2>1. AtInv(frames[i]) /\ BatchInv(i) /\ frames'[i] = frames[i] /\ frames[i].pc = "hook"
      BY <1>1, <1>2, <1>5 DEF ChildInv, FrameInv
    <2>2. frames[i].batch \subseteq Pids
      <3>1. frames[i] \in FrameRec
        BY <1>1
      <3>2. QED
        BY <3>1 DEF FrameRec
    <2>3. AtInv(frames[i])'
      BY <1>2, <2>1 DEF AtInv
    <2>4. \A q \in frames[i].batch : C!InCallback(q)' <=> C!InCallback(q)
      BY <1>8, <2>2 DEF C!ChildConstants
    <2>5. \A j \in DOMAIN frames' : frames'[j].pc = "hook" => j \in DOMAIN frames /\ frames'[j] = frames[j]
      BY <1>1, <1>3, <1>5, <1>7
    <2>6. BatchInv(i)'
      BY <1>2, <2>1, <2>4, <2>5 DEF BatchInv
    <2>7. QED
      BY <2>3, <2>6
  <1>14. \A i \in 1..n : frames'[i].pc = "hook"
    BY <1>1, <1>2, <1>5
  <1>15. FrameInv'
    <2>1. ASSUME NEW i \in DOMAIN frames', i < Len(frames') PROVE i \in 1..n
      BY <1>1, <1>5, <1>7, <2>1
    <2>2. QED
      BY <1>7, <1>12, <1>13, <1>14, <2>1 DEF FrameInv
  <1>16. QED
    BY <1>9, <1>10, <1>11, <1>15 DEF ChildInv

\* The invariant holds always, for callbacks that are not careless.
THEOREM ChildAlways ==
  ASSUME C!ChildConstants, ~Careless PROVE C!Spec => []ChildInv
  <1>1. ASSUME ChildInv, [C!Next]_(C!vars) PROVE ChildInv'
    <2> USE <1>1
    <2>1. ASSUME NEW p \in Pids, C!Fork(p) \/ C!Exit(p) PROVE ChildInv'
      BY <2>1, ProcessNext
    <2>2. ASSUME NEW p \in Pids, C!el_child_register_d(p) \/ C!el_child_unregister(p) PROVE ChildInv'
      BY <2>2, RegisterNext, UnregisterNext
    <2>3. CASE C!el_child_at_fork_on_parent
      <3>1. forking \in Pids
        BY <2>3 DEF C!el_child_at_fork_on_parent, ChildInv, ChildTypeOK
      <3>2. QED
        BY <2>3, <3>1, ProcessNext
    <2>4. CASE C!LoopStarts
      BY <2>4, StartsNext
    <2>5. CASE C!el_child_fire
      BY <2>5, FireNext
    <2>6. CASE C!FireReturns
      BY <2>6, ReturnNext
    <2>7. CASE C!SignalRead
      <3>1. /\ frames # <<>> /\ C!Top.at = NONE /\ C!Top.pc = "before" /\ C!Top.batch = {}
            /\ UNCHANGED <<proc, childs, ev, exited, forking, before, broken, late>>
            /\ C!Goes(C!Frame("clear", {}, NONE)) \/ C!Ends
        BY <2>7 DEF C!SignalRead, C!Running
      <3>2. LET f == C!Frame("clear", {}, NONE)
            IN f \in FrameRec /\ f.at = NONE /\ f.batch = {} /\ f.pc = "clear"
        BY DEF C!Frame, FrameRec
      <3>3. QED
        BY <3>1, <3>2, SignalNext, EndsNext
    <2>8. CASE C!SignalClear
      <3>1. /\ frames # <<>> /\ C!Top.at = NONE /\ C!Top.pc = "clear"
            /\ UNCHANGED <<proc, childs, ev, exited, forking, before, broken, late>>
            /\ C!Goes(C!Frame("scan", {}, NONE))
        BY <2>8 DEF C!SignalClear, C!Running
      <3>2. LET f == C!Frame("scan", {}, NONE)
            IN f \in FrameRec /\ f.at = NONE /\ f.batch = {} /\ f.pc = "scan"
        BY DEF C!Frame, FrameRec
      <3>3. QED
        BY <3>1, <3>2, SignalNext
    <2>9. CASE C!el_sigchld_hook
      BY <2>9, HookNext
    <2>10. CASE C!LoopEnds
      BY <2>10, EndsNext DEF C!LoopEnds, C!Running
    <2>11. CASE UNCHANGED C!vars
      <3>1. /\ proc' = proc /\ childs' = childs /\ ev' = ev /\ exited' = exited
            /\ forking' = forking /\ before' = before /\ frames' = frames
            /\ broken' = broken /\ late' = late
        BY <2>11 DEF C!vars
      <3>2. ChildTypeOK' /\ EventInv'
        BY <3>1 DEF ChildInv, ChildTypeOK, EventInv
      <3>3. \A q : (C!InCallback(q)' <=> C!InCallback(q)) /\ (C!InBatch(q)' <=> C!InBatch(q))
        BY <3>1 DEF C!InCallback, C!InBatch
      <3>4. FoundInv'
        BY <3>1, <3>3 DEF ChildInv, FoundInv
      <3>5. ASSUME NEW i \in DOMAIN frames PROVE AtInv(frames[i])' /\ BatchInv(i)'
        <4>1. AtInv(frames[i]) /\ BatchInv(i)
          BY DEF ChildInv, FrameInv
        <4>2. QED
          BY <3>1, <3>3, <4>1 DEF AtInv, BatchInv
      <3>6. FrameInv'
        BY <3>1, <3>5 DEF ChildInv, FrameInv
      <3>7. QED
        BY <3>2, <3>4, <3>6 DEF ChildInv
    <2>12. QED
      BY <2>1, <2>2, <2>3, <2>4, <2>5, <2>6, <2>7, <2>8, <2>9, <2>10, <2>11 DEF C!Next, C!LoopSteps
  <1>2. C!Init => ChildInv
    BY ChildInit
  <1>3. QED
    BY <1>1, <1>2, PTL DEF C!Spec

\* el_child_unregister finds every event it is called on, and el_child_fire is
\* called once on an event, while it exists, for any number of processes and nested
\* loops, when callbacks are not careless.
THEOREM ChildsAlwaysSound ==
  ASSUME C!ChildConstants, ~Careless PROVE C!Spec => []C!ChildsSound
  <1>1. ChildInv => C!ChildsSound
    BY DEF ChildInv, ChildTypeOK, C!ChildsSound, C!AssertsHold, C!FiresOnce
  <1>2. QED
    BY <1>1, ChildAlways, PTL
=============================================================================
