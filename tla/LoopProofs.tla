----------------------------- MODULE LoopProofs -----------------------------
(***************************************************************************)
(* Proofs about how threads sleep and are woken up, and about what other   *)
(* threads and the kernel share with the event loop: the event count       *)
(* (ThrEvc), the main queue (ThrMain), the wake events (ElWake) and the    *)
(* file system watches (ElFsWatch).                                        *)
(***************************************************************************)
EXTENDS ThrEvc, Sequences, FiniteSetTheorems, TLAPS

(***************************************************************************)
(* The inductive invariant: a thread between its test of the key and the   *)
(* futex holds a key the low word of which tells it from the current one;  *)
(* a thread that holds the current key after its last look at the work, or *)
(* sleeps on it, owes this to a signal that has not been counted yet.      *)
(***************************************************************************)

Counted == {t \in Waiters : wpc[t] \in {"futex", "asleep", "sub"}}

KeyInv ==
  \A t \in Waiters :
    /\ wkey[t] <= key
    /\ wpc[t] \in {"add", "futex"} => key < wkey[t] + Low

HeldInv ==
  work > 0 =>
    \A t \in Waiters :
       wpc[t] \in {"test", "add", "futex", "asleep"} /\ wkey[t] = key =>
          \E p \in Posters : ppc[p] = "inc"

IInv == TypeOK /\ WaitersCounted /\ KeyInv /\ HeldInv /\ NoLostWakeup

\* A key less than Low behind and equal modulo Low is the current key.
LEMMA SameLowWord ==
  ASSUME NEW a \in Nat, NEW b \in Nat, NEW n \in Nat \ {0},
         a <= b, b < a + n, a % n = b % n
  PROVE  a = b
  <1> DEFINE qa == a \div n
             qb == b \div n
  <1>1. /\ qa \in Int /\ qb \in Int
        /\ a = n * qa + (a % n) /\ b = n * qb + (b % n)
        /\ a % n \in Int /\ b % n \in Int
    OBVIOUS
  <1> HIDE DEF qa, qb
  <1>2. b - a = n * (qb - qa)
    BY <1>1
  <1>3. n * (qb - qa) < n /\ n * (qb - qa) >= 0
    BY <1>1, <1>2
  <1>4. qb - qa < 1
    BY <1>1, <1>3
  <1>5. qb - qa > -1
    BY <1>1, <1>3
  <1>6. qb = qa
    BY <1>1, <1>4, <1>5
  <1>7. QED
    BY <1>1, <1>6
\* The counted waiters form a finite set.
LEMMA CountedFacts ==
  /\ IsFiniteSet(Counted)
  /\ Cardinality(Counted) = 0 <=> Counted = {}
  <1>1. IsFiniteSet(Counted)
    BY WaiterAssumption, FS_Subset DEF Counted
  <1>2. QED
    BY <1>1, FS_EmptySet

\* The types are kept: waiters is decremented by threads that are counted.
LEMMA TypeNext == IInv /\ [Next]_vars => TypeOK'
  <1> SUFFICES ASSUME IInv, [Next]_vars PROVE TypeOK'
    OBVIOUS
  <1>typ. TypeOK
    BY DEF IInv
  <1> USE DEF WGoto, PGoto
  <1>1. ASSUME NEW t \in Waiters, Wait(t) PROVE TypeOK'
    <2>1. CASE Check(t)
      BY <2>1, <1>typ DEF Check, Look, TypeOK, WPc, PPc
    <2>2. CASE thr_ec_get(t)
      BY <2>2, <1>typ DEF thr_ec_get, TypeOK, WPc, PPc
    <2>3. CASE Recheck(t)
      BY <2>3, <1>typ DEF Recheck, Look, TypeOK, WPc, PPc
    <2>4. CASE WaitTest(t)
      BY <2>4, <1>typ DEF WaitTest, TypeOK, WPc, PPc
    <2>5. CASE WaitAdd(t)
      BY <2>5, <1>typ DEF WaitAdd, TypeOK, WPc, PPc
    <2>6. CASE WaitFutex(t)
      BY <2>6, <1>typ DEF WaitFutex, TypeOK, WPc, PPc
    <2>7. CASE WaitTimeout(t)
      BY <2>7, <1>typ DEF WaitTimeout, TypeOK, WPc, PPc
    <2>8. CASE WaitCleanup(t)
      <3>1. Cardinality(Counted) # 0
        BY <2>8, WaiterAssumption, CountedFacts DEF WaitCleanup, Counted
      <3>2. QED
        BY <2>8, <3>1, <1>typ DEF WaitCleanup, TypeOK, WPc, IInv,
           WaitersCounted, Counted
    <2>9. QED
      BY <1>1, <2>1, <2>2, <2>3, <2>4, <2>5, <2>6, <2>7, <2>8 DEF Wait,
         thr_ec_timedwait
  <1>2. ASSUME NEW p \in Posters, Post(p) \/ thr_ec_signal_n(p) PROVE TypeOK'
    <2>1. CASE Post(p)
      BY <2>1, <1>typ, PostAssumption DEF Post, TypeOK, WPc, PPc
    <2>2. CASE SignalInc(p)
      BY <2>2, <1>typ DEF SignalInc, TypeOK, WPc, PPc
    <2>3. CASE SignalLoad(p)
      BY <2>3, <1>typ DEF SignalLoad, TypeOK, WPc, PPc
    <2>4. CASE SignalWake(p)
      BY <2>4, <1>typ DEF SignalWake, TypeOK, WPc, PPc
    <2>5. QED
      BY <1>2, <2>1, <2>2, <2>3, <2>4 DEF thr_ec_signal_n
  <1>3. CASE UNCHANGED vars
    BY <1>3, <1>typ DEF vars, TypeOK, WPc, PPc
  <1>4. QED
    BY <1>1, <1>2, <1>3 DEF Next

\* waiters follows the threads between WaitAdd and WaitCleanup.
LEMMA CountedNext == IInv /\ [Next]_vars => WaitersCounted'
  <1> SUFFICES ASSUME IInv, [Next]_vars PROVE WaitersCounted'
    OBVIOUS
  <1>typ. TypeOK
    BY DEF IInv
  <1>inv. WaitersCounted
    BY DEF IInv
  <1> USE DEF WGoto, PGoto
  <1>1. ASSUME NEW t \in Waiters, Wait(t) PROVE WaitersCounted'
    <2>1. CASE Check(t)
      <3>1. Counted' = Counted
        BY <2>1, <1>typ DEF Check, Look, Counted, TypeOK
      <3>2. QED
        BY <2>1, <3>1, <1>inv DEF Check, Look, WaitersCounted, Counted
    <2>2. CASE thr_ec_get(t)
      <3>1. Counted' = Counted
        BY <2>2, <1>typ DEF thr_ec_get, Counted, TypeOK
      <3>2. QED
        BY <2>2, <3>1, <1>inv DEF thr_ec_get, WaitersCounted, Counted
    <2>3. CASE Recheck(t)
      <3>1. Counted' = Counted
        BY <2>3, <1>typ DEF Recheck, Look, Counted, TypeOK
      <3>2. QED
        BY <2>3, <3>1, <1>inv DEF Recheck, Look, WaitersCounted, Counted
    <2>4. CASE WaitTest(t)
      <3>1. Counted' = Counted
        BY <2>4, <1>typ DEF WaitTest, Counted, TypeOK
      <3>2. QED
        BY <2>4, <3>1, <1>inv DEF WaitTest, WaitersCounted, Counted
    <2>5. CASE WaitAdd(t)
      <3>1. t \notin Counted /\ Counted' = Counted \cup {t}
        BY <2>5, <1>typ DEF WaitAdd, Counted, TypeOK
      <3>2. QED
        BY <2>5, <3>1, <1>inv, CountedFacts, FS_AddElement DEF WaitAdd,
           WaitersCounted, Counted
    <2>6. CASE WaitFutex(t)
      <3>1. Counted' = Counted
        BY <2>6, <1>typ DEF WaitFutex, Counted, TypeOK
      <3>2. QED
        BY <2>6, <3>1, <1>inv DEF WaitFutex, WaitersCounted, Counted
    <2>7. CASE WaitTimeout(t)
      <3>1. Counted' = Counted
        BY <2>7, <1>typ DEF WaitTimeout, Counted, TypeOK
      <3>2. QED
        BY <2>7, <3>1, <1>inv DEF WaitTimeout, WaitersCounted, Counted
    <2>8. CASE WaitCleanup(t)
      <3>1. t \in Counted /\ Counted' = Counted \ {t}
        BY <2>8, <1>typ DEF WaitCleanup, Counted, TypeOK
      <3>2. QED
        BY ZenonT(60), <2>8, <3>1, <1>inv, CountedFacts, FS_RemoveElement DEF WaitCleanup,
           WaitersCounted, Counted
    <2>9. QED
      BY <1>1, <2>1, <2>2, <2>3, <2>4, <2>5, <2>6, <2>7, <2>8 DEF Wait,
         thr_ec_timedwait
  <1>2. ASSUME NEW p \in Posters, Post(p) \/ thr_ec_signal_n(p) PROVE WaitersCounted'
    <2>1. CASE Post(p)
      BY <2>1, <1>typ, <1>inv DEF Post, TypeOK, WaitersCounted
    <2>2. CASE SignalInc(p)
      BY <2>2, <1>typ, <1>inv DEF SignalInc, TypeOK, WaitersCounted
    <2>3. CASE SignalLoad(p)
      BY <2>3, <1>typ, <1>inv DEF SignalLoad, TypeOK, WaitersCounted
    <2>4. CASE SignalWake(p)
      <3>1. Counted' = Counted
        BY <2>4, <1>typ DEF SignalWake, Asleep, Counted, TypeOK
      <3>2. QED
        BY <2>4, <3>1, <1>inv DEF SignalWake, WaitersCounted, Counted
    <2>5. QED
      BY <1>2, <2>1, <2>2, <2>3, <2>4 DEF thr_ec_signal_n
  <1>3. CASE UNCHANGED vars
    BY <1>3, <1>typ, <1>inv DEF vars, TypeOK, WaitersCounted
  <1>4. QED
    BY <1>1, <1>2, <1>3 DEF Next

\* No waiter is Low signals behind between its test and the futex.
LEMMA KeyNext == IInv /\ [Next]_vars => KeyInv'
  <1> SUFFICES ASSUME IInv, [Next]_vars PROVE KeyInv'
    OBVIOUS
  <1>typ. TypeOK
    BY DEF IInv
  <1>inv. KeyInv
    BY DEF IInv
  <1> USE DEF WGoto, PGoto
  <1>1. ASSUME NEW t \in Waiters, Wait(t) PROVE KeyInv'
    <2>1. CASE Check(t)
      BY <2>1, <1>typ, <1>inv, LowAssumption DEF Check, Look, TypeOK, KeyInv
    <2>2. CASE thr_ec_get(t)
      BY <2>2, <1>typ, <1>inv, LowAssumption DEF thr_ec_get, TypeOK, KeyInv
    <2>3. CASE Recheck(t)
      BY <2>3, <1>typ, <1>inv, LowAssumption DEF Recheck, Look, TypeOK, KeyInv
    <2>4. CASE WaitTest(t)
      BY <2>4, <1>typ, <1>inv, LowAssumption DEF WaitTest, TypeOK, KeyInv
    <2>5. CASE WaitAdd(t)
      BY <2>5, <1>typ, <1>inv, LowAssumption DEF WaitAdd, TypeOK, KeyInv
    <2>6. CASE WaitFutex(t)
      BY <2>6, <1>typ, <1>inv, LowAssumption DEF WaitFutex, TypeOK, KeyInv
    <2>7. CASE WaitTimeout(t)
      BY <2>7, <1>typ, <1>inv, LowAssumption DEF WaitTimeout, TypeOK, KeyInv
    <2>8. CASE WaitCleanup(t)
      BY <2>8, <1>typ, <1>inv, LowAssumption DEF WaitCleanup, TypeOK, KeyInv
    <2>9. QED
      BY <1>1, <2>1, <2>2, <2>3, <2>4, <2>5, <2>6, <2>7, <2>8 DEF Wait,
         thr_ec_timedwait
  <1>2. ASSUME NEW p \in Posters, Post(p) \/ thr_ec_signal_n(p) PROVE KeyInv'
    <2>1. CASE Post(p)
      BY <2>1, <1>typ, <1>inv, LowAssumption DEF Post, TypeOK, KeyInv
    <2>2. CASE SignalInc(p)
      BY <2>2, <1>typ, <1>inv, LowAssumption DEF SignalInc, NoCycle, TypeOK,
         KeyInv
    <2>3. CASE SignalLoad(p)
      BY <2>3, <1>typ, <1>inv, LowAssumption DEF SignalLoad, TypeOK, KeyInv
    <2>4. CASE SignalWake(p)
      BY <2>4, <1>typ, <1>inv DEF SignalWake, Asleep, TypeOK, KeyInv
    <2>5. QED
      BY <1>2, <2>1, <2>2, <2>3, <2>4 DEF thr_ec_signal_n
  <1>3. CASE UNCHANGED vars
    BY <1>3, <1>typ, <1>inv, LowAssumption DEF vars, TypeOK, KeyInv
  <1>4. QED
    BY <1>1, <1>2, <1>3 DEF Next

\* A current key after a fruitless look is a key a signal is about to change.
LEMMA HeldNext == IInv /\ [Next]_vars => HeldInv'
  <1> SUFFICES ASSUME IInv, [Next]_vars PROVE HeldInv'
    OBVIOUS
  <1>typ. TypeOK
    BY DEF IInv
  <1>inv. HeldInv
    BY DEF IInv
  <1>key. KeyInv
    BY DEF IInv
  <1> USE DEF WGoto, PGoto
  <1>1. ASSUME NEW t \in Waiters, Wait(t) PROVE HeldInv'
    <2>1. CASE Check(t)
      BY <2>1, <1>typ, <1>inv, <1>key DEF Check, Look, TypeOK, HeldInv
    <2>2. CASE thr_ec_get(t)
      BY <2>2, <1>typ, <1>inv, <1>key DEF thr_ec_get, TypeOK, HeldInv
    <2>3. CASE Recheck(t)
      BY <2>3, <1>typ, <1>inv, <1>key DEF Recheck, Look, TypeOK, HeldInv
    <2>4. CASE WaitTest(t)
      BY <2>4, <1>typ, <1>inv, <1>key DEF WaitTest, TypeOK, HeldInv
    <2>5. CASE WaitAdd(t)
      BY <2>5, <1>typ, <1>inv, <1>key DEF WaitAdd, TypeOK, HeldInv
    <2>6. CASE WaitFutex(t)
      BY <2>6, <1>typ, <1>inv, <1>key DEF WaitFutex, TypeOK, HeldInv
    <2>7. CASE WaitTimeout(t)
      BY <2>7, <1>typ, <1>inv, <1>key DEF WaitTimeout, TypeOK, HeldInv
    <2>8. CASE WaitCleanup(t)
      BY <2>8, <1>typ, <1>inv, <1>key DEF WaitCleanup, TypeOK, HeldInv
    <2>9. QED
      BY <1>1, <2>1, <2>2, <2>3, <2>4, <2>5, <2>6, <2>7, <2>8 DEF Wait,
         thr_ec_timedwait
  <1>2. ASSUME NEW p \in Posters, Post(p) \/ thr_ec_signal_n(p) PROVE HeldInv'
    <2>1. CASE Post(p)
      BY <2>1, <1>typ, <1>inv, <1>key DEF Post, TypeOK, HeldInv
    <2>2. CASE SignalInc(p)
      BY <2>2, <1>typ, <1>key DEF SignalInc, TypeOK, HeldInv, KeyInv
    <2>3. CASE SignalLoad(p)
      BY <2>3, <1>typ, <1>inv, <1>key DEF SignalLoad, TypeOK, HeldInv
    <2>4. CASE SignalWake(p)
      BY <2>4, <1>typ, <1>inv DEF SignalWake, Asleep, TypeOK, HeldInv
    <2>5. QED
      BY <1>2, <2>1, <2>2, <2>3, <2>4 DEF thr_ec_signal_n
  <1>3. CASE UNCHANGED vars
    BY <1>3, <1>typ, <1>inv, <1>key DEF vars, TypeOK, HeldInv
  <1>4. QED
    BY <1>1, <1>2, <1>3 DEF Next

\* Who stops looking, or signalling, leaves nobody asleep on work.
LEMMA WakeNext == IInv /\ [Next]_vars => NoLostWakeup'
  <1> SUFFICES ASSUME IInv, [Next]_vars PROVE NoLostWakeup'
    OBVIOUS
  <1>typ. TypeOK
    BY DEF IInv
  <1>inv. NoLostWakeup
    BY DEF IInv
  <1> USE DEF WGoto, PGoto
  <1>1. ASSUME NEW t \in Waiters, Wait(t) PROVE NoLostWakeup'
    <2>1. CASE Check(t)
      BY <2>1, <1>typ DEF Check, Look, TypeOK, NoLostWakeup, Looking
    <2>2. CASE thr_ec_get(t)
      BY <2>2, <1>typ, <1>inv DEF thr_ec_get, TypeOK, NoLostWakeup, Asleep,
         Looking
    <2>3. CASE Recheck(t)
      BY <2>3, <1>typ DEF Recheck, Look, TypeOK, NoLostWakeup, Looking
    <2>4. CASE WaitTest(t)
      BY <2>4, <1>typ, <1>inv DEF WaitTest, TypeOK, NoLostWakeup, Asleep,
         Looking
    <2>5. CASE WaitAdd(t)
      BY <2>5, <1>typ, <1>inv DEF WaitAdd, TypeOK, NoLostWakeup, Asleep, Looking
    <2>6. CASE WaitFutex(t)
      <3>1. CASE wkey[t] = key
        BY <2>6, <3>1, <1>typ, <1>inv DEF WaitFutex, TypeOK, NoLostWakeup,
           Asleep,
           Looking, IInv, HeldInv
      <3>2. CASE wkey[t] # key
        <4>1. wkey[t] % Low # key % Low
          BY <2>6, <3>2, <1>typ, LowAssumption, SameLowWord DEF WaitFutex,
             TypeOK,
             IInv, KeyInv
        <4>2. Looking(t)'
          BY <2>6, <4>1, <1>typ DEF WaitFutex, TypeOK, Looking
        <4>3. QED
          BY <4>2 DEF NoLostWakeup
      <3>3. QED
        BY <3>1, <3>2
    <2>7. CASE WaitTimeout(t)
      BY <2>7, <1>typ, <1>inv DEF WaitTimeout, TypeOK, NoLostWakeup, Asleep,
         Looking
    <2>8. CASE WaitCleanup(t)
      BY <2>8, <1>typ, <1>inv DEF WaitCleanup, TypeOK, NoLostWakeup, Asleep,
         Looking
    <2>9. QED
      BY <1>1, <2>1, <2>2, <2>3, <2>4, <2>5, <2>6, <2>7, <2>8 DEF Wait,
         thr_ec_timedwait
  <1>2. ASSUME NEW p \in Posters, Post(p) \/ thr_ec_signal_n(p) PROVE NoLostWakeup'
    <2>1. CASE Post(p)
      BY <2>1, <1>typ DEF Post, TypeOK, NoLostWakeup
    <2>2. CASE SignalInc(p)
      BY <2>2, <1>typ DEF SignalInc, TypeOK, NoLostWakeup
    <2>3. CASE SignalLoad(p)
      <3>1. CASE waiters = 0
        <4>1. Counted = {}
          BY <3>1, CountedFacts, FS_EmptySet DEF IInv, WaitersCounted, Counted
        <4>2. Asleep' = {}
          BY <2>3, <4>1 DEF SignalLoad, Counted, Asleep
        <4>3. QED
          BY <4>2 DEF NoLostWakeup
      <3>2. CASE waiters # 0
        BY <2>3, <3>2, <1>typ DEF SignalLoad, TypeOK, NoLostWakeup
      <3>3. QED
        BY <3>1, <3>2
    <2>4. CASE SignalWake(p)
      <3>1. CASE Asleep = {}
        BY <2>4, <3>1 DEF SignalWake, Asleep, NoLostWakeup
      <3>2. CASE Asleep # {}
        <4>1. PICK u \in Asleep : wpc'[u] = "sub"
          BY <2>4, <3>2 DEF SignalWake, Asleep
        <4>2. QED
          BY <4>1 DEF NoLostWakeup, Looking, Asleep
      <3>3. QED
        BY <3>1, <3>2
    <2>5. QED
      BY <1>2, <2>1, <2>2, <2>3, <2>4 DEF thr_ec_signal_n
  <1>3. CASE UNCHANGED vars
    BY <1>3, <1>typ, <1>inv DEF vars, TypeOK, NoLostWakeup, Asleep, Looking
  <1>4. QED
    BY <1>1, <1>2, <1>3 DEF Next

\* The invariant holds initially.
LEMMA IInvInit == Init => IInv
  <1> SUFFICES ASSUME Init PROVE IInv
    OBVIOUS
  <1>1. TypeOK
    BY PostAssumption DEF Init, TypeOK, WPc, PPc
  <1>2. WaitersCounted
    <2>1. Counted = {}
      BY DEF Init, Counted
    <2>2. QED
      BY <2>1, CountedFacts DEF Init, WaitersCounted, Counted
  <1>3. KeyInv /\ HeldInv /\ NoLostWakeup
    BY LowAssumption DEF Init, KeyInv, HeldInv, NoLostWakeup
  <1>4. QED
    BY <1>1, <1>2, <1>3 DEF IInv

\* The inductive invariant holds in every reachable state.
THEOREM Invariance == Spec => []IInv
  <1>1. IInv /\ [Next]_vars => IInv'
    BY TypeNext, CountedNext, KeyNext, HeldNext, WakeNext DEF IInv
  <1>2. QED
    BY IInvInit, <1>1, PTL DEF Spec

\* The event count keeps its types; waiters never goes below zero.
THEOREM TypeCorrect == Spec => []TypeOK
  <1>1. IInv => TypeOK
    BY DEF IInv
  <1>2. QED
    BY <1>1, Invariance, PTL

\* ec->waiters counts the threads that sleep or may sleep.
THEOREM CountsWaiters == Spec => []WaitersCounted
  <1>1. IInv => WaitersCounted
    BY DEF IInv
  <1>2. QED
    BY <1>1, Invariance, PTL

\* In the usage pattern of thr-evc.h no thread sleeps on work that is left,
\* unless a signal is under way or another thread is about to look, for any
\* number of threads and as long as the low word of the key does not cycle
\* between a waiter's test and its futex call.
THEOREM NothingSleptOn == Spec => []NoLostWakeup
  <1>1. IInv => NoLostWakeup
    BY DEF IInv
  <1>2. QED
    BY <1>1, Invariance, PTL

-----------------------------------------------------------------------------
(* ThrMain.  The pointer to the event count of thread 0 is like a token:   *)
(* while thread 0 waits it is in thr0_cur_ec_g or with one producer, and   *)
(* at no other time is it anywhere.                                        *)

CONSTANTS Producers, MaxPush, WaitFrom
VARIABLES mq, phase, cur_ec, pending, woken, pushed, sync, first, tpc, tkey, dret, wret

M == INSTANCE ThrMain

Waiting == {"w_get", "w_poll", "w_block", "asleep", "w_cas"}
TPcs == {"before", "poll", "drain", "w_cond", "w_store"} \cup Waiting
PPcs == {"run", "link", "xchg", "broadcast", "restore", "wait", "done"}

Taken(p) == ppc[p] \in {"broadcast", "restore"}

MainTypeOK ==
  /\ cur_ec \in BOOLEAN
  /\ ppc \in [Producers -> PPcs]
  /\ tpc \in TPcs
  /\ dret \in {"before", "poll", "w_cond"}
  /\ wret \in {"none", "before", "drain"}

OneToken ==
  /\ \A p \in Producers : Taken(p) => ~cur_ec
  /\ \A p, q \in Producers : Taken(p) /\ Taken(q) => p = q
  /\ tpc \in Waiting <=> (cur_ec \/ \E p \in Producers : Taken(p))

\* A wait has a place to return to.
Returns == tpc \in Waiting \cup {"w_cond", "w_store"} \/ dret = "w_cond" => wret # "none"

MainInv == MainTypeOK /\ OneToken /\ Returns

\* At the start thread 0 does not wait, and nobody has the pointer.
LEMMA MainInit == M!Init => MainInv
  <1> SUFFICES ASSUME M!Init PROVE MainInv
    OBVIOUS
  <1>1. cur_ec \in BOOLEAN /\ ~cur_ec
    BY Zenon DEF M!Init
  <1>2. QED
    BY <1>1 DEF M!Init, MainInv, MainTypeOK, OneToken, Returns, Taken, Waiting, TPcs, PPcs

\* A step of a producer passes the token on, or leaves it.
LEMMA MainProducer ==
  ASSUME MainInv, NEW p \in Producers, M!Producer(p) PROVE MainInv'
  <1> USE DEF MainInv, MainTypeOK, OneToken, Returns, Taken, Waiting, TPcs, PPcs, M!pvars, M!tvars
  <1>1. CASE M!Push(p)
    BY <1>1 DEF M!Push, M!PGoto
  <1>2. CASE M!PushLink(p)
    BY <1>2 DEF M!PushLink, M!PGoto, M!Pushed
  <1>3. CASE M!WakeXchg(p)
    <2>1. CASE cur_ec
      BY ZenonT(60), <1>3, <2>1 DEF M!WakeXchg, M!PGoto
    <2>2. CASE ~cur_ec
      BY ZenonT(60), <1>3, <2>2 DEF M!WakeXchg, M!PGoto, M!Pushed
    <2>3. QED
      BY <2>1, <2>2
  <1>4. CASE M!WakeBroadcast(p)
    BY <1>4 DEF M!WakeBroadcast, M!Broadcast, M!PGoto
  <1>5. CASE M!WakeRestore(p)
    BY <1>5 DEF M!WakeRestore, M!PGoto, M!Pushed
  <1>6. CASE M!SyncReturn(p)
    BY <1>6 DEF M!SyncReturn, M!PGoto
  <1>7. CASE M!JobDone(p)
    BY <1>7 DEF M!JobDone, M!Broadcast, M!PGoto
  <1>8. QED
    BY <1>1, <1>2, <1>3, <1>4, <1>5, <1>6, <1>7 DEF M!Producer

\* A step of thread 0 makes the token, takes it back, or leaves it.
LEMMA MainThread0 ==
  ASSUME MainInv, M!Thr0 \/ M!ElWait PROVE MainInv'
  <1> USE DEF MainInv, MainTypeOK, OneToken, Returns, Taken, Waiting, TPcs, PPcs, M!pvars, M!tvars
  <1>1. CASE M!ElBefore
    BY <1>1 DEF M!ElBefore, M!Drain, M!TGoto
  <1>2. CASE M!ElWake
    BY <1>2 DEF M!ElWake, M!Drain, M!TGoto
  <1>3. CASE M!ElWait
    BY <1>3 DEF M!ElWait, M!CallWait
  <1>4. CASE M!DrainJob
    BY <1>4 DEF M!DrainJob, M!CallWait
  <1>5. CASE M!DrainEnd
    BY <1>5 DEF M!DrainEnd, M!TGoto
  <1>6. CASE M!WaitCond
    BY <1>6 DEF M!WaitCond, M!Drain, M!TGoto
  <1>7. CASE M!WaitStore
    BY <1>7 DEF M!WaitStore, M!TGoto
  <1>8. CASE M!WaitGet
    BY <1>8 DEF M!WaitGet
  <1>9. CASE M!WaitPoll
    BY <1>9 DEF M!WaitPoll, M!TGoto
  <1>10. CASE M!WaitBlock
    BY <1>10 DEF M!WaitBlock, M!TGoto
  <1>11. CASE M!WaitCas
    BY ZenonT(60), <1>11 DEF M!WaitCas, M!TGoto
  <1>12. QED
    BY <1>1, <1>2, <1>3, <1>4, <1>5, <1>6, <1>7, <1>8, <1>9, <1>10, <1>11
       DEF M!Thr0, M!thr_syn_wait

\* Wherever thread 0 waits from and however many producers wake it up.
LEMMA MainAlways == M!Spec => []MainInv
  <1>1. MainInv /\ [M!Next]_(M!vars) => MainInv'
    <2>1. MainInv /\ UNCHANGED M!vars => MainInv'
      BY DEF MainInv, MainTypeOK, OneToken, Returns, Taken, M!vars, M!pvars, M!tvars
    <2>2. QED
      BY <2>1, MainProducer, MainThread0 DEF M!Next
  <1>2. QED
    BY <1>1, MainInit, PTL DEF M!Spec

\* When thread 0 has left thr_syn_wait_until_flags, and may have freed the syn,
\* neither thr0_cur_ec_g nor a producer in thr_wakeup_thr0 has a pointer to its
\* event count.
THEOREM EcNeverDangles == M!Spec => []M!NoDanglingEc
  <1>1. MainInv => M!NoDanglingEc
    BY DEF MainInv, OneToken, Taken, Waiting, M!NoDanglingEc
  <1>2. QED
    BY <1>1, MainAlways, PTL

\* While thread 0 waits its event count is in thr0_cur_ec_g or with one producer
\* that will restore it: the busy loop on the compare-and-swap at the end of the
\* wait has something to wait for.
THEOREM EcNeverLost ==
  M!Spec => [](tpc \in Waiting => (cur_ec \/ \E p \in Producers : Taken(p)))
  <1>1. MainInv => (tpc \in Waiting => (cur_ec \/ \E p \in Producers : Taken(p)))
    BY DEF MainInv, OneToken
  <1>2. QED
    BY <1>1, MainAlways, PTL

-----------------------------------------------------------------------------
(* ElWake, with users that wait until a fire is read before the next one.  *)
(* wakeup_count lags behind by the threads that are in el_wake_fire, less  *)
(* the write that is not read and the read that is not counted.            *)

CONSTANTS Firers, Paced, MaxFires
VARIABLES efd, wakeup_count, fires, fpc, lpc

W == INSTANCE ElWake

Inside == {f \in Firers : fpc[f] \in {"written", "read"}}

WakeTypeOK ==
  /\ efd \in {0, 1}
  /\ wakeup_count \in Int
  /\ fires \in Nat
  /\ fpc \in [Firers -> {"out", "written", "read"}]
  /\ lpc \in {"poll", "count", "callback", "unregister", "closed"}

WakeCounted ==
  /\ wakeup_count = efd - Cardinality(Inside) + (IF lpc = "count" THEN 1 ELSE 0)
  /\ lpc \in {"unregister", "closed"} => efd = 0
  /\ lpc = "closed" => Inside = {}

WakeInv == WakeTypeOK /\ WakeCounted

\* A thread enters or leaves el_wake_fire.
LEMMA InsideSteps ==
  ASSUME IsFiniteSet(Firers), WakeTypeOK
  PROVE  /\ Cardinality(Inside) \in Nat
         /\ (Cardinality(Inside) = 0) <=> (Inside = {})
         /\ \A f \in Firers \ Inside : Cardinality(Inside \cup {f}) = Cardinality(Inside) + 1
         /\ \A f \in Inside : Cardinality(Inside \ {f}) = Cardinality(Inside) - 1
  <1>1. IsFiniteSet(Inside)
    BY FS_Subset DEF Inside
  <1>2. QED
    BY ZenonT(60), <1>1, FS_CardinalityType, FS_EmptySet, FS_AddElement, FS_RemoveElement

\* Every step keeps the count.
LEMMA WakeupNext ==
  ASSUME IsFiniteSet(Firers), Paced, WakeInv, [W!Next]_(W!vars)
  PROVE  WakeInv'
  <1> USE DEF WakeInv, WakeTypeOK, WakeCounted
  <1>1. ASSUME NEW f \in Firers, W!FireWrite(f) PROVE WakeInv'
    <2>1. Inside' = Inside \cup {f} /\ f \in Firers \ Inside
      BY <1>1 DEF W!FireWrite, Inside
    <2>2. Cardinality(Inside') = Cardinality(Inside) + 1 /\ Cardinality(Inside) \in Nat
      BY <2>1, InsideSteps
    <2>3. QED
      BY <1>1, <2>2 DEF W!FireWrite
  <1>2. ASSUME NEW f \in Firers, W!FireCount(f) PROVE WakeInv'
    <2>1. Inside' = Inside \ {f} /\ f \in Inside
      BY <1>2 DEF W!FireCount, Inside
    <2>2. Cardinality(Inside') = Cardinality(Inside) - 1 /\ Cardinality(Inside) \in Nat
      BY <2>1, InsideSteps
    <2>3. QED
      BY <1>2, <2>1, <2>2 DEF W!FireCount
  <1>3. CASE W!Read
    <2>1. Inside' = Inside /\ Cardinality(Inside) \in Nat
      BY <1>3, InsideSteps DEF W!Read, Inside
    <2>2. QED
      BY <1>3, <2>1 DEF W!Read
  <1>4. ASSUME W!Count \/ W!Return \/ W!Unregister \/ UNCHANGED W!vars PROVE WakeInv'
    <2>1. Inside' = Inside /\ Cardinality(Inside) \in Nat
      BY <1>4, InsideSteps DEF W!Count, W!Return, W!Unregister, W!vars, Inside
    <2>2. QED
      BY <1>4, <2>1 DEF W!Count, W!Return, W!Unregister, W!vars
  <1>5. CASE W!Close
    <2>1. Inside' = Inside /\ Cardinality(Inside) \in Nat
      BY <1>5, InsideSteps DEF W!Close, Inside
    <2>2. Cardinality(Inside) = 0
      BY <1>5, <2>1 DEF W!Close
    <2>3. Inside = {}
      BY <2>2, InsideSteps
    <2>4. QED
      BY <1>5, <2>1, <2>3 DEF W!Close
  <1>6. QED
    BY <1>1, <1>2, <1>3, <1>4, <1>5 DEF W!Next, W!Loop

\* el_wake_unregister does not close the eventfd, nor free the event, while a
\* thread is in el_wake_fire, when fires are paced; any number of threads fire.
THEOREM NotClosedInFire ==
  ASSUME IsFiniteSet(Firers), Paced PROVE W!Spec => []W!NoCloseInFire
  <1>1. W!Init => WakeInv
    <2> SUFFICES ASSUME W!Init PROVE WakeInv
      OBVIOUS
    <2>1. Inside = {} /\ WakeTypeOK
      BY DEF W!Init, Inside, WakeTypeOK
    <2>2. QED
      BY <2>1, FS_EmptySet DEF W!Init, WakeInv, WakeCounted
  <1>2. WakeInv => W!NoCloseInFire
    BY DEF WakeInv, WakeCounted, Inside, W!NoCloseInFire
  <1>3. QED
    BY <1>1, <1>2, WakeupNext, PTL DEF W!Spec

-----------------------------------------------------------------------------
(* Lemmas about sequences. *)

\* A sequence that is cut in two.
LEMMA SplitSeq ==
  ASSUME NEW S, NEW s \in Seq(S), NEW n \in 1..Len(s)
  PROVE  /\ SubSeq(s, 1, n) \in Seq(S)
         /\ SubSeq(s, n + 1, Len(s)) \in Seq(S)
         /\ SubSeq(s, 1, n) \o SubSeq(s, n + 1, Len(s)) = s
  <1>1. Len(s) \in Nat /\ \A i \in 1..Len(s) : s[i] \in S
    OBVIOUS
  <1>2. SubSeq(s, 1, n) \in Seq(S)
    BY <1>1
  <1>3. SubSeq(s, n + 1, Len(s)) \in Seq(S)
    <2>1. n + 1 \in Int /\ Len(s) \in Int /\ \A i \in (n + 1)..Len(s) : s[i] \in S
      BY <1>1
    <2>2. QED
      BY <2>1
  <1>4. SubSeq(s, 1, n) \o SubSeq(s, n + 1, Len(s)) = SubSeq(s, 1, Len(s))
    <2>1. 1 \in 1..(Len(s) + 1) /\ n \in (1 - 1)..Len(s) /\ Len(s) \in n..Len(s)
      BY <1>1
    <2>2. QED
      BY <2>1
  <1>5. QED
    BY <1>2, <1>3, <1>4

\* What is appended to the second of two sequences is at the end of both.
LEMMA ConcatAppend ==
  ASSUME NEW S, NEW s \in Seq(S), NEW t \in Seq(S), NEW e \in S
  PROVE  s \o Append(t, e) = Append(s \o t, e)
  <1>1. <<e>> \in Seq(S)
    OBVIOUS
  <1>2. s \o t \in Seq(S)
    OBVIOUS
  <1>3. Append(t, e) = t \o <<e>> /\ Append(s \o t, e) = (s \o t) \o <<e>>
    BY <1>2
  <1>4. QED
    BY <1>1, <1>3

\* The head of the first of two sequences is the head of both.
LEMMA ConcatTail ==
  ASSUME NEW S, NEW s \in Seq(S), NEW t \in Seq(S), s # <<>>
  PROVE  /\ Tail(s) \in Seq(S) /\ s \o t # <<>>
         /\ Head(s) = (s \o t)[1]
         /\ Len(Tail(s) \o t) = Len(s \o t) - 1
         /\ \A i \in 1..(Len(s \o t) - 1) : (Tail(s) \o t)[i] = (s \o t)[i + 1]
  <1>1. /\ Len(s) \in Nat \ {0} /\ Len(t) \in Nat /\ Tail(s) \in Seq(S)
        /\ Len(Tail(s)) = Len(s) - 1
        /\ \A i \in 1..(Len(s) - 1) : Tail(s)[i] = s[i + 1]
    OBVIOUS
  <1>2. /\ Len(s \o t) = Len(s) + Len(t) /\ s \o t \in Seq(S)
        /\ \A i \in 1..(Len(s) + Len(t)) :
              (s \o t)[i] = IF i <= Len(s) THEN s[i] ELSE t[i - Len(s)]
    OBVIOUS
  <1>3. /\ Len(Tail(s) \o t) = Len(s) - 1 + Len(t)
        /\ \A i \in 1..(Len(s) - 1 + Len(t)) :
              (Tail(s) \o t)[i] = IF i <= Len(s) - 1 THEN Tail(s)[i] ELSE t[i - (Len(s) - 1)]
    BY <1>1
  <1>4. s \o t # <<>>
    BY <1>1
  <1>5. Head(s) = (s \o t)[1]
    BY <1>1, <1>2
  <1>6. ASSUME NEW i \in 1..(Len(s) + Len(t) - 1)
        PROVE  (Tail(s) \o t)[i] = (s \o t)[i + 1]
    <2>1. CASE i <= Len(s) - 1
      <3>1. i \in 1..(Len(s) - 1) /\ i \in 1..(Len(s) - 1 + Len(t))
            /\ i + 1 \in 1..(Len(s) + Len(t)) /\ i + 1 <= Len(s)
        BY <1>1, <2>1
      <3>2. QED
        BY <1>1, <1>2, <1>3, <2>1, <3>1
    <2>2. CASE ~(i <= Len(s) - 1)
      <3>1. /\ i \in 1..(Len(s) - 1 + Len(t)) /\ i + 1 \in 1..(Len(s) + Len(t))
            /\ ~(i + 1 <= Len(s)) /\ i + 1 - Len(s) = i - (Len(s) - 1)
        BY <1>1, <2>2
      <3>2. QED
        BY <1>2, <1>3, <2>2, <3>1
    <2>3. QED
      BY <2>1, <2>2
  <1>7. QED
    BY <1>1, <1>2, <1>3, <1>4, <1>5, <1>6

-----------------------------------------------------------------------------
(* ElFsWatch, when callbacks run no nested loop.  The events read and not  *)
(* processed, and then those in the queue of the kernel, are for known     *)
(* watches, and IN_IGNORED is the last one for its watch.                  *)

CONSTANTS MaxWd, MaxQueue, MaxNest
VARIABLES kwatch, kqueue, nextwd, ino, watches, ev, held, frames, panic

F == INSTANCE ElFsWatch

Evts == [wd : F!Wds, ignored : BOOLEAN]
Buf == IF frames = <<>> THEN <<>> ELSE frames[1].buf
Pending == Buf \o kqueue

WatchTypeOK ==
  /\ kqueue \in Seq(Evts)
  /\ frames \in Seq([buf : Seq(Evts), call : BOOLEAN]) /\ Len(frames) <= 1
  /\ nextwd \in Nat \ {0}
  /\ watches \in SUBSET F!Wds /\ kwatch \in SUBSET watches /\ held \in SUBSET F!Wds
  /\ \A w \in watches \cup held : w < nextwd
  /\ ev \in [F!Wds -> {"none", "active", "inactive", "destroyed"}]
  /\ panic \in BOOLEAN

IgnoredLast ==
  \A i \in 1..Len(Pending) :
    /\ Pending[i].wd \in watches
    /\ Pending[i].ignored =>
         /\ Pending[i].wd \notin kwatch
         /\ \A j \in (i + 1)..Len(Pending) : Pending[j].wd # Pending[i].wd

EventsLive == \A w \in watches : ev[w] = IF w \in held THEN "active" ELSE "inactive"

WatchInv == WatchTypeOK /\ IgnoredLast /\ EventsLive /\ ~panic

\* A sequence of one element.
LEMMA OneElement ==
  ASSUME NEW S, NEW s \in Seq(S), Len(s) <= 1, s # <<>>
  PROVE  Len(s) = 1 /\ s[1] \in S /\ Head(s) = s[1] /\ Tail(s) = <<>>
  <1>1. Len(s) \in Nat \ {0}
    OBVIOUS
  <1>2. Len(s) = 1
    <2>1. \A l \in Nat \ {0} : l <= 1 => l = 1
      OBVIOUS
    <2>2. QED
      BY <1>1, <2>1, Zenon
  <1>3. s[1] \in S
    BY <1>2
  <1>4. Tail(s) \in Seq(S) /\ Len(Tail(s)) = 0
    BY <1>2
  <1>5. Tail(s) = <<>>
    BY <1>4
  <1>6. QED
    BY <1>2, <1>3, <1>5

\* The element of a sequence of one is replaced.
LEMMA ReplaceElement ==
  ASSUME NEW S, NEW s \in Seq(S), Len(s) = 1, NEW r \in S
  PROVE  LET t == [s EXCEPT ![1] = r]
         IN  t \in Seq(S) /\ Len(t) = 1 /\ t # <<>> /\ t[1] = r
  <1> DEFINE t == [s EXCEPT ![1] = r]
  <1>1. 1 \in 1..Len(s)
    OBVIOUS
  <1>2. t \in Seq(S) /\ Len(t) = 1 /\ t[1] = r
    BY <1>1
  <1> HIDE DEF t
  <1>3. t # <<>>
    <2>1. 0 # 1 /\ Len(<<>>) = 0
      OBVIOUS
    <2>2. QED
      BY <1>2, <2>1, Zenon
  <1>4. QED
    BY <1>2, <1>3 DEF t

\* The buffer of the only run of inotify_cb, and what is pending.
LEMMA PendingTyped ==
  ASSUME WatchTypeOK
  PROVE  /\ Buf \in Seq(Evts) /\ Pending \in Seq(Evts) /\ Len(Pending) \in Nat
         /\ \A i \in 1..Len(Pending) : Pending[i] \in Evts
         /\ frames # <<>> => /\ Len(frames) = 1 /\ Head(frames) = frames[1]
                             /\ Tail(frames) = <<>>
                             /\ frames[1].buf \in Seq(Evts) /\ frames[1].call \in BOOLEAN
  <1> DEFINE Frame == [buf : Seq(Evts), call : BOOLEAN]
  <1>0. frames \in Seq(Frame) /\ Len(frames) <= 1 /\ kqueue \in Seq(Evts)
    BY DEF WatchTypeOK
  <1>1. ASSUME frames # <<>>
        PROVE  Len(frames) = 1 /\ Head(frames) = frames[1] /\ Tail(frames) = <<>> /\ frames[1] \in Frame
    <2> HIDE DEF Frame
    <2>1. QED
      BY <1>0, <1>1, OneElement
  <1>2. Buf \in Seq(Evts)
    BY <1>1 DEF Buf
  <1>3. QED
    BY <1>0, <1>1, <1>2 DEF Pending

\* An event that the kernel queues for a watch in place.
LEMMA EventQueued ==
  ASSUME WatchTypeOK, IgnoredLast, NEW w \in kwatch, NEW b \in BOOLEAN,
         kqueue' = Append(kqueue, F!Event(w, b)), frames' = frames, watches' = watches,
         kwatch' = IF b THEN kwatch \ {w} ELSE kwatch
  PROVE  IgnoredLast' /\ kqueue' \in Seq(Evts)
  <1> DEFINE e == F!Event(w, b)
             l == Len(Pending)
  <1>0. e \in Evts /\ e.wd = w /\ e.ignored = b /\ w \in watches
    BY DEF F!Event, Evts, WatchTypeOK
  <1>1. Pending \in Seq(Evts) /\ Buf \in Seq(Evts) /\ Buf' = Buf /\ l \in Nat /\ kqueue \in Seq(Evts)
    BY PendingTyped DEF Buf, WatchTypeOK
  <1> HIDE DEF e
  <1>2. Pending' = Append(Pending, e)
    BY <1>0, <1>1, ConcatAppend DEF Pending, e
  <1>3. /\ Len(Pending') = l + 1 /\ Pending'[l + 1] = e
        /\ \A i \in 1..l : Pending'[i] = Pending[i]
    BY <1>0, <1>1, <1>2
  <1>4. \A i \in 1..l : Pending[i].ignored => Pending[i].wd # w
    BY DEF IgnoredLast
  <1>5. ASSUME NEW i \in 1..(l + 1)
        PROVE  /\ Pending'[i].wd \in watches'
               /\ Pending'[i].ignored =>
                    /\ Pending'[i].wd \notin kwatch'
                    /\ \A j \in (i + 1)..(l + 1) : Pending'[j].wd # Pending'[i].wd
    <2>1. CASE i = l + 1
      <3>1. (i + 1)..(l + 1) = {}
        BY <1>1, <2>1
      <3>2. QED
        BY <1>0, <1>3, <2>1, <3>1
    <2>2. CASE i \in 1..l
      <3>1. ASSUME NEW j \in (i + 1)..(l + 1), Pending[i].ignored
            PROVE  Pending'[j].wd # Pending[i].wd
        <4>1. CASE j = l + 1
          BY <1>0, <1>3, <1>4, <2>2, <3>1, <4>1
        <4>2. CASE j # l + 1
          <5>1. j \in (i + 1)..l /\ j \in 1..l
            BY <1>1, <2>2, <4>2
          <5>2. QED
            BY <1>3, <2>2, <3>1, <5>1 DEF IgnoredLast
        <4>3. QED
          BY <4>1, <4>2
      <3>2. QED
        BY <1>3, <2>2, <3>1 DEF IgnoredLast
    <2>3. QED
      BY <1>1, <2>1, <2>2
  <1>6. kqueue' \in Seq(Evts)
    BY <1>0, <1>1 DEF e
  <1>7. QED
    BY <1>3, <1>5, <1>6 DEF IgnoredLast

\* A read moves events from the kernel to the buffer, in their order.
LEMMA ReadKeeps ==
  ASSUME WatchTypeOK, Buf = <<>>, F!Read(<<>>)
  PROVE  /\ kqueue' \in Seq(Evts) /\ Pending' = Pending
         /\ frames' \in Seq([buf : Seq(Evts), call : BOOLEAN]) /\ Len(frames') <= 1
  <1>1. PICK n \in 1..Len(kqueue) :
          /\ frames' = <<[buf |-> SubSeq(kqueue, 1, n), call |-> FALSE]>> \o <<>>
          /\ kqueue' = SubSeq(kqueue, n + 1, Len(kqueue))
    BY ZenonT(60) DEF F!Read
  <1> DEFINE b == SubSeq(kqueue, 1, n)
             r == [buf |-> b, call |-> FALSE]
  <1>2. b \in Seq(Evts) /\ kqueue' \in Seq(Evts) /\ b \o kqueue' = kqueue /\ kqueue \in Seq(Evts)
    BY <1>1, SplitSeq DEF WatchTypeOK
  <1> HIDE DEF b
  <1>3. r \in [buf : Seq(Evts), call : BOOLEAN]
    BY <1>2
  <1>4. frames' = <<r>>
    BY <1>1 DEF b
  <1>5. frames' # <<>> /\ frames'[1].buf = b
    BY <1>4
  <1>6. Pending' = b \o kqueue'
    BY <1>5 DEF Pending, Buf
  <1>7. Pending = kqueue
    BY <1>2 DEF Pending
  <1>8. QED
    BY <1>2, <1>3, <1>4, <1>6, <1>7

\* The steps of the kernel and of the user.
LEMMA WatchUser ==
  ASSUME WatchInv, NEW w \in F!Wds,
         F!Touch(w) \/ F!FileGone(w) \/ F!el_fs_watch_unregister(w) \/ F!el_fs_watch_register_d
  PROVE  WatchInv'
  <1> USE DEF WatchInv
  <1>1. CASE F!Touch(w)
    <2>1. IgnoredLast' /\ kqueue' \in Seq(Evts)
      BY ZenonT(60), <1>1, EventQueued DEF F!Touch
    <2>2. QED
      BY <1>1, <2>1 DEF F!Touch, WatchTypeOK, EventsLive
  <1>2. CASE F!FileGone(w)
    <2>1. IgnoredLast' /\ kqueue' \in Seq(Evts)
      BY ZenonT(60), <1>2, EventQueued DEF F!FileGone
    <2>2. QED
      BY ZenonT(60), <1>2, <2>1 DEF F!FileGone, WatchTypeOK, EventsLive
  <1>3. CASE F!el_fs_watch_unregister(w)
    <2>1. IgnoredLast' /\ kqueue' \in Seq(Evts) /\ kwatch' \in SUBSET watches
      <3>1. CASE ev[w] = "active" /\ w \in kwatch
        BY ZenonT(60), <1>3, <3>1, EventQueued DEF F!el_fs_watch_unregister, WatchTypeOK
      <3>2. CASE ~(ev[w] = "active" /\ w \in kwatch)
        BY ZenonT(60), <1>3, <3>2 DEF F!el_fs_watch_unregister, WatchTypeOK, IgnoredLast, Pending, Buf
      <3>3. QED
        BY <3>1, <3>2
    <2>2. QED
      BY <1>3, <2>1 DEF F!el_fs_watch_unregister, F!Disabled, WatchTypeOK, EventsLive
  <1>4. CASE F!el_fs_watch_register_d
    <2>1. /\ watches' = watches \cup {nextwd} /\ kwatch' = kwatch \cup {nextwd}
          /\ held' = held \cup {nextwd} /\ nextwd' = nextwd + 1 /\ nextwd \in F!Wds
          /\ ev' = [ev EXCEPT ![nextwd] = "active"] /\ Pending' = Pending
          /\ UNCHANGED <<kqueue, frames, panic>>
      BY <1>4 DEF F!el_fs_watch_register_d, WatchTypeOK, F!Wds, Pending, Buf
    <2>2. nextwd \notin watches \cup held
      BY DEF WatchTypeOK
    <2>3. WatchTypeOK'
      <3>1. \A x \in watches' \cup held' : x < nextwd'
        BY <2>1 DEF WatchTypeOK, F!Wds
      <3>2. QED
        BY <2>1, <3>1 DEF WatchTypeOK
    <2>4. IgnoredLast'
      BY <2>1, <2>2 DEF IgnoredLast
    <2>5. EventsLive'
      BY <2>1, <2>2 DEF WatchTypeOK, EventsLive
    <2>6. QED
      BY <2>1, <2>3, <2>4, <2>5
  <1>5. QED
    BY <1>1, <1>2, <1>3, <1>4

\* inotify_cb processes the first of the events that are pending.
LEMMA WatchProcess == ASSUME WatchInv, F!ProcessEvent PROVE WatchInv'
  <1> USE DEF WatchInv
  <1> DEFINE e == Head(frames[1].buf)
             l == Len(Pending)
  <1>1. /\ frames # <<>> /\ Head(frames) = frames[1] /\ Len(frames) = 1
        /\ frames[1].buf # <<>> /\ frames[1].buf \in Seq(Evts) /\ kqueue \in Seq(Evts)
        /\ Buf = frames[1].buf
    BY PendingTyped DEF F!ProcessEvent, F!Reading, Buf, WatchTypeOK
  <1>2. /\ Tail(Buf) \in Seq(Evts) /\ e = Pending[1] /\ l \in Nat \ {0}
        /\ Len(Tail(Buf) \o kqueue) = l - 1
        /\ \A i \in 1..(l - 1) : (Tail(Buf) \o kqueue)[i] = Pending[i + 1]
    <2>1. Pending # <<>> /\ Pending \in Seq(Evts)
      BY <1>1, ConcatTail, PendingTyped DEF Pending
    <2>2. l \in Nat \ {0}
      BY <2>1
    <2>3. /\ Tail(Buf) \in Seq(Evts) /\ Head(Buf) = (Buf \o kqueue)[1]
          /\ Len(Tail(Buf) \o kqueue) = Len(Buf \o kqueue) - 1
          /\ \A i \in 1..(Len(Buf \o kqueue) - 1) :
                (Tail(Buf) \o kqueue)[i] = (Buf \o kqueue)[i + 1]
      <3>1. Buf # <<>> /\ Buf \in Seq(Evts) /\ kqueue \in Seq(Evts)
        BY <1>1, Zenon
      <3>2. QED
        BY <3>1, ConcatTail
    <2>4. QED
      BY <1>1, <2>2, <2>3, Zenon DEF Pending
  <1>3. e \in Evts /\ e.wd \in watches /\ (e.ignored => e.wd \notin kwatch)
    <2>1. 1 \in 1..l
      BY <1>2
    <2>2. QED
      BY <1>2, <2>1, PendingTyped DEF IgnoredLast
  <1>4. \A i \in 1..(l - 1) : e.ignored => Pending[i + 1].wd # e.wd
    <2>1. 1 \in 1..l /\ \A i \in 1..(l - 1) : i + 1 \in (1 + 1)..l
      BY <1>2
    <2>2. QED
      BY <1>2, <2>1 DEF IgnoredLast
  <1>5. /\ frames' = [frames EXCEPT ![1] =
             [buf |-> Tail(frames[1].buf), call |-> ~e.ignored /\ ev[e.wd] = "active"]]
        /\ panic' = panic
        /\ watches' = IF e.ignored THEN watches \ {e.wd} ELSE watches
        /\ ev' = IF e.ignored THEN F!Disabled(e.wd) ELSE ev
        /\ UNCHANGED <<kwatch, kqueue, nextwd, ino, held>>
    BY <1>1, <1>3 DEF F!ProcessEvent, WatchTypeOK, Evts
  <1>6. /\ frames' \in Seq([buf : Seq(Evts), call : BOOLEAN]) /\ Len(frames') = 1
        /\ frames' # <<>> /\ frames'[1].buf = Tail(Buf)
    <2> DEFINE c == ~e.ignored /\ ev[e.wd] = "active"
               r == [buf |-> Tail(Buf), call |-> c]
    <2>1. c \in BOOLEAN
      BY Zenon
    <2> HIDE DEF c
    <2>2. frames[1] \in [buf : Seq(Evts), call : BOOLEAN] /\ frames \in Seq([buf : Seq(Evts), call : BOOLEAN])
      BY ZenonT(60), <1>1, OneElement DEF WatchTypeOK
    <2>3. r \in [buf : Seq(Evts), call : BOOLEAN]
      BY <1>2, <2>1
    <2>4. frames' = [frames EXCEPT ![1] = r]
      BY <1>1, <1>5, Zenon DEF c
    <2> HIDE DEF r
    <2>5. frames' \in Seq([buf : Seq(Evts), call : BOOLEAN]) /\ Len(frames') = 1 /\ frames'[1] = r
          /\ frames' # <<>>
      BY <1>1, <2>2, <2>3, <2>4, ReplaceElement
    <2>6. QED
      BY <2>5 DEF r
  <1>7. Pending' = Tail(Buf) \o kqueue
    BY <1>5, <1>6 DEF Pending, Buf
  <1>8. IgnoredLast'
    <2>1. ASSUME NEW i \in 1..(l - 1)
          PROVE  /\ Pending[i + 1].wd \in watches'
                 /\ Pending[i + 1].ignored =>
                      /\ Pending[i + 1].wd \notin kwatch
                      /\ \A j \in (i + 1)..(l - 1) : Pending[j + 1].wd # Pending[i + 1].wd
      <3>1. i + 1 \in 1..l /\ \A j \in (i + 1)..(l - 1) : j + 1 \in ((i + 1) + 1)..l
        BY <1>2
      <3>2. QED
        BY <1>4, <1>5, <3>1 DEF IgnoredLast
    <2>2. \A i \in 1..(l - 1) : \A j \in (i + 1)..(l - 1) : j \in 1..(l - 1)
      BY <1>2
    <2>3. Len(Pending') = l - 1 /\ \A i \in 1..(l - 1) : Pending'[i] = Pending[i + 1]
      BY ZenonT(60), <1>2, <1>7
    <2> HIDE DEF l, e
    <2>4. QED
      <3>1. kwatch' = kwatch
        BY <1>5
      <3>2. \A i \in 1..(l - 1) : /\ Pending'[i].wd \in watches'
                                  /\ Pending'[i].ignored => Pending'[i].wd \notin kwatch'
        BY <2>1, <2>3, <3>1
      <3>3. \A i \in 1..(l - 1) : Pending'[i].ignored =>
              \A j \in (i + 1)..(l - 1) : Pending'[j].wd # Pending'[i].wd
        BY <2>1, <2>2, <2>3
      <3>4. QED
        BY <2>3, <3>2, <3>3, Zenon DEF IgnoredLast
  <1> HIDE DEF e, l
  <1>9. WatchTypeOK'
    <2>1. /\ watches' \in SUBSET watches /\ kwatch' \in SUBSET watches'
          /\ ev' \in [F!Wds -> {"none", "active", "inactive", "destroyed"}]
      BY <1>3, <1>5 DEF WatchTypeOK, F!Disabled, Evts
    <2>2. QED
      BY <1>5, <1>6, <2>1 DEF WatchTypeOK
  <1>10. EventsLive'
    BY <1>3, <1>5 DEF WatchTypeOK, EventsLive, F!Disabled, Evts
  <1>11. QED
    BY <1>5, <1>8, <1>9, <1>10

\* The other steps of inotify_cb.
LEMMA WatchCallback ==
  ASSUME MaxNest = 1, WatchInv, F!inotify_cb \/ F!CallbackReturns \/ F!BufferDone
  PROVE  WatchInv'
  <1> USE DEF WatchInv
  <1>1. ASSUME F!Read(<<>>), Buf = <<>>,
               UNCHANGED <<kwatch, nextwd, watches, ev, held, panic>>
        PROVE  WatchInv'
    <2>1. /\ kqueue' \in Seq(Evts) /\ Pending' = Pending
          /\ frames' \in Seq([buf : Seq(Evts), call : BOOLEAN]) /\ Len(frames') <= 1
      BY <1>1, ReadKeeps
    <2>2. QED
      BY <1>1, <2>1 DEF WatchTypeOK, IgnoredLast, EventsLive
  <1>2. CASE F!inotify_cb
    <2>1. frames = <<>>
      <3>1. frames # <<>> => Len(frames) = 1
        BY PendingTyped
      <3>2. Len(frames) < 1
        BY <1>2 DEF F!inotify_cb
      <3>3. QED
        BY <3>1, <3>2
    <2>2. QED
      BY <1>1, <1>2, <2>1 DEF F!inotify_cb, Buf
  <1>3. CASE F!CallbackReturns
    <2> DEFINE r == [buf |-> frames[1].buf, call |-> FALSE]
    <2>1. /\ frames # <<>> /\ Len(frames) = 1 /\ 1 \in 1..Len(frames)
          /\ frames[1].buf \in Seq(Evts)
      BY <1>3, PendingTyped DEF F!CallbackReturns
    <2>2. frames[1] \in [buf : Seq(Evts), call : BOOLEAN] /\ frames \in Seq([buf : Seq(Evts), call : BOOLEAN])
      BY ZenonT(60), <2>1, OneElement DEF WatchTypeOK
    <2>3. r \in [buf : Seq(Evts), call : BOOLEAN]
      BY <2>1
    <2>4. frames' = [frames EXCEPT ![1] = r]
      BY <1>3, Zenon DEF F!CallbackReturns
    <2>5. frames' \in Seq([buf : Seq(Evts), call : BOOLEAN]) /\ Len(frames') = 1 /\ frames'[1] = r
          /\ frames' # <<>>
      BY <2>1, <2>2, <2>3, <2>4, ReplaceElement
    <2>6. Pending' = Pending
      BY <1>3, <2>1, <2>5 DEF F!CallbackReturns, Pending, Buf
    <2>7. QED
      BY <1>3, <2>5, <2>6 DEF F!CallbackReturns, WatchTypeOK, IgnoredLast, EventsLive
  <1>4. CASE F!BufferDone
    <2>1. /\ Tail(frames) = <<>> /\ Buf = <<>>
          /\ UNCHANGED <<kwatch, nextwd, watches, ev, held, panic>>
      BY <1>4, PendingTyped DEF F!BufferDone, F!Reading, Buf
    <2>2. CASE watches # {} /\ kqueue # <<>>
      BY ZenonT(60), <1>1, <1>4, <2>1, <2>2 DEF F!BufferDone
    <2>3. CASE watches = {} \/ kqueue = <<>>
      <3>1. kqueue' = <<>> /\ frames' = <<>>
        BY ZenonT(60), <1>4, <2>1, <2>3 DEF F!BufferDone
      <3>2. Pending' = <<>>
        BY <3>1 DEF Pending, Buf
      <3>3. Len(Pending') = 0 /\ kqueue' \in Seq(Evts) /\ Len(frames') = 0
            /\ frames' \in Seq([buf : Seq(Evts), call : BOOLEAN])
        BY <3>1, <3>2
      <3>4. QED
        BY <2>1, <3>3 DEF WatchTypeOK, IgnoredLast, EventsLive
    <2>4. QED
      BY <2>2, <2>3
  <1>5. QED
    BY <1>2, <1>3, <1>4

\* inotify_g.watches leads to events that exist, and no event of the kernel is for
\* a watch that is not there (the e_panic of inotify_cb is not reached), whatever
\* the order of removals, deaths of files and reads, when no callback runs a
\* nested loop.
THEOREM WatchesAlwaysKnown == ASSUME MaxNest = 1 PROVE F!Spec => []F!WatchesKnown
  <1>1. F!Init => WatchInv
    <2> SUFFICES ASSUME F!Init PROVE WatchInv
      OBVIOUS
    <2>1. Pending = <<>> /\ frames = <<>> /\ kqueue = <<>>
      BY DEF F!Init, Pending, Buf
    <2>2. Len(Pending) = 0 /\ Len(frames) = 0 /\ kqueue \in Seq(Evts)
          /\ frames \in Seq([buf : Seq(Evts), call : BOOLEAN])
      BY <2>1
    <2>3. panic \in BOOLEAN /\ ~panic
      BY Zenon DEF F!Init
    <2>4. QED
      BY <2>2, <2>3 DEF F!Init, WatchInv, WatchTypeOK, IgnoredLast, EventsLive
  <1>2. WatchInv /\ [F!Next]_(F!vars) => WatchInv'
    <2> SUFFICES ASSUME WatchInv, [F!Next]_(F!vars) PROVE WatchInv'
      OBVIOUS
    <2>1. CASE UNCHANGED F!vars
      <3>1. /\ kwatch' = kwatch /\ kqueue' = kqueue /\ nextwd' = nextwd /\ watches' = watches
            /\ ev' = ev /\ held' = held /\ frames' = frames /\ panic' = panic
        BY <2>1 DEF F!vars
      <3>2. Pending' = Pending
        BY <3>1 DEF Pending, Buf
      <3>3. WatchTypeOK'
        BY <3>1 DEF WatchInv, WatchTypeOK
      <3>4. IgnoredLast'
        BY <3>1, <3>2 DEF WatchInv, IgnoredLast
      <3>5. QED
        BY <3>1, <3>3, <3>4 DEF WatchInv, EventsLive
    <2>2. ASSUME F!el_fs_watch_register_d PROVE WatchInv'
      <3>1. nextwd \in F!Wds
        BY <2>2 DEF F!el_fs_watch_register_d, F!Wds, WatchInv, WatchTypeOK
      <3>2. QED
        BY <2>2, <3>1, WatchUser
    <2>3. QED
      BY <2>1, <2>2, WatchUser, WatchProcess, WatchCallback DEF F!Next, F!CallbackSteps
  <1>3. WatchInv => F!WatchesKnown
    BY DEF WatchInv, EventsLive, F!WatchesKnown
  <1>4. QED
    BY <1>1, <1>2, <1>3, PTL DEF F!Spec
=============================================================================
