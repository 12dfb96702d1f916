------------------------------- MODULE ThrEvc -------------------------------
(***************************************************************************)
(* The event count (core/thr-evc.c, the Linux one) in the usage pattern of *)
(* core/thr-evc.h: threads that find nothing to do sleep on it, others     *)
(* make something to do and then signal it.                                *)
(*                                                                         *)
(* What is waited for is a number of units of work, the jobs of the pool   *)
(* for instance: a thread looks for one and takes it in a single step, and *)
(* looks again until there is none.                                        *)
(***************************************************************************)
EXTENDS Integers, FiniteSets

CONSTANTS Waiters,       \* threads that wait on the event count
          Timed,         \* the ones that wait with a timeout
          Posters,       \* threads that make work and signal
          Broadcasters,  \* the ones that wake everybody
          Low,           \* 2^32: futex(2) only compares the low word of the key
          MaxPost        \* bound: units of work

ASSUME WaiterAssumption == IsFiniteSet(Waiters) /\ Timed \subseteq Waiters
ASSUME LowAssumption == Low \in Nat \ {0}
ASSUME PostAssumption == MaxPost \in Nat

VARIABLES key,       \* ec->key
          waiters,   \* ec->waiters
          work,      \* the units of work left
          posts,     \* how many units have been made
          wpc,       \* each waiter's place; "asleep" is inside the futex
          wkey,      \* the key it got
          ppc        \* each poster's place

vars == <<key, waiters, work, posts, wpc, wkey, ppc>>

Init ==
  /\ key = 0
  /\ waiters = 0
  /\ work = 0
  /\ posts = 0
  /\ wpc = [t \in Waiters |-> "check"]
  /\ wkey = [t \in Waiters |-> 0]
  /\ ppc = [p \in Posters |-> "idle"]

WGoto(t, l) == wpc' = [wpc EXCEPT ![t] = l]
PGoto(p, l) == ppc' = [ppc EXCEPT ![p] = l]

Asleep == {t \in Waiters : wpc[t] = "asleep"}

-----------------------------------------------------------------------------
(* A thread that waits *)

\* some_check, and its do_stuff; where to go when there is nothing to do.
Look(t, from, otherwise) ==
  /\ wpc[t] = from
  /\ IF work > 0
       THEN work' = work - 1 /\ WGoto(t, "check")
       ELSE WGoto(t, otherwise) /\ UNCHANGED work
  /\ UNCHANGED <<key, waiters, posts, wkey, ppc>>

Check(t) == Look(t, "check", "get")

thr_ec_get(t) ==
  /\ wpc[t] = "get"
  /\ wkey' = [wkey EXCEPT ![t] = key]
  /\ WGoto(t, "recheck")
  /\ UNCHANGED <<key, waiters, work, posts, ppc>>

Recheck(t) == Look(t, "recheck", "test")

\* The high word of the key is only looked at here.
WaitTest(t) ==
  /\ wpc[t] = "test"
  /\ WGoto(t, IF wkey[t] # key THEN "check" ELSE "add")
  /\ UNCHANGED <<key, waiters, work, posts, wkey, ppc>>

WaitAdd(t) ==
  /\ wpc[t] = "add"
  /\ waiters' = waiters + 1
  /\ WGoto(t, "futex")
  /\ UNCHANGED <<key, work, posts, wkey, ppc>>

\* FUTEX_WAIT: compare and sleep in one step.
WaitFutex(t) ==
  /\ wpc[t] = "futex"
  /\ WGoto(t, IF wkey[t] % Low = key % Low THEN "asleep" ELSE "sub")
  /\ UNCHANGED <<key, waiters, work, posts, wkey, ppc>>

WaitTimeout(t) ==
  /\ t \in Timed
  /\ wpc[t] = "asleep"
  /\ WGoto(t, "sub")
  /\ UNCHANGED <<key, waiters, work, posts, wkey, ppc>>

\* thr_ec_wait_cleanup
WaitCleanup(t) ==
  /\ wpc[t] = "sub"
  /\ waiters' = waiters - 1
  /\ WGoto(t, "check")
  /\ UNCHANGED <<key, work, posts, wkey, ppc>>

thr_ec_timedwait(t) ==
  \/ WaitTest(t) \/ WaitAdd(t) \/ WaitFutex(t) \/ WaitTimeout(t)
  \/ WaitCleanup(t)

-----------------------------------------------------------------------------
(* A thread that signals *)

\* Make some_check true.
Post(p) ==
  /\ ppc[p] = "idle"
  /\ posts < MaxPost
  /\ posts' = posts + 1
  /\ work' = work + 1
  /\ PGoto(p, "inc")
  /\ UNCHANGED <<key, waiters, wpc, wkey>>

\* What the comment of thr_ec_timedwait takes for granted: the low word does
\* not cycle between the test of the key and the futex.
NoCycle ==
  \A t \in Waiters : wpc[t] \in {"add", "futex"} => key + 1 < wkey[t] + Low

\* Mutant of SignalInc: the key is left alone.
SignalIncMut(p) ==
  /\ ppc[p] = "inc"
  /\ PGoto(p, "load")
  /\ UNCHANGED <<key, waiters, work, posts, wpc, wkey>>

SignalInc(p) ==
  /\ ppc[p] = "inc"
  /\ NoCycle
  /\ key' = key + 1
  /\ PGoto(p, "load")
  /\ UNCHANGED <<waiters, work, posts, wpc, wkey>>

SignalLoad(p) ==
  /\ ppc[p] = "load"
  /\ PGoto(p, IF waiters # 0 THEN "wake" ELSE "idle")
  /\ UNCHANGED <<key, waiters, work, posts, wpc, wkey>>

\* FUTEX_WAKE: one sleeper, any one, or all of them.
SignalWake(p) ==
  /\ ppc[p] = "wake"
  /\ \E S \in SUBSET Asleep :
        /\ IF p \in Broadcasters THEN S = Asleep
           ELSE IF Asleep = {} THEN S = {} ELSE \E t \in Asleep : S = {t}
        /\ wpc' = [t \in Waiters |-> IF t \in S THEN "sub" ELSE wpc[t]]
  /\ PGoto(p, "idle")
  /\ UNCHANGED <<key, waiters, work, posts, wkey>>

thr_ec_signal_n(p) == SignalInc(p) \/ SignalLoad(p) \/ SignalWake(p)

-----------------------------------------------------------------------------
Wait(t) == Check(t) \/ thr_ec_get(t) \/ Recheck(t) \/ thr_ec_timedwait(t)

Next ==
  \/ \E t \in Waiters : Wait(t)
  \/ \E p \in Posters : Post(p) \/ thr_ec_signal_n(p)

Spec == Init /\ [][Next]_vars

-----------------------------------------------------------------------------
(* Properties *)

WPc == {"check", "get", "recheck", "test", "add", "futex", "asleep", "sub"}
PPc == {"idle", "inc", "load", "wake"}

TypeOK ==
  /\ key \in Nat
  /\ waiters \in Nat
  /\ work \in Nat
  /\ posts \in 0..MaxPost
  /\ wpc \in [Waiters -> WPc]
  /\ wkey \in [Waiters -> Nat]
  /\ ppc \in [Posters -> PPc]

\* Thread t will look for work again before it sleeps: it is on its way to a
\* check, or holds a key that is out of date.
Looking(t) ==
  \/ wpc[t] \in {"check", "get", "recheck", "sub"}
  \/ wpc[t] \in {"test", "add", "futex"} /\ wkey[t] # key

\* Nobody sleeps on work: while some is left and a thread sleeps, a signal is
\* under way or some thread will look.
NoLostWakeup ==
  work > 0 /\ Asleep # {} =>
     \/ \E p \in Posters : ppc[p] # "idle"
     \/ \E t \in Waiters : Looking(t)

\* ec->waiters counts the threads that sleep or may: thr_ec_signal_n, which
\* makes no system call when it reads 0, never forgets a sleeper, and a wait
\* cut short by a timeout or a changed key leaves no trace.
WaitersCounted ==
  waiters = Cardinality({t \in Waiters : wpc[t] \in {"futex", "asleep", "sub"}})

=============================================================================
