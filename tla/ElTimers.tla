------------------------------- MODULE ElTimers -------------------------------
(***************************************************************************)
(* The timers of the event loop (core/el.blk): a heap by expiry plus       *)
(* tolerance, and el_timer_process, whose callbacks register, restart and  *)
(* unregister timers and may run a nested loop.  Times are in arbitrary    *)
(* units.                                                                  *)
(***************************************************************************)
EXTENDS Integers, Sequences, FiniteSets

CONSTANTS Timers,      \* names for timer events
          NONE,
          Kinds,       \* <<next, repeat, lowres, nomiss>> that users register
          Restarts,    \* delays given to el_timer_restart, 0: the previous one
          LowresMin,   \* 500: shorter delays have no tolerance
          TolDiv,      \* 10: tolerance is the delay divided by this
          LoopTimeout, \* EL_LOOP_TIMEOUT, cap of the tolerance
          MaxTime,     \* bound on the clock
          MaxNest      \* bound on nested loops

VARIABLES clk,         \* get_clock()
          heap,        \* _G.timers
          timer,       \* the timers registered
          gc,          \* _G.evs_gc: destroyed, not to be reused yet
          calls        \* running el_timer_process: until, and the timer called

vars == <<clk, heap, timer, gc, calls>>

\* TIMER_TOLERATED_EXPIRY
KeyOf(tm) == [t \in Timers |-> IF tm[t] = NONE THEN 0 ELSE tm[t].expiry + tm[t].tol]
Key == KeyOf(timer)

Q == INSTANCE Qheap WITH Nodes <- Timers, Keys <- {}, Fanout <- 4, keyof <- Key

el_timer_compute_tolerance(lowres, next) ==
  IF lowres /\ next >= LowresMin
  THEN LET d == next \div TolDiv IN IF d < LoopTimeout THEN d ELSE LoopTimeout
  ELSE 0

Init ==
  /\ clk = 0 /\ heap = <<>> /\ gc = {} /\ calls = <<>>
  /\ timer = [t \in Timers |-> NONE]

\* Code of users runs outside of the loop and in callbacks.
UserRuns == IF calls = <<>> THEN TRUE ELSE Head(calls).ev # NONE

Tick ==
  /\ clk < MaxTime
  /\ clk' = clk + 1
  /\ UNCHANGED <<heap, timer, gc, calls>>

el_timer_register_d(t, k) ==
  /\ UserRuns /\ timer[t] = NONE /\ t \notin gc
  /\ timer' = [timer EXCEPT ![t] =
       [expiry |-> clk + k[1], repeat |-> IF k[2] > 0 THEN k[2] ELSE -k[1],
        tol |-> el_timer_compute_tolerance(k[3], k[1]),
        lowres |-> k[3], nomiss |-> k[4], updated |-> FALSE]]
  /\ heap' = Q!qhp_insert(heap, KeyOf(timer'), t)
  /\ UNCHANGED <<clk, gc, calls>>

\* Mutant of el_timer_restart: the timer keeps its place in the heap.
el_timer_restart_mut(t, n) ==
  /\ UserRuns /\ timer[t] # NONE
  /\ timer[t].repeat <= 0
  /\ timer' = [timer EXCEPT ![t].expiry = clk + n, ![t].updated = TRUE]
  /\ UNCHANGED <<clk, heap, gc, calls>>

\* Of a one shot timer.
el_timer_restart(t, n) ==
  /\ UserRuns /\ timer[t] # NONE
  /\ LET tm == timer[t]
         delay == IF n <= 0 THEN -tm.repeat ELSE n
     IN /\ tm.repeat <= 0
        /\ timer' = [timer EXCEPT ![t] =
             [tm EXCEPT !.expiry = clk + delay, !.repeat = -delay,
                        !.updated = TRUE,
                        !.tol = IF n <= 0 THEN @
                                ELSE el_timer_compute_tolerance(tm.lowres, n)]]
  /\ heap' = Q!qhp_fixup(heap, KeyOf(timer'), Q!PosOf(heap, t))
  /\ UNCHANGED <<clk, gc, calls>>

Destroy(t) ==
  /\ heap' = Q!qhp_remove(heap, Key, Q!PosOf(heap, t))
  /\ timer' = [timer EXCEPT ![t] = NONE]
  /\ gc' = gc \cup {t}

el_timer_unregister(t) ==
  /\ UserRuns /\ timer[t] # NONE
  /\ Destroy(t)
  /\ UNCHANGED <<clk, calls>>

\* el_timer_process starts, in el_loop_timeout, el_loop_fds or el_fds_loop.
el_timer_process ==
  /\ UserRuns /\ Len(calls) < MaxNest
  /\ calls' = <<[until |-> clk, ev |-> NONE]>> \o calls
  /\ UNCHANGED <<clk, heap, timer, gc>>

\* The root of the heap has expired: its callback is called.
Fire ==
  /\ calls # <<>> /\ Head(calls).ev = NONE
  /\ heap # <<>> /\ timer[heap[1]].expiry <= Head(calls).until
  /\ LET t == heap[1]
     IN /\ timer' = [timer EXCEPT ![t].updated = FALSE]
        /\ calls' = [calls EXCEPT ![1].ev = t]
  /\ UNCHANGED <<clk, heap, gc>>

\* A repeating timer after its callback; unless it must not miss a run, it is
\* brought to the present.
Rearmed(tm, until) ==
  LET e == tm.expiry + tm.repeat
      late == until - e
      missed == ((late + tm.repeat - 1) \div tm.repeat) * tm.repeat
  IN [tm EXCEPT !.expiry = IF ~tm.nomiss /\ e < until THEN e + missed ELSE e,
                !.tol = el_timer_compute_tolerance(tm.lowres, tm.repeat)]

\* The callback returns: the timer may be gone, is armed again, or is destroyed.
CallbackReturns ==
  /\ calls # <<>> /\ Head(calls).ev # NONE
  /\ LET t == Head(calls).ev
         tm == timer[t]
     IN IF tm = NONE THEN UNCHANGED <<heap, timer, gc>>
        ELSE IF tm.repeat > 0
        THEN /\ timer' = [timer EXCEPT ![t] = Rearmed(tm, Head(calls).until)]
             /\ heap' = Q!qhp_down(heap, KeyOf(timer'), Q!PosOf(heap, t))
             /\ UNCHANGED gc
        ELSE IF tm.updated THEN UNCHANGED <<heap, timer, gc>>
        ELSE Destroy(t)
  /\ calls' = [calls EXCEPT ![1].ev = NONE]
  /\ UNCHANGED clk

\* The root has not expired: the function returns; destroyed events can be
\* reused once the outermost loop ends.
ProcessReturns ==
  /\ calls # <<>> /\ Head(calls).ev = NONE
  /\ heap # <<>> => timer[heap[1]].expiry > Head(calls).until
  /\ calls' = Tail(calls)
  /\ gc' = IF Len(calls) = 1 THEN {} ELSE gc
  /\ UNCHANGED <<clk, heap, timer>>

Next ==
  \/ Tick \/ el_timer_process \/ Fire \/ CallbackReturns \/ ProcessReturns
  \/ \E t \in Timers :
       \/ \E k \in Kinds : el_timer_register_d(t, k)
       \/ \E n \in Restarts : el_timer_restart(t, n)
       \/ el_timer_unregister(t)

Spec == Init /\ [][Next]_vars

-----------------------------------------------------------------------------
\* "Hence the next to be run timer is the root of the heap" (el.blk): the heap
\* holds the registered timers, each parent before its children.
HeapOrder ==
  /\ Q!HeapOrder
  /\ Q!Held = {t \in Timers : timer[t] # NONE}

\* When el_timer_process(until) returns, no timer is left whose expiry and
\* tolerance are both past: timers registered, restarted and removed by callbacks
\* are taken into account.
NoneDueLeft ==
  Len(calls') < Len(calls) =>
    \A t \in Timers : timer[t] # NONE => Key[t] > Head(calls).until
DeadlinesMet == [][NoneDueLeft]_vars

=============================================================================
