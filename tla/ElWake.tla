------------------------------- MODULE ElWake -------------------------------
(***************************************************************************)
(* A wake event of the event loop (core/el.blk): any thread fires it by    *)
(* writing to an eventfd, the thread of the loop reads the eventfd, calls  *)
(* back, and may unregister the event, which closes the eventfd and frees  *)
(* the event.  wakeup_count is meant to hold the close back until the      *)
(* threads that fired have left el_wake_fire.                              *)
(***************************************************************************)
EXTENDS Integers, FiniteSets

CONSTANTS Firers,     \* threads that fire the event
          Paced,      \* whether users wait until a fire is read before they
                      \* fire again or unregister the event
          MaxFires    \* bound: fires


VARIABLES efd,           \* the value of the eventfd
          wakeup_count,
          fires,         \* how often the event was fired
          fpc,           \* each firer's place
          lpc            \* the place of the thread of the loop

vars == <<efd, wakeup_count, fires, fpc, lpc>>

Init ==
  /\ efd = 0
  /\ wakeup_count = 0
  /\ fires = 0
  /\ fpc = [f \in Firers |-> "out"]
  /\ lpc = "poll"

-----------------------------------------------------------------------------
(* el_wake_fire: "written" until the write is read, then "read" *)

\* The user does not fire an event that is being unregistered.
FireWrite(f) ==
  /\ fpc[f] = "out"
  /\ lpc \notin {"unregister", "closed"}
  /\ fires < MaxFires
  /\ Paced => efd = 0
  /\ fires' = fires + 1
  /\ efd' = efd + 1
  /\ fpc' = [fpc EXCEPT ![f] = "written"]
  /\ UNCHANGED <<wakeup_count, lpc>>

\* Mutant of FireCount: leaves without counting.
FireCountMut(f) ==
  /\ fpc[f] \in {"written", "read"}
  /\ fpc' = [fpc EXCEPT ![f] = "out"]
  /\ UNCHANGED <<efd, wakeup_count, fires, lpc>>

FireCount(f) ==
  /\ fpc[f] \in {"written", "read"}
  /\ wakeup_count' = wakeup_count + 1
  /\ fpc' = [fpc EXCEPT ![f] = "out"]
  /\ UNCHANGED <<efd, fires, lpc>>

-----------------------------------------------------------------------------
(* el_wake_on_event and el_wake_unregister *)

\* The read takes all that was written and sets the eventfd to zero.
Read ==
  /\ lpc = "poll"
  /\ efd > 0
  /\ efd' = 0
  /\ fpc' = [f \in Firers |-> IF fpc[f] = "written" THEN "read" ELSE fpc[f]]
  /\ lpc' = "count"
  /\ UNCHANGED <<wakeup_count, fires>>

\* Mutant of Count: the event is not counted as read.
CountMut ==
  /\ lpc = "count"
  /\ lpc' = "callback"
  /\ UNCHANGED <<efd, wakeup_count, fires, fpc>>

Count ==
  /\ lpc = "count"
  /\ wakeup_count' = wakeup_count - 1
  /\ lpc' = "callback"
  /\ UNCHANGED <<efd, fires, fpc>>

Return ==
  /\ lpc = "callback"
  /\ lpc' = "poll"
  /\ UNCHANGED <<efd, wakeup_count, fires, fpc>>

\* The user unregisters the event, in its callback or outside.
Unregister ==
  /\ lpc \in {"callback", "poll"}
  /\ Paced => efd = 0
  /\ lpc' = "unregister"
  /\ UNCHANGED <<efd, wakeup_count, fires, fpc>>

\* The busy loop ends; the eventfd is closed and the event freed.
Close ==
  /\ lpc = "unregister"
  /\ wakeup_count >= 0
  /\ lpc' = "closed"
  /\ UNCHANGED <<efd, wakeup_count, fires, fpc>>

-----------------------------------------------------------------------------
Loop == Read \/ Count \/ Return \/ Close

Next ==
  \/ \E f \in Firers : FireWrite(f) \/ FireCount(f)
  \/ Loop
  \/ Unregister

Spec == Init /\ [][Next]_vars

\* Threads leave el_wake_fire, and the loop goes on.
Fairness ==
  /\ \A f \in Firers : WF_vars(FireCount(f))
  /\ WF_vars(Loop)

FairSpec == Spec /\ Fairness

-----------------------------------------------------------------------------
(* Properties *)

\* The eventfd is not closed, nor the event freed, before the threads whose
\* write has been read have left el_wake_fire.
NoCloseInFire == lpc = "closed" => \A f \in Firers : fpc[f] # "read"

\* The busy loop of el_wake_unregister ends.
UnregisterEnds == lpc = "unregister" ~> lpc = "closed"
=============================================================================
