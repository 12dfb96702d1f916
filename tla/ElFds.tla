-------------------------------- MODULE ElFds --------------------------------
(***************************************************************************)
(* The file descriptors of the event loop (core/el.blk, el-epoll.in.c):    *)
(* the events of a poll are run by priority, and events that users mark as *)
(* fired are run from a linked list of their own.  Callbacks unregister    *)
(* events, mark others and run nested loops.  The links of the lists are   *)
(* modelled as they are (Dlist), because el_fd_process_fired empties its   *)
(* list by its head only.                                                  *)
(***************************************************************************)
EXTENDS Dlist, Sequences, SequencesExt

CONSTANTS Evs,         \* the ev_t
          NONE,
          Fired, Gc,   \* the heads _G.fired and _G.evs_gc
          MaxReg,      \* bound on registrations
          MaxNest,     \* bound on nested loops
          Careless     \* are events unregistered although the links that
                       \* el_fd_process_fired left them lead to others?

VARIABLES ev,          \* the registered events: priority, FD_FIRED
          reg,         \* number of the last registration of each ev_t
          links,       \* ev_list of every ev_t and list head
          free,        \* _G.evs_free
          events,      \* el_epoll_g.events: ev_t, and its registration
          pending,     \* el_epoll_g.pending
          frames,      \* running loops, innermost first
          stale        \* a callback was called for another registration

vars == <<ev, reg, links, free, events, pending, frames, stale>>

TIMER == "timer"              \* a callback that is not one of a descriptor
Prios == 0..2                 \* EV_PRIORITY_LOW, NORMAL, HIGH
Registered == {e \in Evs : ev[e] # NONE}
Flagged == {e \in Registered : ev[e].fired}

Init ==
  /\ ev = [e \in Evs |-> NONE] /\ reg = [e \in Evs |-> 0]
  /\ links = [n \in Evs \cup {Fired, Gc} |-> Self(n)]
  /\ free = Evs /\ events = <<>> /\ pending = 0 /\ frames = <<>>
  /\ stale = FALSE

UserRuns == IF frames = <<>> THEN TRUE ELSE Head(frames).at # NONE

el_fd_register_d(e, prio) ==
  /\ UserRuns /\ e \in free /\ FoldFunction(+, 0, reg) < MaxReg
  /\ ev' = [ev EXCEPT ![e] = [prio |-> prio, fired |-> FALSE]]
  /\ reg' = [reg EXCEPT ![e] = @ + 1]
  /\ free' = free \ {e}
  /\ links' = [links EXCEPT ![e] = Self(e)]
  /\ UNCHANGED <<events, pending, frames, stale>>

\* el_fd_process_fired leaves the events it takes off the list linked as they were.
\* Those of e lead to no event that is or was in the list.
Apart(e) ==
  \/ ev[e].fired \/ links[e] = Self(e)
  \/ links[e] = [nxt |-> Fired, prv |-> Fired] /\ Flagged = {}

\* el_fd_unregister, el_destroy
el_fd_unregister(e) ==
  /\ UserRuns /\ ev[e] # NONE
  /\ Careless \/ Apart(e)
  /\ links' = Move(IF ev[e].fired THEN DlistRemove(links, e) ELSE links, Gc, e)
  /\ ev' = [ev EXCEPT ![e] = NONE]
  /\ UNCHANGED <<reg, free, events, pending, frames, stale>>

\* Mutant of el_fd_mark_fired: an event already in the list is added again.
el_fd_mark_fired_mut(e) ==
  /\ UserRuns /\ ev[e] # NONE
  /\ links' = AddTo(links, Fired, e)
  /\ ev' = [ev EXCEPT ![e].fired = TRUE]
  /\ UNCHANGED <<reg, free, events, pending, frames, stale>>

el_fd_mark_fired(e) ==
  /\ UserRuns /\ ev[e] # NONE /\ ~ev[e].fired
  /\ links' = AddTo(links, Fired, e)
  /\ ev' = [ev EXCEPT ![e].fired = TRUE]
  /\ UNCHANGED <<reg, free, events, pending, frames, stale>>

-----------------------------------------------------------------------------
\* epoll_wait reports some of the events: the array is overwritten from its start.
epoll_wait ==
  \E S \in SUBSET Registered : \E s \in SetToSeqs(S) :
     /\ events' = [i \in DOMAIN s |-> [ev |-> s[i], id |-> reg[s[i]]]]
                  \o SubSeq(events, Len(s) + 1, Len(events))
     /\ pending' = Len(s)

\* A poll without waiting, by code that runs outside of loops (or by the worker:
\* el_fd_process_fired below).
el_fds_has_pending_events ==
  /\ frames = <<>> /\ pending = 0
  /\ epoll_wait
  /\ UNCHANGED <<ev, reg, links, free, frames, stale>>

\* el_loop_timeout, from el_before_process, which takes the cache of the passes of
\* outer loops (ev_cache_list), past the worker, which may poll, to
\* el_fd_process_fired: the list is cached and its head reset.
el_fd_process_fired ==
  /\ UserRuns /\ Len(frames) < MaxNest
  /\ UNCHANGED <<events, pending>> \/ (pending = 0 /\ epoll_wait)
  /\ LET list == Walk(links, Fired)
         outer == [i \in DOMAIN frames |-> [frames[i] EXCEPT !.rest = <<>>]]
     IN /\ links' = IF list = <<>> THEN links
                    ELSE [links EXCEPT ![Fired] = Self(Fired)]
        /\ ev' = [e \in Evs |-> IF e \in ToSet(list) /\ ev[e] # NONE
                                THEN [ev[e] EXCEPT !.fired = FALSE] ELSE ev[e]]
        /\ frames' = <<[pc |-> "fired", at |-> NONE, rest |-> list, res |-> 0,
                        nb |-> 0, prio |-> 0]>> \o outer
  /\ UNCHANGED <<reg, free, stale>>

Running(pc) == frames # <<>> /\ Head(frames).pc = pc /\ Head(frames).at = NONE

\* The next event of the cached list, unless it was unregistered since.
FireListed ==
  /\ Running("fired") /\ Head(frames).rest # <<>>
  /\ LET e == Head(Head(frames).rest)
     IN frames' = [frames EXCEPT ![1].rest = Tail(@),
                                 ![1].at = IF ev[e] # NONE THEN e ELSE NONE]
  /\ UNCHANGED <<ev, reg, links, free, events, pending, stale>>

el_loop_fds_poll ==
  /\ Running("fired") /\ Head(frames).rest = <<>> /\ pending = 0
  /\ epoll_wait
  /\ frames' = IF pending' = 0 THEN [frames EXCEPT ![1].pc = "end"] ELSE frames
  /\ UNCHANGED <<ev, reg, links, free, stale>>

\* The number of events is kept, then el_timer_process may call timers.
el_loop_fds ==
  /\ Running("fired") /\ Head(frames).rest = <<>> /\ pending > 0
  /\ \E at \in {NONE, TIMER} :
       frames' = [frames EXCEPT ![1].pc = "high", ![1].res = pending,
                                ![1].nb = pending, ![1].at = at]
  /\ pending' = 0
  /\ UNCHANGED <<ev, reg, links, free, events, stale>>

\* An entry of the array, from its end: the array may be that of a nested loop
\* by now, and the event may be unregistered.  It fires when its priority is
\* fires.
FireEvent(pc, fires) ==
  /\ Running(pc) /\ Head(frames).res > 0
  /\ LET f == Head(frames)
         entry == events[f.res]
         known == ev[entry.ev] # NONE
         prio == IF known THEN ev[entry.ev].prio ELSE 0
         fire == known /\ prio = fires
     IN /\ frames' = [frames EXCEPT ![1].res = @ - 1,
                        ![1].prio = IF pc = "high" /\ prio > @ THEN prio ELSE @,
                        ![1].at = IF fire THEN entry.ev ELSE NONE]
        /\ stale' = (stale \/ (fire /\ entry.id # reg[entry.ev]))
  /\ UNCHANGED <<ev, reg, links, free, events, pending>>

\* The two passes over the events: those of high priority, and, without any,
\* those of the highest priority met.
FireHigh == FireEvent("high", 2)
FireOthers == FireEvent("low", Head(frames).prio)

EndHigh ==
  /\ Running("high") /\ Head(frames).res = 0
  /\ frames' = [frames EXCEPT ![1].pc = IF @ = "high" /\ frames[1].prio = 2
                                        THEN "end" ELSE "low",
                              ![1].res = Head(frames).nb]
  /\ UNCHANGED <<ev, reg, links, free, events, pending, stale>>

\* Mutant of LoopEnds: a nested loop recycles events too.
LoopEndsMut ==
  /\ Running("end") \/ (Running("low") /\ Head(frames).res = 0)
  /\ frames' = Tail(frames)
  /\ free' = free \cup (ToSet(Walk(links, Gc)) \cap Evs)
  /\ links' = [links EXCEPT ![Gc] = Self(Gc)]
  /\ UNCHANGED <<ev, reg, events, pending, stale>>

\* The end of el_loop_timeout: only the outermost loop recycles events (and the
\* array is not read any more).
LoopEnds ==
  /\ Running("end") \/ (Running("low") /\ Head(frames).res = 0)
  /\ frames' = Tail(frames)
  /\ IF Len(frames) = 1
     THEN /\ free' = free \cup (ToSet(Walk(links, Gc)) \cap Evs)
          /\ links' = [links EXCEPT ![Gc] = Self(Gc)]
          /\ events' = IF pending = 0 THEN <<>> ELSE events
     ELSE UNCHANGED <<free, links, events>>
  /\ UNCHANGED <<ev, reg, pending, stale>>

CallbackReturns ==
  /\ frames # <<>> /\ Head(frames).at # NONE
  /\ frames' = [frames EXCEPT ![1].at = NONE]
  /\ UNCHANGED <<ev, reg, links, free, events, pending, stale>>

Next ==
  \/ \E e \in Evs : \/ \E p \in Prios : el_fd_register_d(e, p)
                    \/ el_fd_unregister(e) \/ el_fd_mark_fired(e)
  \/ el_fds_has_pending_events \/ el_fd_process_fired \/ FireListed
  \/ el_loop_fds_poll \/ el_loop_fds \/ FireHigh \/ EndHigh \/ FireOthers
  \/ LoopEnds \/ CallbackReturns

Spec == Init /\ [][Next]_vars

-----------------------------------------------------------------------------
\* A callback is called for the registration that the poll reported, never for
\* a later one that reuses the ev_t, nor after el_fd_unregister: nested loops and
\* the recycling of _G.evs_gc do not mix events up.
NoStaleFire == ~stale

\* _G.fired holds "fds with applicative pending events" (el.blk): its links lead
\* through the events with FD_FIRED, once each, and back to the head.
FiredListSound ==
  LET w == Walk(links, Fired)
  IN /\ ToSet(w) = Flagged
     /\ Len(w) = Cardinality(Flagged)
=============================================================================
