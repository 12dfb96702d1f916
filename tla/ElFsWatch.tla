------------------------------ MODULE ElFsWatch ------------------------------
(***************************************************************************)
(* The file system watches of the event loop (core/el-inotify.in.c).  The  *)
(* kernel queues events; the removal of a watch, by the program or because *)
(* the file is gone, is final when its IN_IGNORED event is read.  The      *)
(* inotify descriptor is closed from its own callback after the last one.  *)
(***************************************************************************)
EXTENDS Naturals, Sequences

CONSTANTS MaxWd,      \* bound on the watch descriptors given by the kernel
          MaxQueue,   \* bound on the events that touches leave in the queue
          MaxNest     \* bound on nested runs of inotify_cb

VARIABLES kwatch,     \* kernel: the watches in place
          kqueue,     \* kernel: the events not read yet
          nextwd,     \* kernel: the next descriptor
          ino,        \* inotify_g.el is registered
          watches,    \* keys of inotify_g.watches
          ev,         \* per watch: "none", "active", "inactive", "destroyed"
          held,       \* the watches whose el_t the user still has
          frames,     \* running inotify_cb, innermost first: events of buf left
          panic       \* an event came for an unknown watch

vars == <<kwatch, kqueue, nextwd, ino, watches, ev, held, frames, panic>>

Wds == 1..MaxWd

Init ==
  /\ kwatch = {} /\ kqueue = <<>> /\ nextwd = 1 /\ ino = FALSE /\ watches = {}
  /\ ev = [w \in Wds |-> "none"] /\ held = {} /\ frames = <<>> /\ panic = FALSE

UserRuns == IF frames = <<>> THEN TRUE ELSE Head(frames).call

Event(w, ignored) == [wd |-> w, ignored |-> ignored]

\* The kernel reports a change of a file, or that the file is gone.
Touch(w) ==
  /\ w \in kwatch /\ Len(kqueue) < MaxQueue
  /\ kqueue' = Append(kqueue, Event(w, FALSE))
  /\ UNCHANGED <<kwatch, nextwd, ino, watches, ev, held, frames, panic>>

FileGone(w) ==
  /\ w \in kwatch
  /\ kwatch' = kwatch \ {w}
  /\ kqueue' = Append(kqueue, Event(w, TRUE))
  /\ UNCHANGED <<nextwd, ino, watches, ev, held, frames, panic>>

el_fs_watch_register_d ==
  /\ UserRuns /\ nextwd <= MaxWd
  /\ ino' = TRUE                                    \* inotify_initialize
  /\ kwatch' = kwatch \cup {nextwd} /\ watches' = watches \cup {nextwd}
  /\ ev' = [ev EXCEPT ![nextwd] = "active"]
  /\ held' = held \cup {nextwd} /\ nextwd' = nextwd + 1
  /\ UNCHANGED <<kqueue, frames, panic>>

\* Mutant of Disabled: an active event is destroyed at once.
DisabledMut(w) == [ev EXCEPT ![w] = "destroyed"]

\* el_fs_watch_disable
Disabled(w) == [ev EXCEPT ![w] = IF @ = "active" THEN "inactive" ELSE "destroyed"]

\* Mutant of el_fs_watch_unregister: the watch leaves inotify_g.watches.
el_fs_watch_unregister_mut(w) ==
  /\ UserRuns /\ w \in held
  /\ held' = held \ {w} /\ watches' = watches \ {w}
  /\ ev' = Disabled(w)
  /\ kwatch' = kwatch \ {w}
  /\ kqueue' = IF w \in kwatch THEN Append(kqueue, Event(w, TRUE)) ELSE kqueue
  /\ UNCHANGED <<nextwd, ino, frames, panic>>

el_fs_watch_unregister(w) ==
  /\ UserRuns /\ w \in held
  /\ held' = held \ {w}
  /\ ev' = Disabled(w)
  /\ IF ev[w] = "active" /\ w \in kwatch            \* inotify_rm_watch
     THEN /\ kwatch' = kwatch \ {w}
          /\ kqueue' = Append(kqueue, Event(w, TRUE))
     ELSE UNCHANGED <<kwatch, kqueue>>
  /\ UNCHANGED <<nextwd, ino, watches, frames, panic>>

-----------------------------------------------------------------------------
\* inotify_cb: a read takes a first part of the queue.
Read(outer) ==
  \E n \in 1..Len(kqueue) :
     /\ frames' = <<[buf |-> SubSeq(kqueue, 1, n), call |-> FALSE]>> \o outer
     /\ kqueue' = SubSeq(kqueue, n + 1, Len(kqueue))

inotify_cb ==
  /\ UserRuns /\ Len(frames) < MaxNest /\ ino /\ kqueue # <<>>
  /\ Read(frames)
  /\ UNCHANGED <<kwatch, nextwd, ino, watches, ev, held, panic>>

Reading == frames # <<>> /\ ~Head(frames).call

ProcessEvent ==
  /\ Reading /\ Head(frames).buf # <<>>
  /\ LET e == Head(Head(frames).buf)
         known == e.wd \in watches
     IN /\ panic' = (panic \/ (~known /\ ~e.ignored))
        /\ IF known /\ e.ignored
           THEN watches' = watches \ {e.wd} /\ ev' = Disabled(e.wd)
           ELSE UNCHANGED <<watches, ev>>
        /\ frames' = [frames EXCEPT ![1] =
             [buf |-> Tail(@.buf), call |-> known /\ ~e.ignored /\ ev[e.wd] = "active"]]
  /\ UNCHANGED <<kwatch, kqueue, nextwd, ino, held>>

CallbackReturns ==
  /\ frames # <<>> /\ Head(frames).call
  /\ frames' = [frames EXCEPT ![1] = [buf |-> @.buf, call |-> FALSE]]
  /\ UNCHANGED <<kwatch, kqueue, nextwd, ino, watches, ev, held, panic>>

\* The buffer is done: inotify_shutdown, another read, or no more to read.
BufferDone ==
  /\ Reading /\ Head(frames).buf = <<>>
  /\ IF watches = {}
     THEN /\ ino' = FALSE /\ kqueue' = <<>>
          /\ frames' = Tail(frames)
     ELSE /\ IF kqueue = <<>> THEN frames' = Tail(frames) /\ UNCHANGED kqueue
             ELSE Read(Tail(frames))
          /\ UNCHANGED ino
  /\ UNCHANGED <<kwatch, nextwd, watches, ev, held, panic>>

CallbackSteps == ProcessEvent \/ BufferDone

Next ==
  \/ \E w \in Wds : Touch(w) \/ FileGone(w) \/ el_fs_watch_unregister(w)
  \/ el_fs_watch_register_d
  \/ inotify_cb \/ CallbackSteps \/ CallbackReturns

\* The loop runs inotify_cb when there is something to read, and callbacks
\* return.
Fairness ==
  /\ WF_vars(frames = <<>> /\ inotify_cb) /\ WF_vars(CallbackSteps)
  /\ SF_vars(CallbackReturns)

Spec == Init /\ [][Next]_vars /\ Fairness

-----------------------------------------------------------------------------
\* inotify_g.watches leads to events that exist, and an event of the kernel other
\* than IN_IGNORED is for one of them (e_panic "received inotify event for an
\* unknown watch descriptor").
WatchesKnown == ~panic /\ \A w \in watches : ev[w] \in {"active", "inactive"}

\* A watch that the user unregistered is destroyed in the end, whether its file
\* went first, last or never; its IN_IGNORED is not lost with the descriptor.
WatchFreed ==
  \A w \in Wds : (ev[w] = "inactive" /\ w \notin held) ~> (ev[w] = "destroyed")
=============================================================================
