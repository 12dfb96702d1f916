------------------------------- MODULE MCLive -------------------------------
(* Five components in one run, each alone, with their liveness: the queue  *)
(* of many producers and one consumer; the wake-up, child and file system  *)
(* watch events of the event loop; and an rpc channel.  The variables of   *)
(* the ones that are not at hand keep their initial values.                *)
EXTENDS Integers
CONSTANTS NONE, p1, p2, p3, n1, n2, n3, Stub, NULL, f1, f2, f3, m1
VARIABLES which,
          tail, next, free, ppc, pnode, pprev, cpc, h, block,
          efd, wakeup_count, fires, fpc, lpc,
          proc, childs, ev, exited, hook, forking, got, before, frames, broken, late,
          kwatch, kqueue, nextwd, ino, watches, f_ev, held, f_frames, panic,
          conn, closing, reconn, auto, id, msg, queries, nextslot, msg_list, iov_list,
          queue_len, pending, busy, out, peer, inbox, gone, work, wrong

Plain == [async |-> FALSE, timeout |-> FALSE]
Timed == [async |-> FALSE, timeout |-> TRUE]

Q == INSTANCE Mpsc WITH Producers <- {p1, p2, p3}, Nodes <- {n1, n2, n3}
W == INSTANCE ElWake WITH Firers <- {f1, f2, f3}, Paced <- TRUE, MaxFires <- 5
C == INSTANCE ElChild WITH Pids <- 1..3, MaxNest <- 2, Careless <- FALSE
ASSUME C!ChildConstants
F == INSTANCE ElFsWatch WITH MaxWd <- 2, MaxQueue <- 3, MaxNest <- 1,
                             ev <- f_ev, frames <- f_frames
I == INSTANCE Ic WITH Msgs <- {m1}, Remote <- {1}, MaxSlot <- 2, MaxConn <- 1,
                      MaxQueue <- 1, Kinds <- {Plain, Timed}
ASSUME I!IcConstants

qvars == <<tail, next, free, ppc, pnode, pprev, cpc, h, block>>
wvars == <<efd, wakeup_count, fires, fpc, lpc>>
cvars == <<proc, childs, ev, exited, hook, forking, got, before, frames, broken, late>>
fvars == <<kwatch, kqueue, nextwd, ino, watches, f_ev, held, f_frames, panic>>
ivars == <<conn, closing, reconn, auto, id, msg, queries, nextslot, msg_list, iov_list,
           queue_len, pending, busy, out, peer, inbox, gone, work, wrong>>
mcvars == <<which, qvars, wvars, cvars, fvars, ivars>>

\* A step of one of them.
Queue(A) == which = "mpsc" /\ A /\ UNCHANGED <<which, wvars, cvars, fvars, ivars>>
Wake(A) == which = "wake" /\ A /\ UNCHANGED <<which, qvars, cvars, fvars, ivars>>
Child(A) == which = "child" /\ A /\ UNCHANGED <<which, qvars, wvars, fvars, ivars>>
Watch(A) == which = "fswatch" /\ A /\ UNCHANGED <<which, qvars, wvars, cvars, ivars>>
Channel(A) == which = "ic" /\ A /\ UNCHANGED <<which, qvars, wvars, cvars, fvars>>

MCInit ==
  /\ which \in {"mpsc", "wake", "child", "fswatch", "ic"}
  /\ Q!Init /\ W!Init /\ C!Init /\ F!Init /\ I!Init

MCNext ==
  Queue(Q!Next) \/ Wake(W!Next) \/ Child(C!Next) \/ Watch(F!Next) \/ Channel(I!Next)

\* The fairness of the five; as only one of them runs, a condition on one and a
\* condition on another make one condition.
MCFairness ==
  /\ WF_mcvars(\/ Queue(Q!PushLink(p1)) \/ Wake(W!FireCount(f1))
               \/ Child(frames = <<>> /\ C!LoopStarts)
               \/ Watch(f_frames = <<>> /\ F!inotify_cb)
               \/ Channel(I!ic_msg_on_timeout(m1)))
  /\ WF_mcvars(\/ Queue(Q!PushLink(p2)) \/ Wake(W!FireCount(f2))
               \/ Child(C!LoopSteps) \/ Watch(F!CallbackSteps)
               \/ Channel(I!EventStarts))
  /\ WF_mcvars(\/ Queue(Q!PushLink(p3)) \/ Wake(W!FireCount(f3))
               \/ Child(C!el_child_at_fork_on_parent)
               \/ Channel(I!ic_msg_filter_on_bye))
  /\ WF_mcvars(\/ Queue(Q!Consumer) \/ Wake(W!Loop)
               \/ Channel(\E p \in peer : I!PeerAnswers(p)))
  /\ WF_mcvars(Channel(\E w \in work : I!__ic_reply(w)))
  /\ SF_mcvars(Child(C!FireReturns) \/ Watch(F!CallbackReturns) \/ Channel(I!ic_read))
  /\ SF_mcvars(Channel(I!ic_write /\ msg_list' = <<>> /\ iov_list' = <<>>))

MCSpec == MCInit /\ [][MCNext]_mcvars /\ MCFairness

\* Mpsc: the queue is a FIFO of nodes that are live, and all are consumed.
Delivers == Q!Delivers

\* ElWake: el_wake_unregister does not close the eventfd, nor free the event, while
\* a thread is in el_wake_fire.
NoCloseInFire == W!NoCloseInFire

\* ElWake: el_wake_unregister does not spin for ever.
UnregisterEnds == W!UnregisterEnds

\* ElChild: el_child_fire runs once on an event, while it exists, and assertions hold.
ChildsSound == C!ChildsSound

\* ElChild: the event of a process that dies fires, or is unregistered.
ChildFires == C!ChildFires

\* ElFsWatch: inotify_g.watches leads to events that exist, and events of the
\* kernel to entries of inotify_g.watches.
WatchesKnown == F!WatchesKnown

\* ElFsWatch: a watch that the user unregistered is destroyed in the end.
WatchFreed == F!WatchFreed

\* Ic: a channel that said or heard BYE closes once what was asked is answered.
ByeCloses == I!ByeCloses
=============================================================================
