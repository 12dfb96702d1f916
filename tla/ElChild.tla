------------------------------- MODULE ElChild -------------------------------
(***************************************************************************)
(* The child events of the event loop (core/el.blk): processes die at any  *)
(* time, SIGCHLD is one bit that the loop reads later, and a registration  *)
(* may find its process already dead.  One event per process.              *)
(***************************************************************************)
EXTENDS Naturals, Sequences

CONSTANTS Pids,
          NONE,
          MaxNest,    \* bound on nested loops
          Careless    \* do callbacks unregister the event of a process that
                      \* died in the same batch, or run a nested loop from
                      \* the list _G.before?

VARIABLES proc,       \* "none", "running", "zombie" or "reaped"
          childs,     \* _G.childs: pids watched, with an event or NULL
          ev,         \* the events: "none", "live", "destroyed"
          exited,     \* child.has_exited
          hook,       \* el_sigchld_hook is registered
          forking,    \* the process ifork() has created and not noted yet
          got,        \* SIGCHLD in _G.gotsigs
          before,     \* the child events of the list _G.before
          frames,     \* running loops, innermost last: what each one does, the
                      \* events it is about to fire and the one it fires
          broken,     \* ASSERT("event not found") was false
          late        \* el_child_fire was called on an event destroyed, or
                      \* whose callback runs

vars == <<proc, childs, ev, exited, hook, forking, got, before, frames, broken,
          late>>

Watched == "watched"      \* an entry of _G.childs with an event
Null == "null"            \* an entry without

\* NONE is neither a process nor an entry of _G.childs.
ChildConstants == NONE \notin Pids /\ NONE # Watched /\ NONE # Null

Init ==
  /\ proc = [p \in Pids |-> "none"] /\ childs = [p \in Pids |-> NONE]
  /\ ev = [p \in Pids |-> "none"] /\ exited = {} /\ hook = FALSE
  /\ forking = NONE /\ got = FALSE /\ before = {} /\ frames = <<>>
  /\ broken = FALSE /\ late = FALSE

Frame(pc, batch, at) == [pc |-> pc, batch |-> batch, at |-> at]
Top == frames[Len(frames)]
Goes(f) == frames' = [frames EXCEPT ![Len(frames)] = f]   \* the innermost loop
Ends == frames' = SubSeq(frames, 1, Len(frames) - 1)

UserRuns == forking = NONE /\ (frames # <<>> => Top.at # NONE)
InCallback(p) == \E i \in DOMAIN frames : frames[i].at = p
InBatch(p) ==
  \E i \in DOMAIN frames : frames[i].pc = "hook" /\ p \in frames[i].batch

\* The system: ifork(), which el_child_at_fork_on_parent follows, fork(), which it
\* ignores, and the death of a process, with SIGCHLD if it is handled.
Fork(p) ==
  /\ UserRuns /\ proc[p] = "none"
  /\ proc' = [proc EXCEPT ![p] = "running"] /\ forking' \in {p, NONE}
  /\ UNCHANGED <<childs, ev, exited, hook, got, before, frames, broken, late>>

Exit(p) ==
  /\ proc[p] = "running"
  /\ proc' = [proc EXCEPT ![p] = "zombie"]
  /\ got' = (got \/ hook)
  /\ UNCHANGED <<childs, ev, exited, hook, forking, before, frames, broken, late>>

el_child_at_fork_on_parent ==
  /\ forking # NONE /\ forking' = NONE
  /\ childs' = [childs EXCEPT ![forking] = Null]
  /\ hook' = TRUE
  /\ UNCHANGED <<proc, ev, exited, got, before, frames, broken, late>>

\* Mutant of el_child_register_d: a process already dead is not looked for.
el_child_register_d_mut(p) ==
  /\ UserRuns /\ ev[p] = "none" /\ proc[p] # "none"
  /\ ev' = [ev EXCEPT ![p] = "live"]
  /\ childs' = [childs EXCEPT ![p] = Watched] /\ hook' = TRUE
  /\ UNCHANGED <<proc, exited, forking, got, before, frames, broken, late>>

\* SIGCHLD is blocked meanwhile.  waitpid() finds a zombie; of a process that the
\* hook has reaped it knows nothing, and the event waits as for one that runs.
el_child_register_d(p) ==
  /\ UserRuns /\ ev[p] = "none" /\ proc[p] # "none"
  /\ ev' = [ev EXCEPT ![p] = "live"]
  /\ IF proc[p] = "zombie"
     THEN /\ proc' = [proc EXCEPT ![p] = "reaped"]
          /\ childs' = [childs EXCEPT ![p] = NONE]
          /\ exited' = exited \cup {p} /\ before' = before \cup {p}
          /\ UNCHANGED hook
     ELSE /\ childs' = [childs EXCEPT ![p] = Watched] /\ hook' = TRUE
          /\ UNCHANGED <<proc, exited, before>>
  /\ UNCHANGED <<forking, got, frames, broken, late>>

\* An event whose callback runs belongs to el_child_fire, which destroys it.
el_child_unregister(p) ==
  /\ UserRuns /\ ev[p] = "live" /\ ~InCallback(p)
  /\ Careless \/ ~InBatch(p)
  /\ broken' = (broken \/ (childs[p] = NONE /\ p \notin exited))
  /\ childs' = [childs EXCEPT ![p] = NONE]
  /\ ev' = [ev EXCEPT ![p] = "destroyed"]
  /\ before' = before \ {p}
  /\ UNCHANGED <<proc, exited, hook, forking, got, frames, late>>

-----------------------------------------------------------------------------
\* el_loop_timeout: the list _G.before first, then the signals.  A nested loop
\* takes the cache of the list from the outer ones.
LoopStarts ==
  /\ UserRuns /\ Len(frames) < MaxNest
  /\ frames = <<>> \/ Careless \/ \A i \in DOMAIN frames : frames[i].pc = "hook"
  /\ frames' = Append([i \in DOMAIN frames |->
                         IF frames[i].pc = "before" THEN Frame("before", {}, frames[i].at)
                         ELSE frames[i]],
                      Frame("before", before, NONE))
  /\ UNCHANGED <<proc, childs, ev, exited, hook, forking, got, before, broken,
                 late>>

Running(pc) == frames # <<>> /\ Top.pc = pc /\ Top.at = NONE

\* Mutant of el_child_fire: no event is skipped.
el_child_fire_mut ==
  /\ \E pc \in {"before", "hook"} : Running(pc)
  /\ \E p \in Top.batch :
        /\ Goes(Frame(Top.pc, Top.batch \ {p}, p))
        /\ late' = (late \/ ev[p] # "live")
  /\ UNCHANGED <<proc, childs, ev, exited, hook, forking, got, before, broken>>

\* el_before_process skips the events unregistered since; the hook does not.
el_child_fire ==
  /\ \E pc \in {"before", "hook"} : Running(pc)
  /\ \E p \in Top.batch :
        LET gone == ev[p] # "live"
        IN IF gone /\ Top.pc = "before"
           THEN /\ Goes(Frame(Top.pc, Top.batch \ {p}, NONE))
                /\ UNCHANGED late
           ELSE /\ Goes(Frame(Top.pc, Top.batch \ {p}, p))
                /\ late' = (late \/ gone \/ InCallback(p))
  /\ UNCHANGED <<proc, childs, ev, exited, hook, forking, got, before, broken>>

\* The callback returns and its event is destroyed.
FireReturns ==
  /\ frames # <<>> /\ forking = NONE /\ Top.at # NONE
  /\ ev' = [ev EXCEPT ![Top.at] = "destroyed"]
  /\ before' = before \ {Top.at}
  /\ Goes(Frame(Top.pc, Top.batch, NONE))
  /\ UNCHANGED <<proc, childs, exited, hook, forking, got, broken, late>>

\* el_signal_process: the bits are read, then cleared.
SignalRead ==
  /\ Running("before") /\ Top.batch = {}
  /\ IF got /\ hook THEN Goes(Frame("clear", {}, NONE)) ELSE Ends
  /\ UNCHANGED <<proc, childs, ev, exited, hook, forking, got, before, broken,
                 late>>

SignalClear ==
  /\ Running("clear")
  /\ got' = FALSE
  /\ Goes(Frame("scan", {}, NONE))
  /\ UNCHANGED <<proc, childs, ev, exited, hook, forking, before, broken, late>>

\* The hook: all the dead are taken off _G.childs, then fired.
el_sigchld_hook ==
  /\ Running("scan")
  /\ LET dead == {p \in Pids : childs[p] # NONE /\ proc[p] # "running"}
     IN /\ Goes(Frame("hook", {p \in dead : childs[p] = Watched}, NONE))
        /\ childs' = [p \in Pids |-> IF p \in dead THEN NONE ELSE childs[p]]
        /\ proc' = [p \in Pids |-> IF p \in dead THEN "reaped" ELSE proc[p]]
  /\ UNCHANGED <<ev, exited, hook, forking, got, before, broken, late>>

LoopEnds ==
  /\ Running("hook") /\ Top.batch = {}
  /\ Ends
  /\ UNCHANGED <<proc, childs, ev, exited, hook, forking, got, before, broken,
                 late>>

LoopSteps == \/ el_child_fire \/ SignalRead \/ SignalClear \/ el_sigchld_hook
             \/ LoopEnds

Next ==
  \/ \E p \in Pids : \/ Fork(p) \/ Exit(p) \/ el_child_register_d(p)
                     \/ el_child_unregister(p)
  \/ el_child_at_fork_on_parent \/ LoopStarts \/ LoopSteps \/ FireReturns

\* The program runs its loop again and again, the loop goes on, and a callback
\* returns after finitely many nested loops.
Fairness ==
  /\ WF_vars(frames = <<>> /\ LoopStarts)
  /\ WF_vars(LoopSteps) /\ WF_vars(el_child_at_fork_on_parent)
  /\ SF_vars(FireReturns)

Spec == Init /\ [][Next]_vars /\ Fairness

-----------------------------------------------------------------------------
\* el_child_unregister finds the pid in _G.childs unless the process was dead
\* when it was registered: ASSERT("event not found").
AssertsHold == ~broken

\* el_child_fire runs once on an event, while it exists: not after it was
\* unregistered, nor again from a nested loop.
FiresOnce == ~late

\* What callbacks may do to the table of children breaks nothing.
ChildsSound == AssertsHold /\ FiresOnce

\* The event of p waits, though the hook has reaped p before its registration:
\* the hook fires it when it runs for another process.
Stranded(p) == childs[p] = Watched /\ proc[p] = "reaped"

\* The event of a process that dies fires, or is unregistered: no SIGCHLD that
\* is merged with another, or that comes before the handler, loses it.  One that
\* was registered when the hook had reaped its process already does so from the
\* next SIGCHLD on.
ChildFires ==
  \A p \in Pids :
    (ev[p] = "live" /\ proc[p] # "running" /\ (Stranded(p) => got))
      ~> (ev[p] = "destroyed")
=============================================================================
