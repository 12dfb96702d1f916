------------------------------- MODULE Modules -------------------------------
(***************************************************************************)
(* The module manager (core/module.c).  Everything runs in the main        *)
(* thread; what interleaves is code of the modules themselves: a           *)
(* constructor, a destructor or a method may require and release other     *)
(* modules, and the call then nests in the one in progress.  The calls in  *)
(* progress are a stack of frames, the innermost first; user code runs     *)
(* when the stack is empty or when its first frame is a "ctor", a "dtor"   *)
(* or a "cb".                                                              *)
(***************************************************************************)
EXTENDS Naturals, FiniteSets, Sequences, SequencesExt

CONSTANTS Mods,      \* the registered modules
          NONE,      \* no parent module
          MaxDeps,   \* bound: dependencies of a module
          MaxReq,    \* bound: manu_req_count of a module
          MaxNest    \* bound: user code nested in user code

VARIABLES deps,      \* depends_on
          state,     \* state
          manu,      \* manu_req_count
          reqby,     \* required_by
          stack,     \* the calls in progress
          dirty,     \* _G.methods_dirty
          cbs,       \* the modules in the callbacks of a DEPS_BEFORE method
          todo,      \* the positions module_hard_shutdown has still to visit
          phase,     \* "declare", "run", "exit", "done", "dead"
          asserts    \* no assertion of the code has failed

vars == <<deps, state, manu, reqby, stack, dirty, cbs, todo, phase, asserts>>
methods == <<dirty, cbs>>

IsLoaded(s) == s \in {"AUTO_REQ", "MANU_REQ"}
module_is_loaded(m) == IsLoaded(state[m])

Frame(op, m, by, i) == [op |-> op, m |-> m, by |-> by, i |-> i]

Init ==
  /\ deps = [m \in Mods |-> <<>>]
  /\ state = [m \in Mods |-> "REGISTERED"]
  /\ manu = [m \in Mods |-> 0]
  /\ reqby = [m \in Mods |-> <<>>]
  /\ stack = <<>>
  /\ dirty = FALSE
  /\ cbs = <<>>
  /\ todo = {}
  /\ phase = "declare"
  /\ asserts = TRUE

-----------------------------------------------------------------------------
(* Declarations, before the program runs *)

\* The modules that m depends on, directly or not.
AllDeps(m) ==
  LET reach[n \in 0..Cardinality(Mods)] ==
        IF n = 0 THEN ToSet(deps[m])
        ELSE reach[n - 1] \cup UNION {ToSet(deps[d]) : d \in reach[n - 1]}
  IN reach[Cardinality(Mods)]

module_has_dep(m, other) == other \in AllDeps(m)

module_add_dep(m, dep) ==
  /\ phase = "declare"
  /\ m # dep
  /\ ~module_has_dep(dep, m)
  /\ Len(deps[m]) < MaxDeps
  /\ deps' = [deps EXCEPT ![m] = Append(@, dep)]
  /\ UNCHANGED <<state, manu, reqby, stack, methods, todo, phase, asserts>>

Start ==
  /\ phase = "declare"
  /\ phase' = "run"
  /\ UNCHANGED <<deps, state, manu, reqby, stack, methods, todo, asserts>>

-----------------------------------------------------------------------------
(* Requiring *)

UserFrames == {"ctor", "dtor", "cb"}

\* User code runs: at exit only inside destructors.
UserRuns ==
  /\ IF stack = <<>> THEN phase = "run"
     ELSE phase \in {"run", "exit"} /\ Head(stack).op \in UserFrames
  /\ Len(SelectSeq(stack, LAMBDA f : f.op \in UserFrames)) < MaxNest

set_require_type(m, by) ==
  IF by = NONE
  THEN /\ state' = [state EXCEPT ![m] = "MANU_REQ"]
       /\ manu' = [manu EXCEPT ![m] = @ + 1]
       /\ UNCHANGED reqby
  ELSE /\ reqby' = [reqby EXCEPT ![m] = Append(@, by)]
       /\ state' = [state EXCEPT ![m] =
                      IF @ = "MANU_REQ" THEN @ ELSE "AUTO_REQ"]
       /\ UNCHANGED manu

\* logger_fatal: a module in construction or in destruction is required, or a
\* constructor fails.
Fatal ==
  /\ phase' = "dead"
  /\ UNCHANGED <<deps, state, manu, reqby, stack, methods, todo, asserts>>

\* module_require_internal up to the loop on the dependencies; s is the stack
\* to come back to.
Require(m, by, s) ==
  \/ /\ state[m] \in {"INITIALIZING", "SHUTTING"}
     /\ Fatal
  \/ /\ module_is_loaded(m)
     /\ set_require_type(m, by)
     /\ stack' = s
     /\ UNCHANGED <<deps, methods, todo, phase, asserts>>
  \/ /\ state[m] \in {"REGISTERED", "FAIL_SHUT"}
     /\ state' = [state EXCEPT ![m] = "INITIALIZING"]
     /\ dirty' = TRUE
     /\ stack' = <<Frame("deps", m, by, 1)>> \o s
     /\ UNCHANGED <<deps, manu, reqby, cbs, todo, phase, asserts>>

\* A destructor run by the exit requires nothing.
module_require(m) ==
  /\ phase = "run"
  /\ UserRuns
  /\ manu[m] < MaxReq
  /\ Require(m, NONE, stack)

\* The loop on the dependencies, then the call of the constructor.
RequireDeps ==
  /\ stack # <<>> /\ Head(stack).op = "deps"
  /\ LET f == Head(stack) IN
       IF f.i <= Len(deps[f.m])
       THEN Require(deps[f.m][f.i], f.m,
                    <<[f EXCEPT !.i = @ + 1]>> \o Tail(stack))
       ELSE /\ stack' = <<[f EXCEPT !.op = "ctor"]>> \o Tail(stack)
            /\ UNCHANGED <<deps, state, manu, reqby, methods, todo, phase,
                           asserts>>

\* Mutant of ConstructorReturns: does not mark the methods dirty again.
ConstructorReturnsMut ==
  /\ stack # <<>> /\ Head(stack).op = "ctor"
  /\ LET f == Head(stack) IN set_require_type(f.m, f.by)
  /\ stack' = Tail(stack)
  /\ UNCHANGED <<deps, methods, todo, phase, asserts>>

ConstructorReturns ==
  /\ stack # <<>> /\ Head(stack).op = "ctor"
  /\ LET f == Head(stack) IN set_require_type(f.m, f.by)
  /\ dirty' = TRUE
  /\ stack' = Tail(stack)
  /\ UNCHANGED <<deps, cbs, todo, phase, asserts>>

ConstructorFails ==
  /\ stack # <<>> /\ Head(stack).op = "ctor"
  /\ Fatal

-----------------------------------------------------------------------------
(* Releasing *)

\* module_shutdown up to the call of the destructor.
Shutdown(m, rb, s) ==
  /\ asserts' = (asserts /\ module_is_loaded(m))
  /\ manu' = [manu EXCEPT ![m] = 0]
  /\ state' = [state EXCEPT ![m] = "SHUTTING"]
  /\ reqby' = rb
  /\ stack' = <<Frame("dtor", m, NONE, 1)>> \o s
  /\ UNCHANGED <<deps, methods>>

\* The destructor returns, ok or not.
DestructorReturns ==
  /\ stack # <<>> /\ Head(stack).op = "dtor"
  /\ LET f == Head(stack) IN
       \/ stack' = <<[f EXCEPT !.op = "notify"]>> \o Tail(stack)
          /\ UNCHANGED state
       \/ /\ stack' = <<[f EXCEPT !.op = "notify_fail"]>> \o Tail(stack)
          /\ state' = [state EXCEPT ![f.m] = "FAIL_SHUT"]
  /\ dirty' = TRUE
  /\ UNCHANGED <<deps, manu, reqby, cbs, todo, phase, asserts>>

\* Mutant of notify_shutdown: shuts down a module that was also required by hand.
notify_shutdown_mut(m, dep, s) ==
  LET pos == SelectInSeq(reqby[m], LAMBDA n : n = dep)
      rb  == IF pos = 0 THEN reqby
             ELSE [reqby EXCEPT ![m] = RemoveAt(@, pos)]
  IN IF rb[m] = <<>>
     THEN Shutdown(m, rb, s)
     ELSE /\ reqby' = rb
          /\ stack' = s
          /\ UNCHANGED <<deps, state, manu, methods, asserts>>

\* 'dep' has been shut down: m loses one of its parents, maybe the last.
notify_shutdown(m, dep, s) ==
  LET pos == SelectInSeq(reqby[m], LAMBDA n : n = dep)
      rb  == IF pos = 0 THEN reqby
             ELSE [reqby EXCEPT ![m] = RemoveAt(@, pos)]
  IN IF rb[m] = <<>> /\ state[m] # "MANU_REQ"
     THEN Shutdown(m, rb, s)
     ELSE /\ reqby' = rb
          /\ stack' = s
          /\ UNCHANGED <<deps, state, manu, methods, asserts>>

\* The loop of module_shutdown on the dependencies, and its end.
NotifyDeps ==
  /\ stack # <<>> /\ Head(stack).op \in {"notify", "notify_fail"}
  /\ LET f == Head(stack) IN
       IF f.i <= Len(deps[f.m])
       THEN notify_shutdown(deps[f.m][f.i], f.m,
                            <<[f EXCEPT !.i = @ + 1]>> \o Tail(stack))
       ELSE /\ state' = IF f.op = "notify"
                        THEN [state EXCEPT ![f.m] = "REGISTERED"] ELSE state
            /\ stack' = Tail(stack)
            /\ UNCHANGED <<deps, manu, reqby, methods, asserts>>
  /\ UNCHANGED <<todo, phase>>

\* module_release of a module that was required by hand.
Release(m) ==
  \/ /\ manu[m] > 1
     /\ manu' = [manu EXCEPT ![m] = @ - 1]
     /\ UNCHANGED <<deps, state, reqby, stack, methods, asserts>>
  \/ /\ manu[m] = 1
     /\ reqby[m] # <<>>
     /\ manu' = [manu EXCEPT ![m] = 0]
     /\ state' = [state EXCEPT ![m] = "AUTO_REQ"]
     /\ UNCHANGED <<deps, reqby, stack, methods, asserts>>
  \/ manu[m] = 1 /\ reqby[m] = <<>> /\ Shutdown(m, reqby, stack)

module_release(m) ==
  /\ UserRuns
  /\ manu[m] > 0
  /\ Release(m)
  /\ UNCHANGED <<todo, phase>>

-----------------------------------------------------------------------------
(* Methods *)

\* What modules_topo_sort_rev may return: which of them depends on the order
\* of a hash table.
TopoOrders ==
  {s \in SetToSeqs(Mods) :
     \A i, j \in DOMAIN s : i < j => s[j] \notin ToSet(deps[s[i]])}

\* module_run_method with its callbacks refreshed when a module has changed.
module_run_method(order) ==
  /\ UserRuns
  /\ stack' = <<Frame("run", NONE, order, 1)>> \o stack
  /\ IF dirty
     THEN \E s \in TopoOrders : cbs' = SelectSeq(s, module_is_loaded)
     ELSE UNCHANGED cbs
  /\ dirty' = FALSE
  /\ UNCHANGED <<deps, state, manu, reqby, todo, phase, asserts>>

\* The loop on the callbacks, which reads the vector as it then is.
RunCallbacks ==
  /\ stack # <<>> /\ Head(stack).op = "run"
  /\ LET f == Head(stack)
         n == Len(cbs)
         m == cbs[IF f.by = "DEPS_BEFORE" THEN f.i ELSE n + 1 - f.i]
     IN IF f.i <= n
        THEN stack' = <<Frame("cb", m, NONE, 1), [f EXCEPT !.i = @ + 1]>>
                        \o Tail(stack)
        ELSE stack' = Tail(stack)
  /\ UNCHANGED <<deps, state, manu, reqby, methods, todo, phase, asserts>>

CallbackReturns ==
  /\ stack # <<>> /\ Head(stack).op = "cb"
  /\ stack' = Tail(stack)
  /\ UNCHANGED <<deps, state, manu, reqby, methods, todo, phase, asserts>>

-----------------------------------------------------------------------------
(* The end of the program *)

\* Exit can only begin at the outermost level.
BeginExit ==
  /\ phase = "run" /\ stack = <<>>
  /\ phase' = "exit"
  /\ todo' = Mods
  /\ UNCHANGED <<deps, state, manu, reqby, stack, methods, asserts>>

\* module_hard_shutdown: releases what was not, then asserts.
HardShutdown ==
  /\ phase = "exit" /\ stack = <<>>
  /\ \/ \E m \in todo :
          \/ /\ manu[m] > 0
             /\ Release(m)
             /\ UNCHANGED <<todo, phase>>
          \/ /\ manu[m] = 0
             /\ todo' = todo \ {m}
             /\ UNCHANGED <<deps, state, manu, reqby, stack, methods, phase,
                            asserts>>
     \/ /\ todo = {}
        /\ phase' = "done"
        /\ asserts' = (asserts /\ \A m \in Mods :
                          state[m] \in {"REGISTERED", "FAIL_SHUT"})
        /\ UNCHANGED <<deps, state, manu, reqby, stack, methods, todo>>

-----------------------------------------------------------------------------
Manager == phase \in {"run", "exit"} /\
  \/ RequireDeps \/ ConstructorReturns \/ ConstructorFails
  \/ DestructorReturns \/ NotifyDeps
  \/ RunCallbacks \/ CallbackReturns
  \/ HardShutdown

Next ==
  \/ \E m, d \in Mods : module_add_dep(m, d)
  \/ Start
  \/ \E m \in Mods : module_require(m) \/ module_release(m)
  \/ \E o \in {"DEPS_BEFORE", "DEPS_AFTER"} : module_run_method(o)
  \/ Manager
  \/ BeginExit

Spec == Init /\ [][Next]_vars

-----------------------------------------------------------------------------
(* Properties *)

InFrame(m, ops) == \E k \in DOMAIN stack : stack[k].m = m /\ stack[k].op \in ops

\* Whenever code of a module may run (it is loaded, in its constructor or in
\* its destructor), all its dependencies are loaded and know that it needs them:
\* module_require loads them first and no release, from wherever it is called,
\* takes them away.
DepsLoaded ==
  phase # "dead" =>
    \A m \in Mods :
      module_is_loaded(m) \/ InFrame(m, {"ctor", "dtor"}) =>
        \A d \in ToSet(deps[m]) :
           module_is_loaded(d) /\ m \in ToSet(reqby[d])

\* A module that was loaded for others stays loaded only as long as one of them
\* is up, on its way up or on its way down (notify_shutdown misses none), and
\* manu_req_count is positive exactly when the state says so.
NoOrphan ==
  phase # "dead" =>
    \A m \in Mods :
      /\ state[m] = "AUTO_REQ" => reqby[m] # <<>>
      /\ state[m] = "MANU_REQ" <=> manu[m] > 0
      /\ \A n \in ToSet(reqby[m]) :
           module_is_loaded(n)
             \/ InFrame(n, {"deps", "ctor", "dtor", "notify", "notify_fail"})

\* The callbacks of a method, when they are not to be rebuilt, are those of the
\* started modules (and maybe those of a module in its destructor: the list is
\* only marked after it), and a module comes after its dependencies.
MethodsFresh ==
  phase # "dead" /\ ~dirty =>
    /\ {m \in Mods : module_is_loaded(m)} \subseteq ToSet(cbs)
    /\ \A m \in ToSet(cbs) : module_is_loaded(m) \/ InFrame(m, {"dtor"})
    /\ \A i, j \in DOMAIN cbs : i < j => cbs[j] \notin ToSet(deps[cbs[i]])

\* The assertions of module_shutdown and module_hard_shutdown hold: at exit one
\* walk over the modules shuts all of them down.
AssertsHold == asserts

\* The modules that are loaded are the ones that are required, directly or by
\* modules that are loaded, and the assertions on that hold.
Loaded == DepsLoaded /\ NoOrphan /\ AssertsHold

\* Until the exit, only a module_release takes a module_require back: a module
\* required by hand survives the shutdown of the modules that also need it.
OnlyReleased ==
  phase = "run" /\ phase' = "run" =>
    \A m \in Mods : manu'[m] < manu[m] => UserRuns

\* What is loaded is what is required, and only a release takes a require back.
LoadedAsRequired == []Loaded /\ [][OnlyReleased]_vars
=============================================================================
