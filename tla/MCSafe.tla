------------------------------- MODULE MCSafe -------------------------------
(* The components of which only safety is checked, in one run, each alone: *)
(* 'which' says which one.  Apart from the event count, whose variables    *)
(* are those of ThrEvc, they share the variables v1, v2...: one component  *)
(* is at hand in a behaviour, and the variables it does not need stay 0.   *)
(* Names that play the same part in all of their component are x1, x2, x3, *)
(* y1 and y2, and symmetric.                                               *)
EXTENDS ThrEvc, TLC
CONSTANTS NONE, NULL, Root, Fired, Gc, x1, x2, x3, y1, y2, e1, e2
VARIABLES which,
          v1, v2, v3, v4, v5, v6, v7, v8, v9, v10, v11, v12, v13, v14, v15, v16, v17,
          v18, v19

Symmetry == Permutations({x1, x2, x3}) \cup Permutations({y1, y2})

\* Timers: <<next, repeat, lowres, nomiss>>.
TimerKinds == {<<2, 0, TRUE, FALSE>>, <<1, 1, FALSE, FALSE>>, <<2, 2, TRUE, TRUE>>}
\* Queries of the channel.
Plain == [async |-> FALSE, timeout |-> FALSE]
Timed1 == [async |-> FALSE, timeout |-> TRUE]
Async == [async |-> TRUE, timeout |-> FALSE]

\* The free thread data of a syn.
T == INSTANCE ThrTd WITH
    Threads <- {y1, y2}, Tds <- {x1, x2, x3}, NbSeq <- 4, head <- v1, next <- v2,
    made <- v3, held <- v4, pc <- v5, ptr <- v6, nxt <- v7, td <- v8, wipe <- v9,
    wptr <- v10, calm <- v11, freed <- v12, stack <- v13
ASSUME T!TdConstants

\* Modules and their dependencies.
D == INSTANCE Modules WITH
    Mods <- {x1, x2, x3}, MaxDeps <- 2, MaxReq <- 1, MaxNest <- 2, deps <- v1,
    state <- v2, manu <- v3, reqby <- v4, stack <- v5, dirty <- v6, cbs <- v7,
    todo <- v8, phase <- v9, asserts <- v10

\* Two of them, required more than once.
U == INSTANCE Modules WITH
    Mods <- {y1, y2}, MaxDeps <- 2, MaxReq <- 2, MaxNest <- 3, deps <- v1,
    state <- v2, manu <- v3, reqby <- v4, stack <- v5, dirty <- v6, cbs <- v7,
    todo <- v8, phase <- v9, asserts <- v10

\* The ring pool, with blocks that are moved under a walk.
R == INSTANCE MemRing WITH
    Blks <- {x1, x2, x3, e1}, BlkSize <- 2, Sizes <- {2}, ResetAt <- 2,
    Racing <- FALSE, links <- v1, cblk <- v2, fhead <- v3, free <- v4, pos <- v5,
    last <- v6, live <- v7, data <- v8, cnt <- v9, nrel <- v10, alive <- v11,
    walk <- v12, panic <- v13

\* The same, with more in a block.
B == INSTANCE MemRing WITH
    Blks <- {y1, y2}, BlkSize <- 3, Sizes <- {1, 2}, ResetAt <- 2,
    Racing <- FALSE, links <- v1, cblk <- v2, fhead <- v3, free <- v4, pos <- v5,
    last <- v6, live <- v7, data <- v8, cnt <- v9, nrel <- v10, alive <- v11,
    walk <- v12, panic <- v13

\* The fifo pool.
F == INSTANCE MemFifo WITH
    Pages <- {x1, x2, x3}, PageSize <- 4, Sizes <- {1, 3, 5}, Ratio <- 3,
    MaxBlocks <- 3, page <- v1, current <- v2, freepage <- v3, palive <- v4,
    blocks <- v5, gone <- v6
ASSUME F!FifoConstants

\* The stack pool.
S == INSTANCE MemStack WITH
    Blks <- {x1, x2, x3, e1}, MinSize <- 2, Sizes <- {1, 3}, MaxFrames <- 4,
    list <- v1, bsize <- v2, stack <- v3
ASSUME S!StackConstants

\* The heap of timers.
H == INSTANCE Qheap WITH
    Nodes <- {x1, x2, x3, y1, y2}, Keys <- 1..3, Fanout <- 2, heap <- v1, keyof <- v2

\* Timers.
E == INSTANCE ElTimers WITH
    Timers <- {x1, x2, x3}, Kinds <- TimerKinds, Restarts <- {0, 3}, LowresMin <- 2,
    TolDiv <- 2, LoopTimeout <- 3, MaxTime <- 3, MaxNest <- 2, clk <- v1, heap <- v2,
    timer <- v3, gc <- v4, calls <- v5

\* File descriptor events.
L == INSTANCE ElFds WITH
    Evs <- {y1, y2}, MaxReg <- 3, MaxNest <- 2, Careless <- FALSE, ev <- v1, reg <- v2,
    links <- v3, free <- v4, events <- v5, pending <- v6, frames <- v7, stale <- v8

\* The persistent store, with an object.
P == INSTANCE Qps WITH
    Objs <- {1}, MaxNo <- 3, Cap <- 1, MaxGen <- 4, ObjVals <- {y1, y2}, PageVals <- {},
    MaxCrash <- 1, Orphan <- FALSE, Eager <- FALSE, up <- v1, gen <- v2, maps <- v3,
    h <- v4, page <- v5, no_free <- v6, no_blocked <- v7, len <- v8, snap <- v9,
    child <- v10, disk <- v11, dur <- v12, saved <- v13, crashes <- v14, ok <- v15

\* The same, with a page of the user.
G == INSTANCE Qps WITH
    Objs <- {}, MaxNo <- 3, Cap <- 1, MaxGen <- 4, ObjVals <- {}, PageVals <- {y1, y2},
    MaxCrash <- 1, Orphan <- FALSE, Eager <- FALSE, up <- v1, gen <- v2, maps <- v3,
    h <- v4, page <- v5, no_free <- v6, no_blocked <- v7, len <- v8, snap <- v9,
    child <- v10, disk <- v11, dur <- v12, saved <- v13, crashes <- v14, ok <- v15

\* The queue of an rpc channel.
Q == INSTANCE IcQueue WITH
    Ids <- 1..4, msg_list <- v1, last_normal_prio_msg <- v2, is_closing <- v3
ASSUME Q!QueueConstants

\* An rpc channel.
I == INSTANCE Ic WITH
    Msgs <- {y1, y2}, Remote <- {}, MaxSlot <- 2, MaxConn <- 2, MaxQueue <- 1,
    Kinds <- {Plain, Timed1, Async}, conn <- v1, closing <- v2, reconn <- v3,
    auto <- v4, id <- v5, msg <- v6, queries <- v7, nextslot <- v8, msg_list <- v9,
    iov_list <- v10, queue_len <- v11, pending <- v12, busy <- v13, out <- v14,
    peer <- v15, inbox <- v16, gone <- v17, work <- v18, wrong <- v19
ASSUME I!IcConstants

\* The same, with more queries than slots.
J == INSTANCE Ic WITH
    Msgs <- {x1, x2, x3}, Remote <- {}, MaxSlot <- 2, MaxConn <- 1, MaxQueue <- 1,
    Kinds <- {Timed1}, conn <- v1, closing <- v2, reconn <- v3, auto <- v4, id <- v5,
    msg <- v6, queries <- v7, nextslot <- v8, msg_list <- v9, iov_list <- v10,
    queue_len <- v11, pending <- v12, busy <- v13, out <- v14, peer <- v15,
    inbox <- v16, gone <- v17, work <- v18, wrong <- v19
ASSUME J!IcConstants

mcvars == <<which, vars,
            v1, v2, v3, v4, v5, v6, v7, v8, v9, v10, v11, v12, v13, v14, v15, v16,
            v17, v18, v19>>

\* The variables from the n-th on are not needed.
Rest16 == <<v16, v17, v18, v19>>
Rest14 == <<v14, v15, Rest16>>
Rest11 == <<v11, v12, v13, Rest14>>
Rest9 == <<v9, v10, Rest11>>
Rest7 == <<v7, v8, Rest9>>
Rest6 == <<v6, Rest7>>
Rest4 == <<v4, v5, Rest6>>
Rest3 == <<v3, Rest4>>
Rest1 == <<v1, v2, Rest3>>

Zero16 == v16 = 0 /\ v17 = 0 /\ v18 = 0 /\ v19 = 0
Zero14 == v14 = 0 /\ v15 = 0 /\ Zero16
Zero11 == v11 = 0 /\ v12 = 0 /\ v13 = 0 /\ Zero14
Zero9 == v9 = 0 /\ v10 = 0 /\ Zero11
Zero7 == v7 = 0 /\ v8 = 0 /\ Zero9
Zero6 == v6 = 0 /\ Zero7
Zero4 == v4 = 0 /\ v5 = 0 /\ Zero6
Zero3 == v3 = 0 /\ Zero4
Zero1 == v1 = 0 /\ v2 = 0 /\ Zero3

MCInit ==
  /\ Init
  /\ \/ which = "evc" /\ Zero1
     \/ which = "td" /\ T!Init /\ Zero14
     \/ which = "module" /\ D!Init /\ Zero11
     \/ which = "module2" /\ U!Init /\ Zero11
     \/ which = "ring" /\ R!Init /\ Zero14
     \/ which = "ring2" /\ B!Init /\ Zero14
     \/ which = "fifo" /\ F!Init /\ Zero7
     \/ which = "stack" /\ S!Init /\ Zero4
     \/ which = "heap" /\ H!Init /\ Zero3
     \/ which = "timer" /\ E!Init /\ Zero6
     \/ which = "fd" /\ L!Init /\ Zero9
     \/ which = "qps" /\ P!Init /\ Zero16
     \/ which = "qpspage" /\ G!Init /\ Zero16
     \/ which = "icqueue" /\ Q!Init /\ Zero4
     \/ which = "ic" /\ I!Init
     \/ which = "ic3" /\ J!Init

MCNext ==
  \/ which = "evc" /\ Next /\ UNCHANGED <<which, Rest1>>
  \/ which = "td" /\ T!Next /\ UNCHANGED <<which, vars, Rest14>>
  \/ which = "module" /\ D!Next /\ UNCHANGED <<which, vars, Rest11>>
  \/ which = "module2" /\ U!Next /\ UNCHANGED <<which, vars, Rest11>>
  \/ which = "ring" /\ R!Next /\ UNCHANGED <<which, vars, Rest14>>
  \/ which = "ring2" /\ B!Next /\ UNCHANGED <<which, vars, Rest14>>
  \/ which = "fifo" /\ F!Next /\ UNCHANGED <<which, vars, Rest7>>
  \/ which = "stack" /\ S!Next /\ UNCHANGED <<which, vars, Rest4>>
  \/ which = "heap" /\ H!Next /\ UNCHANGED <<which, vars, Rest3>>
  \/ which = "timer" /\ E!Next /\ UNCHANGED <<which, vars, Rest6>>
  \/ which = "fd" /\ L!Next /\ UNCHANGED <<which, vars, Rest9>>
  \/ which = "qps" /\ P!Next /\ UNCHANGED <<which, vars, Rest16>>
  \/ which = "qpspage" /\ G!Next /\ UNCHANGED <<which, vars, Rest16>>
  \/ which = "icqueue" /\ Q!Next /\ UNCHANGED <<which, vars, Rest4>>
  \/ which = "ic" /\ I!Next /\ UNCHANGED <<which, vars>>
  \/ which = "ic3" /\ J!Next /\ UNCHANGED <<which, vars>>

MCSpec == MCInit /\ [][MCNext]_mcvars

\* ThrTd: every thread data is owned by one thread or on the stack, once.
TdsAccounted == which = "td" => T!TdsAccounted

\* Modules: what is loaded is what is required, dependencies included, and only a
\* release takes a require back.
LoadedAsRequired ==
  /\ []((which = "module" => D!Loaded) /\ (which = "module2" => U!Loaded))
  /\ [][/\ which = "module" => D!OnlyReleased
        /\ which = "module2" => U!OnlyReleased]_mcvars

\* Modules: a method calls the modules that are loaded, dependencies first.
MethodsFresh ==
  (which = "module" => D!MethodsFresh) /\ (which = "module2" => U!MethodsFresh)

\* MemRing: no memory is given twice, and all of it is given back.
RingSound == (which = "ring" => R!RingSound) /\ (which = "ring2" => B!RingSound)

\* MemFifo: no memory is given twice.
BlocksDisjoint == which = "fifo" => F!BlocksDisjoint

\* MemFifo: pages are mapped only while something needs them.
NoPageLost == which = "fifo" => F!NoPageLost

\* MemStack: what a frame has allocated is its own until it is popped.
FramesKept == which = "stack" => S!FramesKept

\* ElFds: a callback runs for the registration the event was polled for.
NoStaleFire == which = "fd" => L!NoStaleFire

\* ElFds: the list of fired descriptors is a list.
FiredListSound == which = "fd" => L!FiredListSound

\* ElTimers: no timer that is due is left when the timers have been processed.
DeadlinesMet == [][which = "timer" => E!NoneDueLeft]_mcvars

\* Qps: whatever dies when, the store opens as of its last snapshot.
Recoverable ==
  (which = "qps" => P!Recoverable) /\ (which = "qpspage" => G!Recoverable)

\* IcQueue: the shortcut leads to a queued message, and messages leave by
\* priority until the channel closes.
QueueSound == which = "icqueue" => Q!QueueSound

\* Ic: the slot of an answer leads to the query it answers.
AnswerMatches ==
  (which = "ic" => I!AnswerMatches) /\ (which = "ic3" => J!AnswerMatches)

\* Ic: the callback of a query is called exactly once.
CalledOnce == (which = "ic" => I!CalledOnce) /\ (which = "ic3" => J!CalledOnce)

\* Qheap and ElTimers: every parent is before its children.
HeapOrder == (which = "heap" => H!HeapOrder) /\ (which = "timer" => E!HeapOrder)
=============================================================================
