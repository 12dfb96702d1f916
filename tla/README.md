# A verification project for lib-common

lib-common is Intersec's base C library: memory pools, strings and containers,
a thread-job library, an event loop, a module manager, persistent paged
storage, an RPC layer over it all.  This directory holds TLA+ models of the
parts whose correctness depends on the order of events, the TLC runs that
check them on small instances, and TLAPS proofs of the results that matter
most.

Source paths below are relative to the repository (`src/core/...`);
`PROJECT.json` has, for every definition, the lines it models.

## 1. The system: inventory

### Thread library (`src/core/thr*.{c,h,blk}`)

* **Job deque** (`thr-job.blk`, "atomic dequeue").  State, per thread: `top`,
  `bot`, `q[THR_JOB_MAX]` of (job, syn).  Operations: `thr_syn_schedule`
  (owner pushes at the bottom, or runs the job at once), `thr_job_dequeue`
  (owner pops), `thr_job_try_steal` (any other thread takes the top),
  `thr_run_deque_entry`.  Hard: no lock; the last job is raced for; entries are
  reused while a slow thief still reads them.
* **MPSC queue** (`thr-mpsc.h`).  State: `head` (a stub node), `tail`, the
  `next` fields.  Operations: `mpsc_queue_push` (exchange of `tail`, then
  link), `mpsc_queue_drain_start/fast/end`, `mpsc_queue_pop`,
  `mpsc_queue_looks_empty`.  Hard: between the exchange and the link the list
  is cut; the consumer frees nodes producers still have to link.
* **SPSC queue** (`thr-spsc.h`, `thr-spsc.c`).  A linked list whose consumed
  nodes the producer recycles (`head_copy`).
* **Event count** (`thr-evc.{c,h}`).  A futex word and a waiter count:
  `thr_ec_get`, `thr_ec_wait/timedwait`, `thr_ec_signal_n`, `broadcast`.  Hard:
  a signal between the check of a condition and the sleep must not be lost.
* **Serial queues** (`thr-job.blk`, "serial queues").  An MPSC queue of jobs, a
  job `run` that drains it, `running_on`.  Operations: `thr_syn_queue`,
  `thr_queue_sync`, `thr_queue_run`, `thr_queue_drain`, `thr_queue_destroy`.
  Promise: jobs of one queue run one at a time, in order.
* **Main queue** (`thr_queue_main_g`, `thr_wakeup_thr0`, `thr_on_el`,
  `thr_queue_main_drain`).  A serial queue drained by thread 0, from the event
  loop or while it waits in `thr_syn_wait_until`; `thr0_cur_ec_g` says on which
  event count thread 0 sleeps.
* **Syn** (`thr_syn_t`).  `pending`, `refcnt`, an event count: barrier over a
  set of jobs (`thr_syn__job_prepare/done`, `thr_syn_wait*`, `thr_syn_notify`,
  retain/release).  Hard: the last job wakes a waiter that frees the syn.
* **Pool** (`thr_job_main`, `thr_fork_threads`, `thr_enter/exit_blocking_
  syscall`, `thr_initialize`, `thr_shutdown`).  Worker threads that dequeue,
  steal, or sleep; a dispatcher creates or revives threads while others block;
  obsolete threads go into quarantine and die.
* **Td** (`thr_td_*`) : a lock-free stack of per-thread data with a tagged
  pointer.  **thr_for_each** : parallel loop that cuts its range into jobs of
  two levels.
* **thr.c** : attach/detach of threads to the library's modules.

### Event loop (`src/core/el.blk`, `el-epoll.in.c`, `el-inotify.in.c`)

Handles for timers (a heap keyed by expiry, with repeat and tolerance), file
descriptors (epoll, priorities, a list of events marked fired by the
application), signals, children, file system watches, before/after hooks,
proxies, workers, wake events.  A handle may be unregistered, re-registered or
stopped by any callback, and any callback may run a loop of its own.  Hard:
callbacks that change the structure being walked; timers rearmed in their own
callback; nested loops that take over what an outer one was walking; wake
events fired by other threads; children that die before they are registered.

### Module manager (`src/core/module.c`)

State per module: REGISTERED, AUTO_REQ, MANU_REQ, INITIALIZING, SHUTTING,
FAIL_SHUT, the list of modules that require it.  `module_require`,
`module_release`, `module_shutdown`, methods run in dependency order, the hard
shutdown at exit.  Hard: constructors, destructors and methods that require and
release modules themselves; partial failure of one of them.

### Allocators (`src/core/mem-*.c`, `mem.blk`)

Stack pool (frames pushed and popped over blocks that are kept), fifo pool (a
page is freed, or kept for the next use, when its last block is), ring pool
(frames made by one thread and released in any order by others), libc pool.

### Persistent storage (`src/core/qps*.{c,blk}`, `qpage.c`, `file-bin.c`)

A paged store with handles to objects, pages of the user, and snapshots that a
child process writes while the parent goes on.  Hard: a crash at any point must
leave a directory from which the last snapshot loads.  Hash-array tries and
bitmaps stored in it; append-only binary files.

### Logs and files (`src/core/file-log.blk`, `log.c`, `file.c`)

Rotating log files with compression and removal of the oldest ones; loggers'
tree with levels; buffered files.

### RPC and network (`src/iop/rpc-channel.blk`, `rpc-http*.c`, `src/net/*`)

IOP channels: queries in numbered slots, a list of messages by priority, an
output list, cancellation, timeouts, the BYE that ends a channel, reconnection.
Hard: an answer, a timeout, a cancellation and a disconnection race for one
query, whose slot is then used again.  HTTP/1 and HTTP/2 servers and clients;
SCTP and socket helpers.

### Data (`src/container*`, `src/arith`, `src/asn1`, `src/iop`, `src/iopc`, strings, dates)

Hash tables with incremental resize, red-black trees, heaps, rings, vectors;
integer and float scanning; BER/PER codecs; IOP packers, JSON, YAML, XML and
OpenAPI converters; the IOP compiler; string, date, number conversions, UTF-8
and GSM tables; compression; hashing and ciphers.

## 2. The models

One step of a model is one access to shared memory, or a stretch of code that
touches shared memory once.  Steps of different threads interleave freely.
Memory is sequentially consistent in the models: the effects of `relaxed`,
`acquire` and `release` orders beyond that are not modelled.  Data is reduced
to what the properties tell apart: a job is a number or a model value, a syn is
the number of the job it belongs to, a thread's position is its `pc`.

| module | code | state | actions |
|---|---|---|---|
| `ThrDeque` | deque of one thread, `thr-job.blk` | `top`, `bot`, entries, each thread's locals | one per access in `thr_syn_schedule`, `thr_job_dequeue`, `thr_job_try_steal`, `thr_run_deque_entry` |
| `ThrQueue` | serial queue | `tail`, `next`, `running_on`, the queue's `run` job, callers' and drains' places | `thr_syn_queue`, `thr_queue_sync`, `thr_queue_run`, `thr_queue_drain`, `thr_queue_destroy` |
| `SerialQueue` | what a serial queue promises | jobs queued, started, running | queue, start, finish |
| `ThrEvc` | `thr-evc.c` | `key`, `waiters`, the futex's sleepers, an amount of work | look at the work, get, wait, timeout, post, signal, broadcast |
| `Mpsc` | `thr-mpsc.h` | `tail`, `next`, free nodes | push, drain, pop, looks_empty |
| `Fifo` | what a queue promises | a sequence of nodes | push, pop |
| `ThrMain` | main queue and thread 0 | queue, `thr0_cur_ec_g`, the eventfd, the syn waited for | post, sync, `thr_wakeup_thr0`, `thr_on_el`, drain, `thr_syn_wait_until_flags` |
| `ThrSyn` | `thr_syn_t` | `pending`, `refcnt`, `ec.key` | prepare, run, done, wait, timed wait, wait for a condition, wipe |
| `ThrTd` | thread data | the tagged `head`, `next`, the pointer of the wipe; `stack`, a history variable, the thread data on the stack in order | acquire, release, collect, wipe, one step for each thread data it frees |
| `ThrPool` | the pool | target, counts, generation, infos, deques, sleepers | `thr_job_main`, `thr_fork_threads`, enter/exit of blocking calls, waits |
| `ElWake` | wake events, `el.blk` | eventfd, `wakeup_count` | fire, read and call back, unregister |
| `Qheap` | the heap of `container-qheap.h` | an array of nodes, their keys | insert, remove, fix-up after a change of key; up and down as recursive functions |
| `ElTimers` | timers, `el.blk` | the clock, the heap, each timer, the ones to collect, the stack of loops | register, restart, unregister, one pass of `el_timer_process` cut at its callbacks, which may nest |
| `ElFds` | descriptor events | events, the list `_G.fired` with its real links, the array of `epoll_wait`, the stack of loops | register, unregister, mark fired, poll, the passes by priority, callbacks and nested loops |
| `ElChild` | children | processes, the table by pid, the pending signal, batches being fired | fork (`ifork`, or `fork` that the library does not see), death, the hook of the parent, register, unregister, the signal's handler and the hook that reaps |
| `ElFsWatch` | inotify watches | the kernel's watches and queue, the table by descriptor, what is being processed | register, unregister, file events, read, process |
| `Modules` | module manager | states, who requires whom, the stack of calls under way, callbacks cached for methods | require, constructor returns or fails, release, shutdown, run a method, hard shutdown |
| `Dlist` | `container-dlist.h` | none: operators on the links of nodes, for `ElFds` and `MemRing` | |
| `MemRing` | ring pool | the ring of blocks by its links, the frames with their data and marks, the walk under way for a block | newframe, alloc, realloc, seal, release, reset, delete; the walk of `frame_get_next_blk`, with its reads and writes of links apart |
| `MemFifo` | fifo pool | pages, the current and the spare one, live blocks | alloc, free, realloc, delete |
| `MemStack` | stack pool | the list of blocks, the stack of frames | push, alloc, realloc, pop |
| `Qps` | paged store | maps in memory, handles, the files of the directory and what of them is durable, the snapshot under way | alloc, free, write, gc, snapshot step by step, open, close, crash, power failure |
| `IcQueue` | `msg_list` of a channel | the list and `last_normal_prio_msg` | queue, pop, pop and put back, the filter of a BYE, cancel all |
| `Ic` | a channel | connection, queries by slot, lists, counts, what is in flight both ways, the peer | query, reply, cancel, timeout, read, write, BYE, connect, disconnect |

The library is one machine cut at its interfaces.  A module that uses another
one keeps only the part of its state that the upper level can see, and says so
in its header: `ThrMain` sees an MPSC queue as one of four phases (the one
between exchange and link included), `ThrMain` and `ThrSyn` see an event count
as its key (a wait with an old key returns), `ThrPool` sees a deque as a set of
jobs and the event count as the set of threads whose key is current.  That
these views are right is what `Mpsc` (against `Fifo`), `ThrEvc` and `ThrDeque`
check below them.  `ThrQueue` keeps the whole of the MPSC queue, because its
property depends on how the two protocols interact.

The event loop's modules share a shape: `frames` is the stack of loops under
way (innermost first, in `ElChild` last), each with what is left of its pass; a callback is the time
between the step that calls it and `...Returns`, and the user's operations are
enabled outside of all loops and in callbacks.

Two modules are abstract specifications.  `ThrQueue` implements `SerialQueue`
(`Refines`): `nstart` and `npush` say which jobs have started, the job running
is the node of the thread inside a job.  `Mpsc` implements `Fifo` (`IsFifo`, a
part of `Delivers`): the queue is the chain of nodes from the oldest one not yet
consumed, where the links that pushers still have to store are taken as stored.
`ElTimers` uses `Qheap`'s operators on its own heap.

What the models take from outside: the futex (a compare and a sleep in one
step; a wake takes one sleeper or all; a wait with a timeout may return at any
time), the eventfd (a write adds, a read sets it to zero), `epoll_wait` (returns
any set of descriptors that are registered), the kernel's processes and inotify
queue, a file system in which the changes of a directory that were not synced
may be there or not after a power failure, one by one, and a peer that answers queries in any order, says
BYE, or goes away.

### How users are constrained

Operations are called in any order with these exceptions, taken from the
interfaces' comments: only thread 0 waits on behalf of the event loop; nobody
queues on a serial queue after `thr_queue_destroy`; jobs of a syn are queued by
its owner before it waits or from inside another job of the syn; the thread
that waits for a condition has queued the job that makes it true; nobody fires
an event that is being unregistered; a frame of the ring is sealed before it is
released; frames of the stack are popped in order; `el_has_pending_events` is
called outside of callbacks; an event marked fired in an earlier pass is not
unregistered before it is marked again (section 5); a channel is disconnected from the loop or by its
peer, and by `ic_bye` from callbacks.

## 3. The runs

Components that do not interact are checked in one run, each alone: a variable
`which`, chosen in the initial state, says which one is at hand, the others
keep their initial values, and a property of a component is the property of its
module.  In `MCSafe` the components are instantiated over shared variables
`v1`, `v2`... (one component at a time gives them its meaning), so that the
states stay small.  `MCLive` joins fairness conditions of different components
into one: only one of them can be enabled in a behaviour.  `ThrPool` chooses one
of its `Loads` in the same way.

| run | instance | shows |
|---|---|---|
| `jobs` | deque: 2 thieves, 2 entries, 3 jobs. Main queue: 2 producers, 4 posts, waits from the loop and from a job | no job lost, run twice, or run with another's syn; a steal that reports "empty" is right; every job runs by the owner's progress alone. No dangling event count; posts run and waits return when wake-ups do not overlap |
| `queue` | 2 callers, 2 more threads, 3 jobs, destroy | mutual exclusion, order (refinement of `SerialQueue`), deletion last; jobs run, syncs return, destroy deletes |
| `pool` | parallelism 2, threads 0..4; one wait with expiry, or two waits one inside the other, or a shutdown with jobs that schedule others | one thread per info, freed after it; enough threads; no stall; jobs run, also at the shutdown, which ends |
| `syn` | 3 jobs, 2 waiters, one of which may wait for a condition | memory freed last, a wait means done, assertions, the wipe ends |
| `live` | queue of 3 producers and 3 nodes; 3 threads and 5 fires, each read before the next; 3 processes, loops nested twice; 2 watches, 3 events in the kernel's queue; a channel with 1 query, 1 of the peer, 1 connection | `Mpsc` implements `Fifo`, stores into no freed node and all is consumed; `el_wake_unregister` waits for firers, and ends; a child's event fires once, when its process has died; the table of watches leads to live events and unregistered watches are freed; a channel that said BYE closes |
| `safe` | see below | the safety of sixteen instances |
| `queue_end`, `main_stall`, `wake_unread`, `fds_fired`, `ic_queue_len`, `ic_order` | smallest instances | the findings of section 5 |

The instances of `safe`, with what each shows:

| instance | bounds | property |
|---|---|---|
| event count | 3 waiters (1 timed), 2 posters (1 broadcasts), 1-bit futex word | `NoLostWakeup` |
| thread data | 2 threads, 3 thread data, 4 sequence numbers that wrap | `TdsAccounted`: one owner or on the stack, once; freed when not owned |
| modules | 3 modules, 2 dependencies each, 1 request, calls nested twice; 2 modules, 2 requests, calls nested three times | `LoadedAsRequired`: what a loaded module depends on is loaded, what nobody requires is not, and only a release takes a require back; `MethodsFresh`: methods call the loaded modules, in order |
| ring | 4 blocks of 2 units, or 2 blocks of 3 units and allocations of 2 sizes | `RingSound`: the blocks stay in one ring, live frames do not overlap, released ones are merged and given back, a dead pool is freed, with releases during the walk that `mem_ring_seal` makes without the lock |
| fifo | 3 pages, 3 blocks, sizes below, at and above a page | `BlocksDisjoint`, `NoPageLost` |
| stack | 4 blocks, 4 frames | `FramesKept`: no frame's data is touched by those above it |
| heap | 5 nodes, 3 keys, fan-out 2 | `HeapOrder` |
| timers | 3 timers, 3 kinds, nested twice | `DeadlinesMet`: after a pass nothing due is left; `HeapOrder` |
| descriptors | 2 events, both may be marked, 3 registrations, nested twice | `NoStaleFire`: no callback of an unregistered event; `FiredListSound` |
| store | an object, or a page of the user; 4 generations, one crash or power failure | `Recoverable`: the directory always loads as the last snapshot |
| channel's list | 4 messages | `QueueSound`: by priority until the channel closes, and `last_normal_prio_msg` is in the list |
| channel | 2 queries of 3 kinds over 2 connections, or 3 queries with a timeout over one; 2 slots | `AnswerMatches`: an answer goes to the query that asked, though slots are reused; `CalledOnce` |

### Bounds

The third job on a deque of two entries meets the limit, or reuses the entry
of the first one, which a slow thief may still read.  Three jobs on a serial
queue are enough for a drain that has just closed the queue to be overtaken by
a second one while a third call is under way.  (Both are proved for any
number.)  The futex word of one bit cycles
after two signals, which is the case the comment in `thr_ec_timedwait` rules
out between its test and the futex call: the model lets the word cycle
everywhere but there, as the comment does (the proof has the same assumption
in the guard of the signal).  Nodes of `Mpsc` are freed and used again without
bound, so its state space is finite with no bound on the pushes.  In `ThrTd`
the sequence number wraps at 4 instead of 65536, without bound on the number of
changes of the head; what is bounded is the number of changes during one loop of
a thread, below the number of sequence numbers, and with one more
`TdsAccounted` fails.  In `ThrPool` the target reaches its maximum when every
thread blocks once.  With four blocks of a header and a unit of data, a release
moves blocks from between two frames to the place where a walk is, while a block
is still left to create.  A module required twice is released once and kept.  Two slots and three queries, over two
connections in turn, let an answer find the slot of its query used again.
Loops nested twice have an outer pass cut by an inner one that itself calls
back.

Larger instances of the components of `safe` were explored once, without a
violation: complete for the ring with 4 blocks of 3 units (2.2 million states),
the heap with 6 nodes and fan-out 4, the store with 2 objects or 3 crashes (1.2
million and 760,000), the page of the user with 3 crashes and 5 generations, 5
messages in the channel's list (470,000), the channel with 3 queries of 3 kinds
or with a query of the peer over 2 connections (830,000 and 1.2 million), timers
up to time 5, descriptors with 4 registrations or with loops nested three times
(1.6 and 7.8 million),
modules with calls nested three times (6.6 million); partial for the fifo with 5
pages and 5 blocks (7.3 million) and the stack with 5 blocks and 5 frames (6
million).

Symmetry is used in `safe` only, which has no liveness.  No run checks for
deadlock: the systems stop when their bounded work is done, or the user's.

### Fairness

Weak fairness of a thread in the middle of a call: the kernel runs it again.
No fairness for beginning an operation: nobody has to schedule, post, fire,
steal, fork, register or destroy anything.  Beyond this: the owner
of a deque comes back to dequeue, as the loop of `thr_job_main` does; a thread
of the pool runs `q->run` when it is scheduled (what `ThrPool` shows); a job
that queues more jobs of its queue ends in the end, though each queueing
disables the end for a while (strong fairness of the end of a job in
`ThrQueue`); `epoll_wait` returns in `ThrPool`.  In the event loop the
outermost loop keeps turning and callbacks return, though a nested loop
disables their return for a while (strong fairness).  In `Ic` timers fire, the
socket takes in the end all that is to be written (strong fairness of the write
that empties the lists), and both sides answer what they are asked.

## 4. What is proved

For every value of the constants (threads, entries, jobs, width of the futex
word, pages, watches...).  The assumptions are that sizes are positive, that sets
that are counted are finite and that special values are apart: they are the
`ASSUME`s named `...Assumption` of the modules that a run extends, and hypotheses
of the theorems (`TdConstants`, `FifoConstants`, `StackConstants`,
`ChildConstants`, `QueueConstants`, `IcConstants`, `IsFiniteSet(Firers)`) for the
modules that a run instantiates; `MCSafe` and `MCLive` assume the ones named
`...Constants` for their instances.  Each inductive invariant was first checked by TLC on a small
instance.

* `ThrDequeProofs`: `TypeCorrect`, `NeverTwice`, `NothingLost`, `OwnSyn`,
  `EmptyIsTaken`.
  `RunAtMostOnce` is not inductive: it depends on who may claim an entry.  The
  inductive invariant says what the owner's place tells of `top` and `bot`
  (`OwnerInv`: inside `thr_job_dequeue` `bot` is one low, and `top` may pass it
  by one), that a thief whose compare-and-swap can still succeed saw a job that
  is still there (`ThiefInv`), that live positions and claims are in entries of
  their own (`EntryInv`, the reason why `thr_syn_schedule` may reuse an entry
  whose job is NULL), and that a job is in one entry at most with its own syn
  (`JobInv`).  The counters are mathematical integers: the code's unsigned
  counters compare by `(int)(bot - top)`, which agrees as long as a stale
  `top` is less than 2^31 behind.
* `ThrQueueProofs`: `TypeCorrect`, `MutualExclusion`, `KnowsItsQueue`,
  `NoAssertFails`, `DeletedAtEnd`, `Implements`.
  The invariant is about a token (`TokenInv`): a queue that is not empty has
  exactly one of a push that found it empty, a `q->run` in a deque, or a drain.
  `ChainInv` and `LinkInv` say which node the holder sees next and that every
  missing link has a pusher about to store it; `OwnerInv` ties `running_on` to
  the drain, or to one that has just ended and may still give it back;
  `WipeInv` makes `q->destroy` the last node.  `Implements` maps every step to
  a step of `SerialQueue` or to a stutter.
* `LoopProofs`, on four modules.
  `ThrEvc`: `TypeCorrect`, `CountsWaiters`, `NothingSleptOn`.
  `HeldInv`: a thread that holds the current key since before its last look at
  the work, while work is left, owes that to a poster that has not yet
  incremented the key.  `KeyInv`: between the test and the futex call, a key is
  less than a cycle of the low word behind.
  `ThrMain`: `EcNeverDangles` (`NoDanglingEc`), `EcNeverLost`.  The pointer to
  the event count is a token (`OneToken`): while thread 0 waits it is in
  `thr0_cur_ec_g` or with exactly one producer, and otherwise nowhere.
  `ElWake`: `NotClosedInFire` (`NoCloseInFire`), for users who wait until a fire
  is read before the next (`Paced`; finding 3 is what happens otherwise).
  `WakeCounted`: `wakeup_count` is the unread write, less the threads that are
  inside `el_wake_fire`, plus the read that is not yet counted.
  `ElFsWatch`: `WatchesAlwaysKnown` (`WatchesKnown`), without nested loops
  (`MaxNest = 1`; with them it is false).  In the sequence of the events being
  processed and those in the kernel's queue, `IN_IGNORED` is the last event of
  its watch (`IgnoredLast`), and every event is of a watch in the table
  (`EventsLive`).
* `LifeProofs`, on two modules.
  `ThrSyn`: `FreeIsLast` (`NoUseAfterFree`), `CountsAreSound`
  (`CountsSound`), `FreedIsUntouched` (the action property that no step changes
  a syn that was freed).  `CountInv`: `pending` counts the jobs that have been
  prepared and not done, `refcnt` the jobs and waiters between their retain and
  their release, and the owner's own reference.  `ParentInv` says that a job is
  prepared while its parent runs or before the owner waits, so that `pending`
  stays at zero once a waiter has read it there (`QuietInv`); `PlaceInv` that
  the wipe comes last, and `UntilInv` that the job a condition waits for was
  prepared before the wait.
  `ElChild`: `ChildsAlwaysSound` (`ChildsSound`), for callbacks that leave the
  other events of their batch alone and run no loop when their event was
  registered dead (`~Careless`).  A live event can be found (`FoundInv`): in the
  table, in the list of those registered dead, in a batch about to be fired or
  in its callback.  An entry of the table leads to a live event (`EventInv`),
  and batches of different loops have no event in common (`FrameInv`): this is
  why the hook of a nested loop cannot fire an event of an outer one.
* `ListProofs`, on two modules.
  `ThrTd`: `AllTdsAccounted` (`TdsAccounted`).  `stack` is what the links
  from `head` lead through (`Linked`).  `OwnInv` puts each thread data in one place: on
  the stack, or with one thread.  `SeqInv` is the
  argument about the sequence number: if a thread's copy of the head has the
  current number, and fewer than `NbSeq` changes were made since it was read,
  the head has not changed, hence neither has what is below it, and the `next`
  the thread has read is right.  `WipeInv`: the wipe walks down the part of the
  stack that it has not freed.  That the number does not cycle during one loop
  is in the guard of the compare-and-swap, as in the run.
  `IcQueue`: `ShortcutSound` (`QueueSound`).  The order of the list depends on
  where the shortcut points: the invariant (`QueueInv`) adds that until the
  filter of a BYE the shortcut is a message of normal priority, so that what
  follows it is not of higher priority.
* `MemProofs`: `FifoBlocksDisjoint` (`BlocksDisjoint`), `FifoNoPageLost`
  (`NoPageLost`).  Disjoint blocks are not enough for `mfp_realloc`, which grows
  the last block of a page in place: the invariant adds that every block either
  ends before `last` or is the block at `last` and ends where the used part of
  the page does (`Placed`).  The count of a page is the number of its blocks
  (`Counted`), the page kept aside is empty (`Aside`), and after the deletion of
  the pool every page left has a block (`Dying`).
* `MemStackProofs`: `StackFramesKept` (`FramesKept`).  That the frames are apart
  does not say why the blocks after the current one may be destroyed.  The
  invariant (`Sound`) orders the units along the list of blocks: the cursor of a
  frame is not after the header of the frame above it, which is before the data
  of that frame, which is before its own cursor.  Every block after the cursor of
  the top frame is then free, and a move of the frame to one of them keeps the
  order.
* `IcProofs`: `AnswersMatch` (`AnswerMatches`), `CallbackOnce` (`CalledOnce`).
  That an answer finds its query is a fact about slots and about the peer:
  `SlotInv` says that `queries` and the slots of the live queries agree,
  `PeerInv` that a query at the peer, or whose answer is on its way, keeps its
  slot until the answer is read, and that each is answered once.  A timeout or a
  cancellation therefore must not free a slot, except for a query that was not
  sent, which is what `ListInv` tells apart: a query is queued, in the vector of
  `ic_write` or at the peer, and in one of them only.  `MsgInv` counts the
  callbacks: one if the query is canceled or over, none before.

Only model-checked: every liveness property (out of reach of the prover), and
the safety of these modules: `Qheap` and `ElTimers`, whose sifts are recursive
operators; `Mpsc`, whose queue below `Fifo` is the recursive
chain of links (`ThrQueueProofs` has the same protocol by positions);
`ThrPool`, whose `Staffed` holds for the loads of the run and not for all
(section 5); `ElFds`, `Modules`, `MemRing` and `Qps`,
whose invariants have not been found in inductive form.  In the modules without
proofs the comments of the declarations say what the variables hold.

## 5. Findings

1. `queue_end`: `thr_queue_drain` gives `running_on` back with a
   compare-exchange after it has closed the queue; another drain may have
   deleted the queue in between.
2. `main_stall`: a producer that finds `thr0_cur_ec_g` taken for a moment by
   another one wakes the event loop, while thread 0 goes to sleep on the event
   count.  `Calm` in `ThrMain` is the condition under which this does not
   happen, and `CalmWaitReturns` the guarantee that is left.
3. `wake_unread`: `wakeup_count` counts fires up and reads down, but one read
   may take several fires, or leave one unread: `el_wake_unregister` may then
   close the eventfd under a thread that is still in `el_wake_fire`.
4. `fds_fired`: a pass over the events marked fired empties the list's head and
   leaves its events linked to each other; the unregistration of one of them
   later relinks its stale neighbours.  In `safe` an event whose links are those
   of an earlier list is not unregistered before it is marked again (`Careless`
   is FALSE, `Apart` in `ElFds`), and the list is then sound.
5. `ic_queue_len`: a query that is cancelled, then times out, is taken off
   `queue_len` twice; a disconnection does not touch the count.  `ByeCloses`
   excuses channels whose counts are wrong.
6. `ic_order`: after the filter of a BYE `last_normal_prio_msg` is the head of
   the list and not its last message of normal priority; the next such message
   goes before messages of high priority.

`PROJECT.json` has the line and the comment each one disagrees with.  More
limits of what holds, which the runs exclude and no document speaks of:

* A wait of thread 0 made from a job of the main queue does not drain that
  queue (`mpsc_queue_looks_empty` says yes during a drain), so it must not
  depend on jobs posted there.  `Calm` excludes it; with `WaitFrom = {"job"}`,
  `WaitReturns` fails.
* A thread that expires clears `alive` only in `thr_info_cleanup`; a
  `thr_fork_threads` between its decision and that store counts on it.  With
  three jobs that wait one inside the other, `expire |-> TRUE`, `els |-> 1` and
  `MaxId = 5`, `NoStall` fails; the stall ends when thread 0 next raises the
  target.
* `thr_shutdown` while a job waits for others (`waits` and `shut` both TRUE in a
  load of `ThrPool`): the target goes back to `thr_parallelism_g`, so that the
  assertion of `thr_exit_blocking_syscall` fails; `ShutdownEnds` fails, as the
  job may wait for one in its own deque that nobody steals any more; and
  `FreedLast` fails, as the job's `thr_fork_threads` revives a thread that the
  walk has passed.
* `mem_ring_seal` looks for a block without `rp->lock` (`mem-ring.c:494`), while a
  release by another thread, with the lock, may move blocks to the place of the
  walk (`mem-ring.c:612`).  `MemRing` has these steps interleaved.  A release
  that moves blocks between the reads and the writes of links of one list
  operation of the walk (`Racing`) breaks `RingSound`: `blk_create` has read the
  block after the current one, the release splices blocks between the two, and
  the writes of `blk_create` leave them out of the ring, where nobody frees them.
  `safe` has `Racing = FALSE`; everywhere else in the walk a release may come,
  and `RingSound` holds.
* The event of a process that the hook of `SIGCHLD` has reaped before the
  registration stays in `_G.childs` and fires at the next `SIGCHLD`, if there is
  one: `waitpid` in `el_child_register_d` fails for it (`el.blk:797`).  A
  process made by `ifork` cannot be in this case when it is registered before the
  loop runs again, as `el_spawn_child` does.  `ElChild` has it (`Stranded`), and
  `ChildFires` then asks for the event to fire only if a signal is pending.
* A frame of the ring released before it is sealed may leave `rp->pos` in a
  later frame, and the next `mem_ring_newframe` panics.
* A callback that runs a loop inside a pass over watches may see `IN_IGNORED`
  before earlier events of the same watch (`MaxNest = 2` in `ElFsWatch`); one
  that unregisters another child of the same batch meets an assertion
  (`Careless` in `ElChild`).
* The heap of timers is broken by low-resolution repeating timers whose first
  delay is longer than their period.
* A process that opens a store between the fork of a snapshotter and its lock,
  or before the last sync of one that was killed, may leave a directory that
  does not load (`Orphan` and `Eager` in `Qps`).
* `thr_syn_wipe` reads the stack of thread data before it waits for the
  references (`thr-job.blk:1347`): what jobs give back in between is not freed.
* `el_has_pending_events` called from a callback leaves polled events whose
  `ev_t` the outermost loop recycles (`el.blk:1903`); a timer that fires once is
  called again by a loop run in its own callback (`el.blk:1118`).
* A destructor that runs a method still calls the module being shut down
  (`module.c:412`); `MethodsFresh` allows it.
* `unlockdir` removes `.lock` before closing it (`unix.blk:363`), so two
  processes may each hold a lock; generations of the store are compared modulo
  2^32 (`qps.blk:2691`).  Neither is in the models.

`hazards` in `PROJECT.json` has the principal hazards of the code at their
lines, with the properties that cover them; a note says what is not covered.
It is not exhaustive: the limits above complete it.

## 6. What is not modelled

* Thread library: weak memory orders; `thr_for_each`, whose slices are
  arithmetic; the single-producer queue, which nothing in the library uses; the
  reload of the pool in a forked child.
* Event loop: hooks before and after the loop, idle, signals, proxies and
  blockers (lists of handles walked by one thread); `el_fds_loop`,
  `el_fd_watch_activity`, `el_fd_set_mask`; the wrap of the 8-bit generation
  that tells a pass from a nested one.
* Allocators: the checkpoints of the ring, which nothing uses; the reset of an
  idle stack pool; the bypass to libc under valgrind.
* Store: `qps_backup`, `qps_snapshot_wait`, the growth of objects, the remapping
  of pages, stores of even generations, two processes that open one store, the
  tries and bitmaps above it.
* Channels: the set-up of a connection (names, TLS, versions), the NOP that
  keeps a channel alive (it has no effect on what the properties speak of),
  proxies and hooks of queries, local channels, servers, a disconnection asked
  from a callback; a peer that answers a slot it was not asked (the connection is
  then closed, `rpc-channel.blk:1102`).
* HTTP and HPACK: state machines over byte streams, each a project of its own.
* Packers, parsers, converters, ciphers, compression, string functions and
  containers without concurrency (functions of data at sizes TLC cannot
  enumerate), the IOP compiler and the command-line tools, the test framework,
  plain I/O, logs.
