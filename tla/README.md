# A verification project for quiet_flow

quiet_flow runs graphs of tasks ("nodes") on a pool of worker threads. A node may
be added to a graph while the graph runs; it starts when the nodes it requires have
finished; a task that has to wait gives its worker away by switching coroutines.

This directory holds TLA+ models of the program, the TLC configurations that check
them, and proofs for TLAPS. `PROJECT.json` lists the runs, the correspondence of
every definition to source lines, the mutants that show each property can fail, the
findings, and the hazards the properties are aimed at. Line numbers below are of
the files in `src/` and `head/` of the repository.

## 1. Inventory

| Part | State | Operations | What is hard | What makes it correct |
|---|---|---|---|---|
| `free_lock::LimitQueue` (src/queue/free_lock.cpp) | six counters, ring `vec`, a version word per slot | `try_enqueue`, `try_dequeue`, `size_approx` | every step is a separate atomic access; claiming a position and owning its slot are different things; sleeping on a version word | one owner per slot, FIFO, bounded, no null pointer handed out, no sleeper forgotten |
| `task::TaskQueue` (src/queue/task.cpp) | the ring, an overflow queue, `m_count`, `big_spin_count` | `enqueue`, `wait_dequeue` | wake-ups are withheld while somebody spins and resent by the last spinner | `m_count` exact, no lost wake-up, every task handed out |
| lock queues (src/queue/lock.cpp) | ring or `std::queue` under a mutex, a size outside it | `try_enqueue`, `try_dequeue`, `size` | the size lags behind the queue | size off by the pending updates only |
| `Graph`, `Node` (src/graph.cpp, src/node.cpp) | status, wait counts, `fast_down_strams` bitmap and its copy, `down_streams`, lists of nodes and waiters | `create_edges`, `add_downstream`, `finish`, `block_thread_for_group`, `clear_graph` | edges are added while the required node finishes, partly without a lock; waiters race with the last node | runs after what it requires, exactly once, and eventually; waits wait; no access after release |
| limit graphs (`SelfQueue`, src/graph.cpp) | a ring of held-back nodes, `m_count` | `ready`, the limit branch of `Graph::finish` | a node handed over between two graphs must change both accounts; the ring can refuse on a stale look, and the refusal is an exception | at most `parallel` nodes at once, none forgotten |
| `ReuseNode`, `LambdaNode` (src/graph.cpp) | a pool of nodes | `get_from_pool`, `NodeDelete` | a node reused while its worker still touches it | no node in the pool is in use |
| `ScheduleAspect`, `BackNode` (src/aspect.cpp) | the yielded task, its context, the back node, `up_streams` | `require_node`, `wait_graph`, `check_circle` | the back node can run before the context is saved; a task goes on on another worker; the search for circles takes no lock, and `wait_graph` is not searched at all | a wait looks like a blocking call; a context is entered once, and only after it was left; no circle of `require_node` is missed that was there before the search |
| Executor (src/executor.cpp) | contexts and their status, a pool of stacks per thread | `swap_new_context`, `set_context`, `~Thread` | who deletes the context a worker came from; stacks that move between pools | no stack used by two threads, freed early or leaked |
| `Schedule` (src/schedule.cpp) | worker threads, the task queue, counters | `init`, `destroy`, `add_new_task`, `do_schedule`, `run_task` | end signals, ghost nodes, counters kept across migrations | every worker ends; a node runs from Initing to Recoverable |
| `FutureAspect` and the stand-in for folly | callbacks, a semaphore, an end node | `require_node(future)`, `then`, `ensure`, `setValue`, `get` | callbacks added while the value arrives; references to the requirer's stack frame | the value is delivered, the requirer returns, its frame is left alone |
| `LocalErrorRate` (src/error_rate.cpp) | a ring of bits | `record_error`, `record_success`, `error_cnt` | the index is read twice | count of the last n records |
| util, Semaphore, Metrics, TimeCost, libco | | | | |

How they interact: a client (a thread outside the pool, or a running task) calls
`Graph::create_edges`; a node with nothing to wait for is handed to
`Schedule::add_new_task`, that is, to the `TaskQueue`, which keeps it in a
`LimitQueue` or, when that refuses, in the overflow queue. A worker takes it
(`do_schedule`), runs it, and in `Node::finish` releases the nodes that were waiting
for it; one of them it keeps as its next task, the others go back to the queue.
`Graph::finish` releases the waiters of the graph when its count reaches zero. A
task that calls `require_node` or `wait_graph` hangs a back node on what it waits
for, leaves its stack and lets its worker go on in a new context; the worker that
later runs the back node enters the old one. A task that requires a future does the
same with an end node that the promise's thread creates.

## 2. Modules

| Module | Models | State and actions |
|---|---|---|
| `FreeLockQueue` | `free_lock::LimitQueue` | one variable per member, one function of threads per local; one action per atomic access or system call of `try_enqueue` (`E_...`) and `try_dequeue` (`D_...`). A mutex-free protocol is only as good as its smallest step, so nothing is merged except failed loads of a spin loop |
| `BoundedFifo` | the promise of `AbstractQueue` | the queue as a sequence; a call may fail without reason, as the ring's calls do |
| `FreeLockQueueProofs`, `TaskQueueProofs`, `FlowGraphProofs`, `FlowGraphEdgeProofs`, `LimitGraphProofs`, `CoroutineProofs`, `CheckCircleProofs`, `FutureBridgeProofs` | | inductive invariants and theorems (section 4). Each extends the module it is about; `FlowGraphEdgeProofs` continues `FlowGraphProofs` |
| `TaskQueue` | `task::TaskQueue` with `lock::UnLimitQueue` | inner queues as numbers of tasks; a call on the ring claims a position (`TryEnqueue`, `TryDequeue`), may then sleep in it, and returns (`Filled`, `Drain`); `misfires` bounds the failures of the ring that have no visible reason |
| `FlowGraph` | `Graph`, `Node`, `Schedule::run_task`, `block_thread_for_group` | nodes are numbers in the order of creation; a bitmap is the set of its bits; a list of waiters or downstreams is a sequence; the task queue is how often each node is in it |
| `LimitGraph` | `SelfQueue`, `Graph::ready`, both branches of `Graph::finish` | `m_count` and the ring of held nodes per limit graph; each access to `m_count`, and each access by which `LimitQueue::try_enqueue` accepts or refuses a node (`HoldRead`, `HoldLook`, `Hold`, `HoldThrows`), is an action, and so is the return of a call from its slot (`Put`, `Get`); the choice of the next task is one step, the `ready` calls it leads to are steps of their own. Released nodes come in the order of `Node::finish`: those with a bit, then those of the list |
| `TaskLife` | the promise of `require_node` and `wait_graph` | a task is ready, running, waiting or ended, and has a set of the tasks and graphs it still needs; a waiting task occupies no worker. A graph is no longer needed when it is notified, which may be later than its last task's end |
| `Coroutine` | `ScheduleAspect`, `BackNode`, `ExecutorContext`, `Thread`, `Schedule` from `init` to `destroy` | a context has a status, the place its code stands at and the locals that live on its stack; a worker has `context_ptr`, `context_pre_ptr`, its pool and `current_task`. `On(w)` is the stack worker w stands on, and every action of a worker is one of the code on that stack. A step goes from one access of shared state to the next |
| `CheckCircle` | `check_circle`, `do_check_circle` and the recording of `up_streams` | the set `*a_ptr` of each search, one action per round; waits by `require_node`, which searches and then records what it waits for, and by `wait_graph`, which does not search and records only its back node; addresses of back nodes, which may be used again |
| `FutureBridge` | `FutureAspect::require_node` on `folly::Future` and `Promise` | one record each for the future, the requirer, the promise's thread, the end node; one action per lock region or loop |
| `MC...` | | the names used by the configurations, and symmetry |

`BoundedFifo` is what connects the levels: `FreeLockQueue` is shown to implement
it, and `TaskQueue` assumes of its inner ring no more than it promises. It promises no
completion: a call that has its position may sleep on the version of its slot, and
nothing in `TaskQueue` or `LimitGraph` obliges the ring to let it go. `FlowGraph`
and `LimitGraph` assume of the task queue what `TaskQueue`'s `Drained` states.
`LimitGraph` takes from `FlowGraph` that an edge is released exactly once.
`Coroutine` takes from `FlowGraph` that a node becomes ready when the last of what it
requires ends, and implements `TaskLife`; `FutureBridge` takes from it that
`require_node({end_node})` returns when the end node has finished.

Names follow the source, its spelling included (`fast_down_strams`). Definitions
whose names have a suffix and whose comment begins with "Mutant" are altered copies
of an action; no specification uses them.

### What the models abstract

* Memory is sequentially consistent. The code's orderings are weaker in places
  (`relaxed` first tests; `memory_order_release` on loads).
* 64-bit counters are natural numbers, and `is_empty` / `is_full` are comparisons.
  The reader's `int` keeps its width, named `IntHalf` (2^31).
* `FUTEX_WAKE` releases `WakeCount` sleepers, chosen freely. Linux releases one for
  the count -1 the code passes.
* `usleep`, the length of spins, metrics and debug output are left out.
* `FlowGraph`: `run()` does nothing but take time; graphs are not limit graphs (`LimitGraph` has those); a
  graph's life ends with `clear_graph`, which is called when no other client is in a
  call. Decrements that one thread makes in a loop are one step (they commute with
  all others), and so are the three status writes before `run()`. Touching a
  released node is undefined in the code; the model goes on as if the memory were
  still there, and `NoDanglingNode` says whether it happens.

* `LimitGraph`: all limit graphs of a run have the same `parallel` and `queue_size`. The
  ring of held nodes has its counter `read` and the nodes with a position in it;
  `write_ahead` is their sum. That is exact until the ring first refuses a node:
  `write_missed` is zero until then, because only a refusal leaves a ticket to be
  returned. A refusal is an assertion failure (graph.cpp:25), an exception nobody
  catches, and the program ends with it. A node enters the ring when its position is
  claimed, and a worker knows its node when it claims one; the model lets `Get` come
  before the `Put` of the same node, which the code does not, so it has more behaviours.
  Waiters are left to `FlowGraph`.
* `Coroutine`: recording edges is one step; so is releasing what waited for the task
  (`Finish`), but the waiters of the graph are notified in a step of their own
  (`Notify`), because nodes and waiters may arrive in between. A queue of nodes is a
  set, and graphs are not limit graphs. Waits follow the order of tasks, so there are
  no circles (those are `CheckCircle`'s). `mapped` counts coroutine stacks; the one byte
  `thread_context` asks for is not one. `idle_worker_num` starts at the argument of
  `init`, and the threads are as many as that rounded up to a multiple of `Batch`, which
  is eight in the code.
* `CheckCircle`: a round of the search is one step: it reads `up_streams` of a whole
  level at once. `flag_node` and null pointers are left out. A graph is the set of tasks
  it gets in its life. `Reuse` says whether an allocator may give the address of a freed
  back node to a new one; it is `TRUE` in both runs, and an address that is not used
  again still looks freed, the luckiest outcome of the read of freed memory.
* `FutureBridge`: one callback of the client's may throw before the requirer's. The
  vectors of callbacks are read and appended without a lock, a data race; the model
  lets `setValue` see the callback or miss it. Nothing orders `setValue` after the
  registration; `prom.early` is a history variable that remembers when it came first.

## 3. Runs

Safety

| Run | Bounds | Shows |
|---|---|---|
| `FreeLockQueue_safety` | 3 producers, 2 consumers, 2 slots, 6 calls in all, 2 items | `SlotExclusive`, `AssertItem`, `Delivered`: four positions on two slots, so each slot is reused, and a writer waits for a reader and the other way round. `NoTicketLeaked`, `Bounded`: three threads between the first and the second test of the room for two. `ImplementsFifo`: refinement of `BoundedFifo`; an item enters when its position is claimed and leaves when a consumer claims it |
| `FlowGraph_safety` | 2 clients, 2 graphs, 3 nodes, 2 requirements per node, 2 workers, `fast_node_max_num` 2 | `RunsAfterRequired`, `ReadyOnce`, `NoDanglingNode` over every graph with these bounds, duplicate, null and self requirements included; the third node of a graph takes the slow path |

Liveness

| Run | Shows |
|---|---|
| `FreeLockQueue_live` | `ClaimsComplete`: with one producer and one consumer, eight calls in all, every claimed position is served |
| `TaskQueue_live` | 2 producers, 2 workers, 3 tasks, a ring of 2 (the least capacity that works), 1 misfire. Safety: `Accounted`, `SizeLags`, `NoLostWakeup`. `Drained`: provided nobody sleeps in the ring for ever (`RingReturns`), a queued task is handed out unless all workers are away. Two workers, so that one can spin while the other falls asleep; three tasks, so that the third overflows |
| `FlowGraph_live` | one client, two workers, three nodes of which one may be a waiter, the third on the slow path: `EveryNodeRuns` and `WaitReturns` |
| `LimitGraph_live` | a limit graph with `parallel` 1 and `queue_size` 2 and an unlimited one, 4 nodes with any requirements, 2 clients, 2 workers. Safety: `WithinLimit`, `HeldCounted`, and `HoldAccepted`: the assertion of graph.cpp:25 cannot fail before more than `queue_size + parallel` nodes have been dropped into the graph. All count, finished ones too: unfinished is not enough, since a finished node keeps its place until `try_dequeue`, and unrecovered is not either, since a thread that is held up between its look at `read` and its look at `write_ahead` is refused after `queue_size` others have been through the ring. Four nodes, so that the assertion does fail (with four, not with three), and two clients, so that it fails at the second look at `read` as well, one thread standing between the two looks while the other fills the ring. `fast_node_max_num` 2, so that a third node of a graph comes after those of other graphs. `NoneHeldForever`: unless the assertion fails, or somebody sleeps in the ring for ever, every node has run in the end |
| `Coroutine_live` | `init` for 1 worker, rounded up to 2 (`Batch` 2), 3 tasks in 2 graphs, up to 3 calls that wait, a pool of 1 stack, to the end of `destroy`. Safety: `StackExclusive`, `RunsItsTask`, `IdleExact` (the counter moves with the idle workers, below their number by the threads that were added), `NothingLeaked`, and the refinement `ImplementsTaskLife`: `require_node` returns when what it waits for has ended and not before, `wait_graph` when its graph is notified. Liveness: `TasksEnd`, `DestroyReturns`. Two workers, so that a back node runs on another worker than its task left; three waits, so that a task waits again after it moved, and both can be waiting while the third runs; a pool of one, so that it is both empty and full |
| `CheckCircle_live` | 3 tasks in 2 graphs, up to 2 requirements each, waits by `require_node` and `wait_graph`, 3 addresses of back nodes that are used again: `MissedOnlyByOverlap` (a circle is missed only if two of its tasks were in `require_node` at once or one is in `wait_graph`), `CheckReturns` (the search ends, unless tasks wait for each other already or a reused address leads it on). Three tasks, so that a circle can leave out the task that searches, one can lead through a task that only requires, and a wait on a graph of two is not a wait on a task |
| `FutureBridge_live` | every interleaving of one requirer (a task, or an outside thread), one `setValue` and one worker, with and without an exception in an earlier callback, `setValue` before, during and after the registration: `ValueDelivered` (the value is missing exactly when `setValue`'s loop began before the registration), `FrameAlive`, `RequirerReturns` |

Fairness is weak fairness of each thread while it is inside a call: the operating
system schedules it. Nobody is obliged to start a call. In `TaskQueue` a worker that
has taken a task is not obliged to come back, because a task may run for ever. A thread
that has a position in a ring is not obliged to return from it (`Filled` and `Drain` of
`TaskQueue`, `Put` and `Get` of `LimitGraph` have no fairness): it sleeps on a version
word until somebody wakes it, and the one wake-up of free_lock.cpp:94 and 143 may go to
another. That it does return is the premise `RingReturns` of `Drained` and
`NoneHeldForever`; `FreeLockQueue_live` shows it for one producer and one consumer. In
`FlowGraph` and `LimitGraph` a worker does take a task when there is one; that is
`Drained`, premise included. In
`Coroutine` a worker is scheduled whatever it stands on, and so is the main thread
inside `init` and `destroy`, but a client need not submit tasks nor stop; a task ends
after finitely many waits, because their number is bounded. In `CheckCircle` only the
search itself is fair, in `FutureBridge` nobody is obliged to call `setValue`. The
systems may stop, so deadlock is not checked; `NoLostWakeup` and the liveness
properties are about wrong stops.

### Disagreements with what the repository says

| Run | What it shows |
|---|---|
| `FlowGraph_wait_early` | the last node's finisher brings the count to zero (graph.cpp:54) and notifies later (55-61); a node created and a wait begun in between: the wait returns before that node has run |
| `FlowGraph_lost_bit` | two clients that name the same required node overwrite each other's bit (graph.cpp:432); one new node never runs. `FlowGraph_live` shows that with one client every node does |
| `CheckCircle_false_alarm` | 4 tasks and one address that is used again: the address of a freed back node, still in the `up_streams` of its task, is given to the back node of another task; the search runs on through it and the assertion of aspect.cpp:129 fails for a task that would not wait for itself |

### Premises that are necessary

Some properties hold in the runs above because their constants keep to a premise, or
because they name one. A premise can be dropped by changing the constants of the run or
the property, and TLC then shows what the code does without it:

| Premise | Without it |
|---|---|
| positions stay below 2^31 (`IntHalf` above `MaxCalls`) | the reader keeps a 64-bit version in an `int` (free_lock.cpp:71); with `FreeLockQueue_live`, `IntHalf = 2` and `WakeCount = 4`, `ClaimsComplete` fails: the reader of position 2 never recognises its item |
| one producer and one consumer per ring, for liveness: `ClaimsComplete` itself, and `RingReturns`, which `Drained` and `NoneHeldForever` name as their premise and which the fairness of the workers in `FlowGraph`, `LimitGraph` and `Coroutine` rests on | `FUTEX_WAKE` with a count of -1 wakes one thread (free_lock.cpp:143). With two producers in `FreeLockQueue_live` a reader and a writer sleep on the same word, the wrong one is woken and the other sleeps for ever. The program has many producers and consumers on one ring of 4096; what the liveness runs show of it is what follows if no such sleeper is forgotten |
| a worker that spins for a held node (graph.cpp:34) finds the one in the ring at last, for `NoneHeldForever` | `Take` is fair once the ring is not empty. `HeldCounted` says that a node is in the ring or on its way there, for every spinner |
| nobody waits on a graph that goes on being used, for `NoDanglingNode` | `Graph::down_streams` is never emptied (graph.cpp:56-57): with one client, one worker, 3 nodes and `MaxWaits = 1` a later finisher touches a waiter that has been released |
| no edges between two limit graphs, for `WithinLimit` | with `Limited = {l1, l2}` and no unlimited graph, a node of one graph returns a node of the other as next task uncounted (graph.cpp:134), and more than `parallel` of them run; `HeldCounted` and `HoldAccepted` do not need the premise (section 4) |
| `setValue` is not called before the callbacks are registered, for the value to be there | `then` and `onError` take no lock and do not look at `finish` (cpp3rd/folly_future.h:29-36), and the demo starts the answering thread first (demo.cpp:57-66, 88): the requirer then returns with a variable nobody has set. `FutureBridge_live` contains these behaviours; `ValueDelivered` says that there are no others without a value |
| circles were recorded before the search, for the absence of deadlock | two tasks that require each other at once both pass the check and wait for ever. `MissedOnlyByOverlap` says that among waits by `require_node` there is no other way |
| no circle goes through `wait_graph`, for the absence of deadlock | `wait_graph` checks nothing but that the graph is not the task's own (aspect.cpp:166-170), and its back node gets no `up_streams` (graph.cpp:254-290). A task that waits for a graph whose task then requires it is in a circle nobody sees, without any overlap; without `InWaitGraph` in `MissedOnlyByOverlap`, `CheckCircle_live` shows it |
| nobody waits in a circle yet, and no address in `up_streams` belongs to another task's back node, for the search to end | the search marks no nodes (aspect.cpp:83-102). It runs for ever on a circle that does not contain its task. And t1.up_streams keeps the freed back node b of an earlier wait; when b is given to the back node of t2, which requires t1, a search from t1 goes t1, b, t1, b without any circle of waits. `Deadlocked` and `Misled` in `CheckReturns` are these two; the second goes away with `Reuse = FALSE`. It takes four tasks: with `Tasks = {t1, t2, t3, t4}` and without `Misled` the property fails |

## 4. Proofs

Every theorem holds for all values of the constants that satisfy the assumptions named
in the modules, and those stated with it: any finite number of threads, nodes, tasks,
graphs and calls. The bounds (`MaxNodes`, `MaxCalls`, ...) only have to be numbers.
Each follows from an inductive invariant that TLC checked first on the runs' instances.

| Theorem | States | Further assumptions |
|---|---|---|
| `FreeLockQueueProofs`: `TypeCorrect`, `SlotsExclusive`, `AssertionHolds`, `DeliveredInOrder` | `TypeOK`, `SlotExclusive`, `AssertItem`, `Delivered` | `Capacity >= 2`, `IntHalf >= Capacity` |
| `NeverOverfull`, `TicketsReturned`, `RingIsFifo` | `Bounded`, `NoTicketLeaked`, the refinement `ImplementsFifo` | the same, and finitely many producers and consumers |
| `TaskQueueProofs`: `QueueTypeCorrect`, `CountIsExact`, `SizeOnlyLags`, `NoWakeupLost` | `TypeOK`, `Accounted`, `SizeLags`, `NoLostWakeup` | |
| `FlowGraphProofs`: `TypeCorrect`, `CountIsExact` | `TypeOK`; the count of a graph is the number of its nodes that have not left it | |
| `FlowGraphEdgeProofs`: `RequiredFirst`, `HandedOutOnce`, `NodesStayAlive` | `RunsAfterRequired`, `ReadyOnce`; no node of a client's graph is touched after its release | |
| `NoneDangles` | `NoDanglingNode` | `MaxWaits = 0`, the premise of section 3 |
| `LimitGraphProofs`: `HeldAreCounted`, `RingTakesHeld` | `HeldCounted`, `HoldAccepted` | `queue_size >= 2` |
| `LimitKept`, `TypesKept` | `WithinLimit`, `TypeOK` | always `NoLimitedEdges`: no node of a limit graph waits for a node of another, the premise of section 3 |
| `OneLimitGraph` | `WithinLimit`, `TypeOK` | one limit graph, any number of unlimited ones |
| `CoroutineProofs`: `TypeCorrect`, `StacksAreExclusive`, `WorkersRunTheirTasks`, `IdleIsExact`, `NothingIsLeaked` | `TypeOK`, `StackExclusive`, `RunsItsTask`, `IdleExact`, `NothingLeaked` | |
| `WaitsLikeACall` | the refinement `ImplementsTaskLife` | |
| `CheckCircleProofs`: `TypeCorrect`, `CirclesFound` | `TypeOK`, `MissedOnlyByOverlap`, with `Reuse` true or false | |
| `FutureBridgeProofs`: `BridgeTypeCorrect`, `ValueIsDelivered`, `FrameStaysAlive` | `TypeOK`, `ValueDelivered`, `FrameAlive` | |

### The ring

`Capacity >= 2` is necessary: a writer of position n leaves version n and a reader
leaves n + 1, so in a ring of one slot version n says both that position n - 1 was
emptied and that position n is filled, and a reader of n can take a slot that holds
nothing (with `Capacity = 1` `AssertItem` has a counterexample). `IntHalf >= Capacity`
says that an int can hold the capacity.

That two writers cannot own one slot depends on what the version word says, and what
it may say depends on who has claimed which position. `IInv` has distinct positions
(`DistinctOK`); what a version word may say (`FlagsOK`: position n is filled, or the
slot is free for n); that a word never runs ahead of an open claim and equals the
claimed version while a thread owns the slot (`WritersOK`, `ReadersOK`); and the item
on its way or in a published slot (`CarriedOK`, `StoredOK`). Two positions of one slot
are a whole round apart (`Gap`), so the versions "filled with n" and "free for m" never
coincide (`Versions`). This half does not use the tests on `is_full` and `is_empty`:
exclusivity and delivery rest on the versions alone.

The tests are what keeps the claims within the ring. A thread draws a ticket, tests it
with a missed counter it loaded before, and claims a position or gives the ticket back;
so the counter it tests with is stale. The invariant `Side`, stated once and used for
both sides, has a witness h: no ticket of h or above has passed the test; the claims
and the tickets below h keep to the limit; and each ticket from h on leaves room for
the claims and for all tickets below it. All a side has to know of the other is a limit
that only grows. `Bounded` and the refinement follow: the contents of the FIFO are the
window of the log between the two claimed counters, an enqueue is the claim of a
position below the limit, a dequeue the claim of one that is filled or being filled.

### The task queue

`Counted` keeps the counters exact: each is a sum over the threads by the place they
are at, and a step moves one thread (`NumMove`). `Covered` is the argument for the
wake-ups: while somebody sleeps, the tasks that were signalled and that nobody looks
for, -`m_count` of them, are no more than the threads on their way to look or to wake a
sleeper, unless a worker is inside `spin_hold`, which hides what `signal` leaves to it
until the last one out loads `m_count` again.

### The graph

`LifeInv` says where a node is. Its requirements are counted before it is committed,
afterwards its count only goes down, so it passes from one to zero once, and from then
on it is in one place at a time: in the queue, in the notified nodes or next task of one
worker, or its task (`Exclusive`). A count may go below zero: the waiters of a graph are
notified each time the graph's count reaches zero. `Release` tests for one, so that
releases nobody twice, and types have `Int` where that is so.

`EdgeInv` adds why a node is not released early. It accounts for each count edge by
edge: a reason to wait is a required node that `create_edges` has not looked at yet, an
edge by bitmap (in the bitmap of r, in a bitmap about to be stored there, or in the copy
that the finisher of r is going through), or an edge in `down_streams`. `Counts` says
that a node's count is at least the number of its open reasons, and `RequiredIsOpen`
that every required node that has not finished is one. At least, not exactly: a bit
that another client's store has overwritten (`FlowGraph_lost_bit`) leaves a count
without a reason, and its node is never released, which is a fault of another kind.

`CountIsExact` counts a graph's nodes from the call that creates them to the step that
takes them out of `wait_count`; a waiter's own graph holds that waiter and nobody else.
So a wait that reads zero sees a graph whose nodes so far have all finished.

### Limit graphs

`PlaceInv` says, as `LifeInv` does for the graph, that a node is released once and is in
one place from then on: in the task queue, in the ring of its graph, in the list of
nodes a thread still calls `ready` for, or `temp_node`, `next_task` or task of a worker.
Edges are recorded in one step here, so each count is exactly the number of unfinished
nodes it stands for (`WaitExact`, `GraphExact`).

On top of it the nodes of a graph are counted. Those that are let in (`CountedOf`) are
queued, in the ring, on their way into it, chosen as next task, or a task that has not
passed its place on. `CountExact` says that they are `m_count` + `parallel`. Among them
are the held ones (`HeldOf`: in the ring or on their way), and `HeldExact` says that those
are the count above zero and the nodes whose worker is about to take one out
(`TakersOf`). Each action moves at most two nodes in or out of these sets (`OneIn`,
`OneJoins`, `OneLeaves`), and the count by as much (`Counted`, `Balanced`).

The properties are ways of splitting these numbers. Running nodes are counted and not
held, so there are at most `parallel` of them. `HeldCounted` is `HeldExact`, with the
ring's length and threads in place of sets of nodes (`HeldSize`, `TakerSize`).

For `HoldAccepted` the nodes that were ever held back are counted (`Brought`: those taken
out of the ring, and the held ones) and those that were ever let in or held back
(`Come`). Whoever is held back finds a count of zero or more, that is, `parallel` nodes
that have a place and are not held, beside those held. So the first `Brought` to be
positive finds `parallel` others, and each further one adds itself: `Enough` says that
`Come` has at least `Brought` + `parallel` nodes. A refused thread has, at its second
look, seen `queue_size` positions given out (`ThrownFull`), however old its first look
is, and is held back itself, in no position. So more than `queue_size + parallel` nodes
have been dropped into the graph. No bound on the nodes that are unfinished or
unrecovered at the time would do: the stale look lets `queue_size` finished nodes count.

Only one step counts too little: in `Pass`, a worker whose graph holds nobody returns a
node of another graph as next task, and if that is a limit graph too, nobody has counted
the node there. That makes the counted nodes more than `m_count` + `parallel`, never
fewer (`NoneUncounted`), and leaves the held ones alone. So `CountInvariant`, and
`HeldCounted` and `HoldAccepted` with it, hold with any edges; the equality, `WithinLimit`
and the lower bound of `m_count` need `NoLimitedEdges`, a premise about what clients
require of `create_edges`.

### Coroutines

`ContextInv` says that each context that exists has one holder: a worker stands on it;
or a worker has just left it and is to mark or to delete it; or it is suspended, and a
back node names it. Context and back node name each other, and the place of a context's
code says what state its task is in. `Pools` counts stacks: those in the pools and those
of live contexts are the mapped ones, and a free context exists whenever one is needed
because there are as many as there can be workers and waits. `IdleExact` counts the
workers whose stack has no task: every step moves the place of one worker and the counter
by the same (`IdleStep`), so the difference at the start, the threads `init` added, stays
until `destroy` clears the counter. From `OneHolder` it follows that a context is entered
by one worker and only after it was left.

`WaitsLikeACall` adds that a task that runs is the task of a context (`Working`). Such a
context has a worker standing on it (`HasWorker`), and no two have the same: running
tasks are counted by workers, so the worker that `TaskLife` wants free for a task to go
on is there. `TaskLife`'s variables are functions of the node's status, of the place of the
code of its context, of what it still requires, and of the workers between the count of
graph.cpp:54 and the notifications of 55-61 (`life`, `needs`, `notifying`); every step is
a step of `TaskLife` or leaves them alone. What `TaskLife` promises of `wait_graph` is
what the code keeps: it returns when the graph is notified. The notification may be for
an earlier end of the graph than the one to come, and then tasks of the graph still run
when `wait_graph` returns; `FlowGraph_wait_early` has such a behaviour step by step.

### The search for circles

A chain is a set of waiting tasks, none of them in `wait_graph`, through which what t is
going to wait for leads back to t, or into a circle. `Searched` says that while t
searches, every chain of t's either
has two tasks that were in `require_node` at once, or has a node in the set the search
looks at next: a task of the chain, or the back node of one. A round moves that front
along the chain (`FrontMoves`), through back nodes as well, whose `up_streams` are the
nodes their task waits for (`Recorded`). A chain is closed behind the search only by a
task that was in `require_node` with t (`OtherSearched`). So a search that ends has met
every other chain, and what the last step of `require_node` closes is an overlap's doing
(`KnotStep`). A task in `wait_graph` is in no chain and its steps close none. Freed addresses
that are used again do not matter here: a stale entry of `up_streams` makes the search
see more than there is, never less.

### Futures

`BridgeInv` is a case analysis: for every place of the requirer, of `setValue`, of
`create_edges` and of the worker it says what the future, the frame and the end node
look like, and who still holds a reference to the frame.

### Only model-checked

* Liveness, which this prover does not handle: `ClaimsComplete`, `Drained`,
  `EveryNodeRuns`, `WaitReturns`, `NoneHeldForever`, `TasksEnd`, `DestroyReturns`,
  `CheckReturns`, `RequirerReturns`.
* `align_size` is compared with its reference definition (the least power of two that is
  not smaller) for 1 to 130, an assumption of `MCCoroutine` that TLC evaluates. What the
  proofs need of it, `CapacityAssumption` of `Coroutine` (the capacity is a number and
  not below the number of backup coroutines), TLC evaluates on the run's values: it is a
  fact about powers of two, which the provers cannot compute.
* That a disagreement is one: the counterexamples of section 3.

## 5. Not modelled

* Vendored libco assembly (its effect is in `Coroutine`), `Graph::dump`, `Metrics`,
  `TimeCost`, `StdOut`: they hold no state the program's behaviour depends on.
  `Semaphore::try_wait` and `timed_wait` have no caller. `size_approx` of the ring is
  read by nothing that is modelled.
* `ReuseNode` and `LambdaNode`: the pool is a `free_lock::LimitQueue`, and a node goes
  back to it only when its graph drops it, after `clear_graph` saw it Recoverable under
  its lock. Both halves are covered by `FreeLockQueue` and `FlowGraph`.
* `LocalErrorRate`: its constructor is private and nobody calls it.
* Root tasks (`add_root_task`): their `parent_graph` is null, which `finish2`
  dereferences, before the code that would delete them is reached; no caller in the
  repository uses them.
* Reuse of a graph after `clear_graph`, and a limit graph with `parallel >= 30`: the
  next step reads or writes memory that was never set up.
* Starvation of the overflow queue under a load that never ends: the instances have a
  bounded number of tasks.

## 6. Plan

Written: all modules of section 2, and the proofs of section 4.

Every invariant and refinement the passing runs check is stated by a theorem; the
liveness properties are not, because the prover handles neither fairness nor ENABLED.
What could be added is in section 5: reuse of a graph after `clear_graph` once the code
resets `node_num`, and a measure for the starvation of the overflow queue.
