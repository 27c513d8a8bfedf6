----------------------------- MODULE TaskQueue -----------------------------
(***************************************************************************)
(* queue::task::TaskQueue (src/queue/task.cpp): the queue workers block    *)
(* on.  A bounded lock-free queue backed by an unbounded locked one holds  *)
(* the tasks; m_count, big_spin_count and a futex on the high half of      *)
(* m_count decide who sleeps and who is woken.                             *)
(*                                                                         *)
(* Each access to an atomic, a lock's critical section and each futex call *)
(* is one step.  The two inner queues are counted, not listed: which task  *)
(* is handed out never matters here (FreeLockQueue answers that).  A call  *)
(* on limit_queue may fail although there is room or an item, as           *)
(* BoundedFifo allows; otherwise it claims a position and may then sleep   *)
(* on the version of its slot (free_lock.cpp:69-83, 116-130), so its claim *)
(* and its return are two steps.  Failed attempts to dequeue change        *)
(* nothing shared, so the qf_spin_cycle attempts of try_get show as one.   *)
(***************************************************************************)
EXTENDS Integers, FiniteSets

CONSTANTS
    Producers,     \* threads that call enqueue
    Workers,       \* threads that call wait_dequeue again and again
    Capacity,      \* of limit_queue; FreeLockQueue's AssertItem needs two slots
    MaxTasks,      \* bound: enqueue calls of all producers
    MaxMisfires    \* bound: calls on limit_queue that fail without need

ASSUME CapacityAssumption == Capacity \in Nat \ {0, 1}
ASSUME BoundAssumption == MaxTasks \in Nat /\ MaxMisfires \in Nat
ASSUME ThreadAssumption ==
    IsFiniteSet(Producers) /\ IsFiniteSet(Workers) /\ Producers \cap Workers = {}

Threads == Producers \cup Workers

VARIABLES
    limit_queue,     \* number of tasks in the lock-free queue
    unlimit_queue,   \* number of tasks in the locked queue
    inner_size,      \* its approximate size, kept outside the lock
    m_count,
    big_spin_count,
    pc,
    waiting,         \* is spin_hold called from wait (or from wait_dequeue)?
    old,             \* locals old_count / cur_count
    made,            \* enqueue calls so far (for the bound)
    misfires,        \* needless failures so far (for the bound)
    signalled,       \* history: tasks that signal() has counted
    taken            \* history: tasks handed to a worker

queues == <<limit_queue, unlimit_queue, inner_size>>
bounds == <<made, misfires>>
history == <<signalled, taken>>
vars == <<queues, m_count, big_spin_count, pc, waiting, old, bounds, history>>

Init ==
    /\ limit_queue = 0 /\ unlimit_queue = 0 /\ inner_size = 0
    /\ m_count = 0 /\ big_spin_count = 0
    /\ pc = [t \in Threads |-> "idle"]
    /\ waiting = [w \in Workers |-> FALSE]
    /\ old = [t \in Threads |-> 0]
    /\ made = 0
    /\ misfires = 0
    /\ signalled = 0 /\ taken = 0

Go(t, from, to) == pc[t] = from /\ pc' = [pc EXCEPT ![t] = to]

\* The futex on high_m_count, whose value is 0 exactly when m_count >= 0.
Sleepers == {w \in Workers : pc[w] = "asleep"}

\* FUTEX_WAKE of at most n sleepers by t, which goes on at label to.
Wake(t, from, to, n) ==
    /\ pc[t] = from
    /\ \E woken \in SUBSET Sleepers :
          /\ Cardinality(woken) = (IF Cardinality(Sleepers) < n
                                   THEN Cardinality(Sleepers) ELSE n)
          /\ pc' = [s \in Threads |-> IF s = t THEN to
                                      ELSE IF s \in woken THEN "recount"
                                      ELSE pc[s]]

(***************************************************************************)
(* enqueue: inner_enqueue, then signal                                     *)
(***************************************************************************)
\* Mutant: limit_queue takes a task although it is full.
TryEnqueue_Unbounded(p) ==
    /\ Go(p, "idle", "fill")
    /\ made < MaxTasks
    /\ made' = made + 1
    /\ limit_queue' = limit_queue + 1
    /\ UNCHANGED <<unlimit_queue, inner_size, m_count, big_spin_count, waiting,
                   old, misfires, history>>

\* try_enqueue claims a position of the ring ...
TryEnqueue(p) ==
    /\ Go(p, "idle", "fill")
    /\ made < MaxTasks
    /\ made' = made + 1
    /\ limit_queue < Capacity
    /\ limit_queue' = limit_queue + 1
    /\ UNCHANGED <<unlimit_queue, inner_size, m_count, big_spin_count, waiting,
                   old, misfires, history>>

\* ... and returns when its slot was free and it has filled it.
Filled(p) ==
    /\ Go(p, "fill", "signal")
    /\ UNCHANGED <<queues, m_count, big_spin_count, waiting, old, bounds, history>>

\* try_enqueue returns false: the queue is full, or the call misfires.
EnqueueRefused(p) ==
    /\ Go(p, "idle", "push")
    /\ made < MaxTasks
    /\ made' = made + 1
    /\ limit_queue < Capacity => misfires < MaxMisfires
    /\ misfires' = IF limit_queue < Capacity THEN misfires + 1 ELSE misfires
    /\ UNCHANGED <<queues, m_count, big_spin_count, waiting, old, history>>

\* UnLimitQueue::try_enqueue: the push under the lock, the size after it.
Push(p) ==
    /\ Go(p, "push", "grow")
    /\ unlimit_queue' = unlimit_queue + 1
    /\ UNCHANGED <<limit_queue, inner_size, m_count, big_spin_count, waiting,
                   old, bounds, history>>

Grow(p) ==
    /\ Go(p, "grow", "signal")
    /\ inner_size' = inner_size + 1
    /\ UNCHANGED <<limit_queue, unlimit_queue, m_count, big_spin_count, waiting,
                   old, bounds, history>>

\* Mutant: the test on the old count is off by one.
Signal_Strict(p) ==
    /\ Go(p, "signal", IF m_count < 0 THEN "sig_spin" ELSE "idle")
    /\ m_count' = m_count - 1
    /\ signalled' = signalled + 1
    /\ UNCHANGED <<queues, big_spin_count, waiting, old, bounds, taken>>

\* signal: count the task; a positive old count means a worker is looking.
Signal(p) ==
    /\ Go(p, "signal", IF m_count <= 0 THEN "sig_spin" ELSE "idle")
    /\ m_count' = m_count - 1
    /\ signalled' = signalled + 1
    /\ UNCHANGED <<queues, big_spin_count, waiting, old, bounds, taken>>

SignalSpin(p) ==
    /\ Go(p, "sig_spin", IF big_spin_count = 0 THEN "sig_load" ELSE "idle")
    /\ UNCHANGED <<queues, m_count, big_spin_count, waiting, old, bounds, history>>

SignalLoad(p) ==
    /\ Go(p, "sig_load", IF m_count < 0 THEN "sig_wake" ELSE "idle")
    /\ UNCHANGED <<queues, m_count, big_spin_count, waiting, old, bounds, history>>

SignalWake(p) ==
    /\ Wake(p, "sig_wake", "idle", 1)
    /\ UNCHANGED <<queues, m_count, big_spin_count, waiting, old, bounds, history>>

enqueue(p) ==
    \/ TryEnqueue(p) \/ Filled(p) \/ EnqueueRefused(p) \/ Push(p) \/ Grow(p)
    \/ Signal(p) \/ SignalSpin(p) \/ SignalLoad(p) \/ SignalWake(p)

(***************************************************************************)
(* wait_dequeue                                                            *)
(***************************************************************************)
\* A worker without a task calls wait_dequeue, which calls spin_hold.
StartDequeue(w) ==
    /\ Go(w, "idle", "spin_in")
    /\ waiting' = [waiting EXCEPT ![w] = FALSE]
    /\ UNCHANGED <<queues, m_count, big_spin_count, old, bounds, history>>

\* spin_hold: only the first one in sleeps qf_sig_hold, which is mere delay.
SpinIn(w) ==
    /\ Go(w, "spin_in", "spin_out")
    /\ big_spin_count' = big_spin_count + 1
    /\ UNCHANGED <<queues, m_count, waiting, old, bounds, history>>

\* Where spin_hold returns to, with its result.
AfterHold(w, held) ==
    IF ~ waiting[w] THEN "count" ELSE IF held THEN "recount" ELSE "futex"

SpinOut(w) ==
    /\ Go(w, "spin_out", IF big_spin_count = 1 THEN "spin_load" ELSE AfterHold(w, FALSE))
    /\ big_spin_count' = big_spin_count - 1
    /\ UNCHANGED <<queues, m_count, waiting, old, bounds, history>>

\* Mutant: the last one out does not resend wake-ups.
SpinLoad_NoResend(w) ==
    /\ Go(w, "spin_load", AfterHold(w, TRUE))
    /\ UNCHANGED <<queues, m_count, big_spin_count, waiting, old, bounds, history>>

\* The last one out resends the wake-ups that signal() left to it.
SpinLoad(w) ==
    /\ Go(w, "spin_load", IF m_count + 1 < 0 THEN "spin_wake" ELSE AfterHold(w, TRUE))
    /\ old' = [old EXCEPT ![w] = IF m_count + 1 < 0 THEN m_count + 1 ELSE 0]
    /\ UNCHANGED <<queues, m_count, big_spin_count, waiting, bounds, history>>

SpinWake(w) ==
    /\ Wake(w, "spin_wake", AfterHold(w, TRUE), 0 - old[w])
    /\ old' = [old EXCEPT ![w] = 0]
    /\ UNCHANGED <<queues, m_count, big_spin_count, waiting, bounds, history>>

Count(w) ==
    /\ Go(w, "count", "try_limit")
    /\ m_count' = m_count + 1
    /\ UNCHANGED <<queues, big_spin_count, waiting, old, bounds, history>>

(* inner_dequeue *)

\* try_dequeue claims a position of the ring ...
TryDequeue(w) ==
    /\ Go(w, "try_limit", "drain")
    /\ limit_queue > 0
    /\ limit_queue' = limit_queue - 1
    /\ taken' = taken + 1
    /\ UNCHANGED <<unlimit_queue, inner_size, m_count, big_spin_count, waiting,
                   old, bounds, signalled>>

\* ... and returns with the item when its slot was filled.
Drain(w) ==
    /\ Go(w, "drain", "idle")
    /\ UNCHANGED <<queues, m_count, big_spin_count, waiting, old, bounds, history>>

DequeueRefused(w) ==
    /\ Go(w, "try_limit", "try_size")
    /\ limit_queue > 0 => misfires < MaxMisfires
    /\ misfires' = IF limit_queue > 0 THEN misfires + 1 ELSE misfires
    /\ UNCHANGED <<queues, m_count, big_spin_count, waiting, old, made, history>>

\* size_approx() > 0 on the unsigned size, which may lag and wrap.
TrySize(w) ==
    /\ Go(w, "try_size", IF inner_size # 0 THEN "try_pop" ELSE "wait")
    /\ UNCHANGED <<queues, m_count, big_spin_count, waiting, old, bounds, history>>

\* UnLimitQueue::try_dequeue: the pop under the lock, the size after it.
TryPop(w) ==
    /\ Go(w, "try_pop", IF unlimit_queue = 0 THEN "wait" ELSE "shrink")
    /\ unlimit_queue' = IF unlimit_queue = 0 THEN 0 ELSE unlimit_queue - 1
    /\ taken' = IF unlimit_queue = 0 THEN taken ELSE taken + 1
    /\ UNCHANGED <<limit_queue, inner_size, m_count, big_spin_count, waiting,
                   old, bounds, signalled>>

\* Mutant: the size is not updated after a pop.
Shrink_Forgotten(w) ==
    /\ Go(w, "shrink", "idle")
    /\ UNCHANGED <<queues, m_count, big_spin_count, waiting, old, bounds, history>>

Shrink(w) ==
    /\ Go(w, "shrink", "idle")
    /\ inner_size' = inner_size - 1
    /\ UNCHANGED <<limit_queue, unlimit_queue, m_count, big_spin_count, waiting,
                   old, bounds, history>>

(* wait *)

\* Tasks that nobody looks for are pending: undo and try again.
WaitCount(w) ==
    /\ Go(w, "wait", IF m_count < 0 THEN "recount" ELSE "spin_in")
    /\ m_count' = m_count - 1
    /\ waiting' = [waiting EXCEPT ![w] = TRUE]
    /\ UNCHANGED <<queues, big_spin_count, old, bounds, history>>

\* Mutant: a worker that does not sleep forgets to count itself again.
FutexWait_Uncounted(w) ==
    /\ Go(w, "futex", IF m_count >= 0 THEN "asleep" ELSE "try_limit")
    /\ UNCHANGED <<queues, m_count, big_spin_count, waiting, old, bounds, history>>

FutexWait(w) ==
    /\ Go(w, "futex", IF m_count >= 0 THEN "asleep" ELSE "recount")
    /\ UNCHANGED <<queues, m_count, big_spin_count, waiting, old, bounds, history>>

Recount(w) ==
    /\ Go(w, "recount", "try_limit")
    /\ m_count' = m_count + 1
    /\ UNCHANGED <<queues, big_spin_count, waiting, old, bounds, history>>

wait_dequeue(w) ==
    \/ StartDequeue(w) \/ SpinIn(w) \/ SpinOut(w) \/ SpinLoad(w) \/ SpinWake(w)
    \/ Count(w) \/ TryDequeue(w) \/ Drain(w) \/ DequeueRefused(w) \/ TrySize(w)
    \/ TryPop(w) \/ Shrink(w) \/ WaitCount(w) \/ FutexWait(w) \/ Recount(w)

Next ==
    \/ \E p \in Producers : enqueue(p)
    \/ \E w \in Workers : wait_dequeue(w)

Spec == Init /\ [][Next]_vars

(***************************************************************************)
(* Properties                                                              *)
(***************************************************************************)
ProducerPC == {"fill", "push", "grow", "signal", "sig_spin", "sig_load", "sig_wake"}
WorkerPC == {"spin_in", "spin_out", "spin_load", "spin_wake", "count", "try_limit", "drain",
             "try_size", "try_pop", "shrink", "wait", "futex", "asleep", "recount"}

\* Type correctness of the counters and locals of TaskQueue.
TypeOK ==
    /\ limit_queue \in 0 .. Capacity
    /\ unlimit_queue \in Nat /\ inner_size \in Int
    /\ m_count \in Int /\ big_spin_count \in Nat
    /\ pc \in [Threads -> {"idle"} \cup ProducerPC \cup WorkerPC]
    /\ waiting \in [Workers -> BOOLEAN]
    /\ old \in [Threads -> Int]
    /\ made \in 0 .. MaxTasks
    /\ misfires \in 0 .. MaxMisfires
    /\ signalled \in Nat /\ taken \in Nat

Pending == limit_queue + unlimit_queue

At(T, labels) == {t \in T : pc[t] \in labels}

\* m_count is exactly the workers that are looking for a task, plus the tasks
\* taken, minus the tasks signalled (task.cpp:29, 81, 86, 98, 112): no path
\* through wait_dequeue counts a worker twice or forgets it.
Looking == {"try_limit", "try_size", "try_pop", "wait"}
Accounted == m_count = Cardinality(At(Workers, Looking)) + taken - signalled

\* inner_size differs from the locked queue only by the pushes and pops whose
\* size update is still to come (lock.cpp:70-73, 79-81).
SizeLags ==
    inner_size = unlimit_queue - Cardinality(At(Producers, {"grow"}))
                               + Cardinality(At(Workers, {"shrink"}))

\* No lost wake-up: when every enqueue has returned and every worker that does
\* not sleep is away running a task or sits in the ring with one, nobody sleeps
\* while a task is queued.  The race of signal() with spin_hold() and
\* FUTEX_WAIT (task.cpp:28-65, 80-99) is what could break it.
NoLostWakeup ==
    /\ \A p \in Producers : pc[p] = "idle"
    /\ \A w \in Workers : pc[w] \in {"idle", "drain", "asleep"}
    /\ Sleepers # {}
    => Pending = 0

(***************************************************************************)
(* Liveness.  A thread inside a call keeps being scheduled, but nothing    *)
(* obliges the ring to let it go once it has claimed a position: that is a *)
(* premise.  No producer is obliged to start an enqueue, and no worker to  *)
(* come back for more: a task may run for as long as it likes.             *)
(***************************************************************************)
Fairness ==
    /\ \A p \in Producers : WF_vars(enqueue(p) /\ pc[p] \notin {"idle", "fill"})
    /\ \A w \in Workers : WF_vars(wait_dequeue(w) /\ pc[w] \notin {"idle", "drain"})

FairSpec == Spec /\ Fairness

\* Nobody sleeps in the ring for ever: FreeLockQueue's ClaimsComplete, which
\* holds for one producer and one consumer; with more of them the one wake-up
\* of free_lock.cpp:94 or 143 can go to the wrong sleeper.
RingReturns == \A t \in Threads : []<>(pc[t] \notin {"fill", "drain"})

\* As long as nobody sleeps in the ring for ever (the premise RingReturns),
\* whatever was enqueued is eventually handed to a worker, unless every worker
\* is away running a task: one long task never strands a queued one while
\* another worker sleeps (task.cpp:28-65, 80-99).
Drained ==
    RingReturns => (Pending > 0 ~> (Pending = 0 \/ \A w \in Workers : pc[w] = "idle"))
=============================================================================
