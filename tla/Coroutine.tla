----------------------------- MODULE Coroutine -----------------------------
(***************************************************************************)
(* Tasks that wait inside a worker: ScheduleAspect and BackNode            *)
(* (src/aspect.cpp), ExecutorContext and Thread (src/executor.cpp), and    *)
(* the life of a worker from Schedule::init to Schedule::destroy           *)
(* (src/schedule.cpp).                                                     *)
(*                                                                         *)
(* A task that has to wait leaves its context (a coroutine: a stack and    *)
(* the place it stands at) and its worker goes on in a new one.  The back  *)
(* node, released like any node by what the task waits for, makes the      *)
(* worker that runs it drop its own context and enter the task's.          *)
(*                                                                         *)
(* A step goes from one access of shared state to the next.  How the edges *)
(* of nodes and graphs are kept and released is FlowGraph's subject: here  *)
(* a node has the set of what it still waits for, finish() takes itself    *)
(* out of these sets, and the task queue is a set.  Graphs are not limit   *)
(* graphs.  Tasks only wait for tasks with a smaller number (CheckCircle   *)
(* is about circles), and each ends when it has waited often enough.       *)
(***************************************************************************)
EXTENDS Integers, FiniteSets

CONSTANTS
    worker_num,          \* the argument of Schedule::init
    Batch,               \* threads come in multiples of it; the code says 8
    Workers,             \* the threads
    Graphs, GraphOf,     \* the graph each task belongs to
    MaxNodes,            \* bound: tasks
    MaxWaits,            \* bound: calls of require_node and wait_graph that wait
    backup_coroutines    \* stacks in a thread's pool

Tasks == 1 .. MaxNodes
BackNodes == MaxNodes + 1 .. MaxNodes + MaxWaits
Nodes == Tasks \cup BackNodes
Coroutines == 1 .. Cardinality(Workers) + MaxWaits
Contexts == Workers \cup Coroutines       \* a worker's own is its thread_context
nullptr == 0

\* init_work_thread rounds worker_num up.
ASSUME WorkerAssumption ==
    /\ worker_num \in Nat \ {0} /\ Batch \in Nat \ {0}
    /\ Cardinality(Workers) = ((worker_num + Batch - 1) \div Batch) * Batch

ASSUME CoroutineAssumption ==
    /\ IsFiniteSet(Workers) /\ Workers # {}
    /\ MaxNodes \in Nat /\ MaxWaits \in Nat /\ backup_coroutines \in Nat \ {0}
    /\ GraphOf \in [Tasks -> Graphs]
    /\ Workers \cap (Coroutines \cup Nodes \cup {nullptr}) = {}
    /\ Graphs \cap Nodes = {}

VARIABLES
    (* ExecutorContext *)
    c_status,        \* "none" when there is no such object
    c_pc,            \* where the code stands that has this stack
    c_task,          \* its local task of run_task
    c_notified,      \* its locals notified_nodes and next_task, as one set
    c_nodes,         \* nodes or graph, the argument of the call that waits
    c_back,          \* its local back_node
    (* Thread *)
    context_ptr, context_pre_ptr,
    stack_pool,      \* how many stacks it holds
    current_task,    \* ExectorItem::current_task_
    mapped,          \* coroutine stacks got by mmap and not given back
    (* Node *)
    status,
    waits,           \* what the node still waits for
    back_task,       \* BackNode
    back_run_context_ptr,
    (* Schedule *)
    queue,           \* the nodes in task_queue
    flags,           \* flag_nodes in task_queue
    idle_worker_num,
    m_pc, made       \* the main thread, and the tasks it has submitted

ctxVars == <<c_status, c_pc, c_task, c_notified, c_nodes, c_back>>
thrVars == <<context_ptr, context_pre_ptr, stack_pool, current_task, mapped>>
nodeVars == <<status, waits, back_task, back_run_context_ptr>>
schedVars == <<queue, flags, idle_worker_num, m_pc, made>>
vars == <<ctxVars, thrVars, nodeVars, schedVars>>

\* std::__lg, the place of the highest bit.
lg(n) == CHOOSE k \in 0 .. 29 : 2^k <= n /\ n < 2^(k + 1)
align_size(size) == IF 2^lg(size) = size THEN size ELSE 2^(lg(size) + 1)

capacity == align_size(backup_coroutines)      \* of a pool, a lock::LimitQueue

\* What align_size is for: the pool takes the stacks it is created with.
ASSUME CapacityAssumption == capacity \in Nat /\ backup_coroutines <= capacity

\* Schedule::init counts the workers it was asked for as idle, and starts the
\* threads.  Thread::Thread fills the pool.
Init ==
    /\ c_status = [x \in Contexts |-> "none"]
    /\ c_pc = [x \in Contexts |-> IF x \in Workers THEN "routine" ELSE "none"]
    /\ c_task = [x \in Contexts |-> nullptr]
    /\ c_notified = [x \in Contexts |-> {}]
    /\ c_nodes = [x \in Contexts |-> {}]
    /\ c_back = [x \in Contexts |-> nullptr]
    /\ context_ptr \in [Workers -> {nullptr}]
    /\ context_pre_ptr \in [Workers -> {nullptr}]
    /\ stack_pool = [w \in Workers |-> backup_coroutines]
    /\ current_task = [w \in Workers |-> nullptr]
    /\ mapped = backup_coroutines * Cardinality(Workers)
    /\ status = [n \in Nodes |-> "none"]
    /\ waits = [n \in Nodes |-> {}]
    /\ back_task = [b \in BackNodes |-> nullptr]
    /\ back_run_context_ptr \in [BackNodes -> {nullptr}]
    /\ queue = {} /\ flags = 0
    /\ idle_worker_num = worker_num
    /\ m_pc = "init" /\ made = 0

\* status < Finish, status >= Recoverable
Unfinished(n) == status[n] \in {"Initing", "Ready", "Running", "Yield"}
Alive(n) == status[n] \notin {"none", "Destroy"}

get_wait_count(g) == Cardinality({n \in Tasks : GraphOf[n] = g /\ Unfinished(n)})
pending_worker_num == Cardinality({n \in Nodes : Alive(n)})

\* The context whose stack worker w stands on.
On(w) == IF context_ptr[w] = nullptr THEN w ELSE context_ptr[w]

\* The worker's code is at from, and goes on at to on the same stack.
At(w, from) == c_pc[On(w)] = from
Go(w, from, to) == At(w, from) /\ c_pc' = [c_pc EXCEPT ![On(w)] = to]

(***************************************************************************)
(* ExecutorContext and Thread                                              *)
(***************************************************************************)
\* The pool is only used by its own worker, and by main at the end.
try_dequeue(w) == stack_pool[w] > 0 /\ stack_pool' = [stack_pool EXCEPT ![w] = @ - 1]

\* Mutant: a full pool takes one stack more.
try_enqueue_Over(w) ==
    stack_pool[w] <= capacity /\ stack_pool' = [stack_pool EXCEPT ![w] = @ + 1]

try_enqueue(w) == stack_pool[w] < capacity /\ stack_pool' = [stack_pool EXCEPT ![w] = @ + 1]

\* new ExecutorContext(COROUTINE_STACK_SIZE) by worker w: a stack of its
\* own pool, or a fresh one.
NewContext == CHOOSE y \in Coroutines : c_status[y] = "none"
get_stack(w) ==
    \/ try_dequeue(w) /\ UNCHANGED mapped
    \/ stack_pool[w] = 0 /\ mapped' = mapped + 1 /\ UNCHANGED stack_pool

\* ~ExecutorContext by worker w: the stack goes into its pool if there is
\* room.
put_stack(w) ==
    \/ try_enqueue(w) /\ UNCHANGED mapped
    \/ stack_pool[w] = capacity /\ mapped' = mapped - 1 /\ UNCHANGED stack_pool

\* Mutant: the context is forgotten instead of deleted.
delete_context_Forgotten(w, x) == UNCHANGED <<c_status, c_task, stack_pool, mapped>>

delete_context(w, x) ==
    /\ c_status' = [c_status EXCEPT ![x] = "none"]
    /\ c_task' = [c_task EXCEPT ![x] = nullptr]
    /\ put_stack(w)

\* Leave context x, which will go on at resume, for a new one that starts
\* in jump_in_schedule.
swap_new_context(w, x, resume) ==
    LET y == NewContext IN
    /\ context_pre_ptr' = [context_pre_ptr EXCEPT ![w] = x]
    /\ context_ptr' = [context_ptr EXCEPT ![w] = y]
    /\ get_stack(w)
    /\ c_pc' = [c_pc EXCEPT ![x] = resume, ![y] = "enter"]

\* Leave the present context for x without saving it.
set_context(w, x) ==
    /\ context_pre_ptr' = [context_pre_ptr EXCEPT ![w] = context_ptr[w]]
    /\ context_ptr' = [context_ptr EXCEPT ![w] = x]

(***************************************************************************)
(* A worker: Schedule::routine, jump_in_schedule, do_schedule, run_task    *)
(***************************************************************************)
\* The thread makes its thread_context and leaves it for a coroutine; it
\* will come back to it when it has got the end signal.
routine(w) ==
    /\ At(w, "routine")
    /\ c_status' = [c_status EXCEPT ![w] = "Ready", ![NewContext] = "Initing"]
    /\ swap_new_context(w, w, "ended")
    /\ UNCHANGED <<c_task, c_notified, c_nodes, c_back, current_task, nodeVars, schedVars>>

\* Only now may the context that was left be entered by others.
change_context_status(w) ==
    /\ Go(w, "enter", "loop")
    /\ c_status' = [c_status EXCEPT ![context_ptr[w]] = "Running",
                                    ![context_pre_ptr[w]] = "Yield"]
    /\ context_pre_ptr' = [context_pre_ptr EXCEPT ![w] = nullptr]
    /\ UNCHANGED <<c_task, c_notified, c_nodes, c_back, context_ptr, stack_pool, current_task,
                   mapped, nodeVars, schedVars>>

\* Mutant: after a switch the worker still names the back node.
set_current_task_Kept(w, n) ==
    current_task' = [current_task EXCEPT ![w] = IF @ \in BackNodes THEN @ ELSE n]

set_current_task(w, n) == current_task' = [current_task EXCEPT ![w] = n]

\* Mutant: a worker that goes on in a new context is not counted as idle.
idle_worker_add_Missed == UNCHANGED idle_worker_num

idle_worker_add == idle_worker_num' = idle_worker_num + 1

\* Mutant: a back node whose requirements finished meanwhile is not queued.
ready_Missed(n, left) == queue' = IF left = {} THEN queue \cup ({n} \ BackNodes) ELSE queue

\* Mutant: a node is queued as soon as one requirement has finished.
ready_Early(n, left) == queue' = IF Cardinality(left) < 2 THEN queue \cup {n} ELSE queue

\* The end of create_edges: nothing left to wait for.
ready(n, left) == queue' = IF left = {} THEN queue \cup {n} ELSE queue

Dequeue(w, n) ==
    /\ n \in queue
    /\ Go(w, "loop", "start")
    /\ queue' = queue \ {n}
    /\ c_task' = [c_task EXCEPT ![On(w)] = n]
    /\ idle_worker_num' = idle_worker_num - 1
    /\ UNCHANGED <<c_status, c_notified, c_nodes, c_back, thrVars, nodeVars, flags, m_pc, made>>

\* The end signal: jump_in_schedule returns to the thread_context of the
\* worker it runs on now.
EndSignal(w) ==
    /\ flags > 0 /\ At(w, "loop")
    /\ flags' = flags - 1
    /\ set_context(w, w)
    /\ UNCHANGED <<ctxVars, stack_pool, current_task, mapped, nodeVars, queue,
                   idle_worker_num, m_pc, made>>

\* set_current_task, Ready, resume(); BackNode::run calls itself
\* Recoverable at once.
Start(w) ==
    LET n == c_task[On(w)] IN
    /\ Go(w, "start", IF n \in BackNodes THEN "back" ELSE "run")
    /\ set_current_task(w, n)
    /\ status' = [status EXCEPT ![n] = IF n \in BackNodes THEN "Recoverable" ELSE "Running"]
    /\ UNCHANGED <<c_status, c_task, c_notified, c_nodes, c_back, context_ptr, context_pre_ptr,
                   stack_pool, mapped, waits, back_task, back_run_context_ptr, schedVars>>

\* The worker keeps one of those it has released as its next task.
Hand(w, notified) ==
    \E next \in IF notified = {} THEN {{}} ELSE {{m} : m \in notified} :
        /\ c_notified' = [c_notified EXCEPT ![On(w)] = next]
        /\ queue' = queue \cup (notified \ next)

\* Those that wait for r and for nothing else.
Released(r) == {m \in Nodes : waits[m] = {r}}
Release(r) == waits' = [m \in Nodes |-> waits[m] \ {r}]

\* Node::finish, and Graph::finish up to its count of nodes: the last node of
\* a graph has the waiters of the graph to notify yet.
Finish(w) ==
    LET n == c_task[On(w)]
        last == get_wait_count(GraphOf[n]) = 1
    IN
    /\ Go(w, "run", IF last THEN "notify" ELSE "recover")
    /\ status' = [status EXCEPT ![n] = "Finish"]
    /\ Release(n)
    /\ IF last
       THEN c_notified' = [c_notified EXCEPT ![On(w)] = Released(n)] /\ UNCHANGED queue
       ELSE Hand(w, Released(n))
    /\ UNCHANGED <<c_status, c_task, c_nodes, c_back, thrVars, back_task,
                   back_run_context_ptr, flags, idle_worker_num, m_pc, made>>

\* The waiters of the graph are notified, those that have come since the count
\* was zero among them.
Notify(w) ==
    LET g == GraphOf[c_task[On(w)]] IN
    /\ Go(w, "notify", "recover")
    /\ Release(g)
    /\ Hand(w, c_notified[On(w)] \cup Released(g))
    /\ UNCHANGED <<c_status, c_task, c_nodes, c_back, thrVars, status, back_task,
                   back_run_context_ptr, flags, idle_worker_num, m_pc, made>>

Recover(w) ==
    \E next \in IF c_notified[On(w)] = {} THEN {nullptr} ELSE c_notified[On(w)] :
        /\ Go(w, "recover", IF next = nullptr THEN "loop" ELSE "start")
        /\ status' = [status EXCEPT ![c_task[On(w)]] = "Recoverable"]
        /\ c_task' = [c_task EXCEPT ![On(w)] = next]
        /\ c_notified' = [c_notified EXCEPT ![On(w)] = {}]
        /\ idle_worker_num' = IF next = nullptr THEN idle_worker_num + 1 ELSE idle_worker_num
        /\ UNCHANGED <<c_status, c_nodes, c_back, thrVars, waits, back_task,
                       back_run_context_ptr, queue, flags, m_pc, made>>

(***************************************************************************)
(* A task that waits: require_node, wait_graph                             *)
(***************************************************************************)
NewBackNode(w, what) ==
    LET b == CHOOSE k \in BackNodes : status[k] = "none" IN
    /\ \E k \in BackNodes : status[k] = "none"
    /\ Go(w, "run", "edges")
    /\ status' = [status EXCEPT ![b] = "Initing"]
    /\ back_task' = [back_task EXCEPT ![b] = current_task[w]]
    /\ back_run_context_ptr' = [back_run_context_ptr EXCEPT ![b] = context_ptr[w]]
    /\ c_back' = [c_back EXCEPT ![On(w)] = b]
    /\ c_nodes' = [c_nodes EXCEPT ![On(w)] = what]
    /\ UNCHANGED <<c_status, c_task, c_notified, thrVars, waits, schedVars>>

\* Calls that find everything finished return at once and change nothing.
require_node(w, nodes) ==
    /\ nodes \subseteq 1 .. c_task[On(w)] - 1
    /\ \E n \in nodes : Unfinished(n)
    /\ NewBackNode(w, nodes)

wait_graph(w, g) ==
    /\ get_wait_count(g) # 0
    /\ \A n \in Tasks : GraphOf[n] = g => n < c_task[On(w)]
    /\ NewBackNode(w, {g})

\* sub_graph_.create_edges: from here on the back node may run, while its
\* task still stands on the context it is to enter.
CreateEdges(w) ==
    LET b == c_back[On(w)]
        left == {r \in c_nodes[On(w)] : IF r \in Graphs THEN get_wait_count(r) # 0
                                                      ELSE Unfinished(r)}
    IN
    /\ Go(w, "edges", "yield")
    /\ waits' = [waits EXCEPT ![b] = left]
    /\ ready(b, left)
    /\ UNCHANGED <<c_status, c_task, c_notified, c_nodes, c_back, thrVars, status, back_task,
                   back_run_context_ptr, flags, idle_worker_num, m_pc, made>>

YieldTask(w) ==
    /\ At(w, "yield")
    /\ status' = [status EXCEPT ![c_task[On(w)]] = "Yield"]
    /\ idle_worker_add
    /\ c_status' = [c_status EXCEPT ![NewContext] = "Initing"]
    /\ swap_new_context(w, back_run_context_ptr[c_back[On(w)]], "resumed")
    /\ UNCHANGED <<c_task, c_notified, c_nodes, c_back, current_task, waits, back_task,
                   back_run_context_ptr, queue, flags, m_pc, made>>

\* Mutant: the context is entered while its task may still stand on it.
CanEnter_Unchecked(x) == c_status[x] # "none"

CanEnter(x) == c_status[x] = "Yield"

\* BackNode::run, once the context has been left for good.
SwitchBack(w) ==
    LET b == c_task[On(w)]
        x == back_run_context_ptr[b]
    IN
    /\ At(w, "back")
    /\ CanEnter(x)
    /\ c_status' = [c_status EXCEPT ![x] = "Running"]
    /\ set_current_task(w, back_task[b])
    /\ set_context(w, x)
    /\ UNCHANGED <<c_pc, c_task, c_notified, c_nodes, c_back, stack_pool, mapped, nodeVars,
                   schedVars>>

\* The task goes on, maybe on another worker: it deletes the context the
\* worker came from, and with sub_graph_ the back node.
Resumed(w) ==
    LET b == c_back[On(w)] IN
    /\ Go(w, "resumed", "run")
    /\ delete_context(w, context_pre_ptr[w])
    /\ context_pre_ptr' = [context_pre_ptr EXCEPT ![w] = nullptr]
    /\ back_run_context_ptr' = [back_run_context_ptr EXCEPT ![b] = nullptr]
    /\ status' = [status EXCEPT ![c_task[On(w)]] = "Running", ![b] = "Destroy"]
    /\ c_back' = [c_back EXCEPT ![On(w)] = nullptr]
    /\ c_nodes' = [c_nodes EXCEPT ![On(w)] = {}]
    /\ UNCHANGED <<c_notified, context_ptr, current_task, waits, back_task, schedVars>>

(***************************************************************************)
(* The main thread: init, a client's create_edges and clear_graph, destroy *)
(***************************************************************************)
\* init_work_thread waits until every worker has left its thread_context.
init_work_thread ==
    /\ m_pc = "init" /\ m_pc' = "open"
    /\ \A w \in Workers : c_status[w] = "Yield"
    /\ UNCHANGED <<ctxVars, thrVars, nodeVars, queue, flags, idle_worker_num, made>>

create_edges(R) ==
    LET n == made + 1
        left == {r \in R : Unfinished(r)}
    IN
    /\ m_pc = "open" /\ made < MaxNodes /\ made' = n
    /\ R \subseteq 1 .. made
    /\ status' = [status EXCEPT ![n] = "Initing"]
    /\ waits' = [waits EXCEPT ![n] = left]
    /\ ready(n, left)
    /\ UNCHANGED <<ctxVars, thrVars, back_task, back_run_context_ptr, flags,
                   idle_worker_num, m_pc>>

\* The client has no more tasks and waits until it can release its own.
StopClient ==
    /\ m_pc = "open" /\ m_pc' = "clear"
    /\ UNCHANGED <<ctxVars, thrVars, nodeVars, queue, flags, idle_worker_num, made>>

clear_graph ==
    /\ m_pc = "clear" /\ m_pc' = "destroy"
    /\ \A n \in 1 .. made : status[n] = "Recoverable"
    /\ status' = [n \in Nodes |-> IF n \in 1 .. made THEN "Destroy" ELSE status[n]]
    /\ UNCHANGED <<ctxVars, thrVars, waits, back_task, back_run_context_ptr, queue, flags,
                   idle_worker_num, made>>

\* Mutant: one worker gets no end signal.
EndSignals_Short == Cardinality(Workers) - 1

EndSignals == 2 * Cardinality(Workers)

\* destroy: no node is left, then the end signals.
SendFlags ==
    /\ m_pc = "destroy" /\ m_pc' = "join"
    /\ pending_worker_num = 0
    /\ flags' = flags + EndSignals
    /\ UNCHANGED <<ctxVars, thrVars, nodeVars, queue, idle_worker_num, made>>

\* ~Thread: join, then both contexts and the pool.  After the last one destroy
\* clears the count.
Join(w) ==
    LET gone == {context_ptr[w], context_pre_ptr[w]}
        last == \A v \in Workers \ {w} : c_pc[v] = "joined"
    IN
    /\ m_pc = "join"
    /\ context_ptr[w] = w
    /\ c_status' = [x \in Contexts |-> IF x \in gone THEN "none" ELSE c_status[x]]
    /\ c_pc' = [c_pc EXCEPT ![w] = "joined"]
    /\ c_task' = [x \in Contexts |-> IF x \in gone THEN nullptr ELSE c_task[x]]
    /\ context_ptr' = [context_ptr EXCEPT ![w] = nullptr]
    /\ context_pre_ptr' = [context_pre_ptr EXCEPT ![w] = nullptr]
    /\ mapped' = mapped - stack_pool[w] - Cardinality(gone \cap Coroutines)
    /\ stack_pool' = [stack_pool EXCEPT ![w] = 0]
    /\ m_pc' = IF last THEN "done" ELSE "join"
    /\ idle_worker_num' = IF last THEN 0 ELSE idle_worker_num
    /\ UNCHANGED <<c_notified, c_nodes, c_back, current_task, nodeVars, queue, flags, made>>

do_schedule(w) ==
    \/ routine(w) \/ change_context_status(w) \/ EndSignal(w)
    \/ \E n \in Nodes : Dequeue(w, n)
    \/ Start(w) \/ Finish(w) \/ Notify(w) \/ Recover(w)
    \/ \E nodes \in SUBSET Tasks : require_node(w, nodes)
    \/ \E g \in Graphs : wait_graph(w, g)
    \/ CreateEdges(w) \/ YieldTask(w) \/ SwitchBack(w) \/ Resumed(w)

destroy == clear_graph \/ SendFlags \/ \E w \in Workers : Join(w)

Next ==
    \/ \E w \in Workers : do_schedule(w)
    \/ init_work_thread \/ StopClient \/ destroy
    \/ \E R \in SUBSET Tasks : create_edges(R)

Spec == Init /\ [][Next]_vars

\* Workers and the main thread inside init and destroy are scheduled; a
\* client need not submit anything, nor stop.
FairSpec ==
    /\ Spec
    /\ \A w \in Workers : WF_vars(do_schedule(w))
    /\ WF_vars(init_work_thread) /\ WF_vars(destroy)

(***************************************************************************)
(* Properties                                                              *)
(***************************************************************************)
Statuses == {"none", "Initing", "Ready", "Running", "Yield", "Finish", "Recoverable", "Destroy"}
Points == {"none", "routine", "enter", "loop", "start", "run", "edges", "yield", "back",
           "resumed", "notify", "recover", "ended", "joined"}

\* Types of all variables; a pool holds at most its capacity.
TypeOK ==
    /\ c_status \in [Contexts -> Statuses] /\ c_pc \in [Contexts -> Points]
    /\ c_task \in [Contexts -> Nodes \cup {nullptr}]
    /\ c_notified \in [Contexts -> SUBSET Nodes]
    /\ c_nodes \in [Contexts -> (SUBSET Tasks) \cup {{g} : g \in Graphs}]
    /\ c_back \in [Contexts -> BackNodes \cup {nullptr}]
    /\ context_ptr \in [Workers -> Contexts \cup {nullptr}]
    /\ context_pre_ptr \in [Workers -> Contexts \cup {nullptr}]
    /\ stack_pool \in [Workers -> 0 .. capacity]
    /\ current_task \in [Workers -> Nodes \cup {nullptr}]
    /\ mapped \in Nat
    /\ status \in [Nodes -> Statuses]
    /\ waits \in [Nodes -> (SUBSET Tasks) \cup {{g} : g \in Graphs}]
    /\ back_task \in [BackNodes -> Tasks \cup {nullptr}]
    /\ back_run_context_ptr \in [BackNodes -> Contexts \cup {nullptr}]
    /\ queue \subseteq Nodes /\ flags \in 0 .. 2 * Cardinality(Workers)
    /\ idle_worker_num \in worker_num - Cardinality(Workers) .. worker_num
    /\ m_pc \in {"init", "open", "clear", "destroy", "join", "done"}
    /\ made \in 0 .. MaxNodes

\* No stack is used by two threads, a context that may be entered (Yield)
\* has been left, and no context is deleted while a worker stands on it or
\* a back node is still to enter it (executor.cpp:119-139, aspect.cpp:44-56).
StackExclusive ==
    /\ \A v, w \in Workers : v # w => On(v) # On(w)
    /\ \A w \in Workers : context_ptr[w] \in Coroutines =>
          /\ c_status[context_ptr[w]] # "none"
          /\ c_status[context_ptr[w]] # "Yield"
    /\ \A b \in BackNodes : back_run_context_ptr[b] # nullptr =>
          c_status[back_run_context_ptr[b]] # "none"

\* Whatever worker it was moved to, code finds the node it works for in the
\* state the assertions of schedule.cpp:214, 223 and node.cpp:99, 121 ask
\* for, current_task names it, and its back node has not been freed.
RunsItsTask ==
    \A w \in Workers : LET n == c_task[On(w)] b == c_back[On(w)] IN
        /\ At(w, "start") => status[n] = "Initing"
        /\ c_pc[On(w)] \in {"run", "edges", "yield"} =>
              status[n] = "Running" /\ current_task[w] = n
        /\ c_pc[On(w)] \in {"edges", "yield"} => Alive(b)
        /\ At(w, "resumed") =>
              status[n] = "Yield" /\ current_task[w] = n /\ status[b] = "Recoverable"
        /\ At(w, "back") => status[n] = "Recoverable" /\ back_task[n] # nullptr
        /\ c_pc[On(w)] \in {"notify", "recover"} => status[n] = "Finish"

\* idle_worker_num_ is kept by do_schedule, require_node and wait_graph on
\* behalf of contexts that change workers, and still moves with the number of
\* workers that run no task.  It is below it by the threads that init adds to
\* those it was asked for: it stores its argument and rounds it up afterwards
\* (schedule.cpp:237-240, aspect.cpp:146, 189, schedule.cpp:84, 44-45).
IdleExact ==
    idle_worker_num =
        IF m_pc = "done" THEN 0
        ELSE Cardinality({w \in Workers :
                 c_pc[On(w)] \in {"routine", "enter", "loop", "ended", "joined"}})
             - (Cardinality(Workers) - worker_num)

\* When destroy() has returned every context is deleted, every stack has
\* gone back to the system, and no node is left.
NothingLeaked ==
    m_pc = "done" =>
        /\ mapped = 0
        /\ \A x \in Contexts : c_status[x] = "none"
        /\ pending_worker_num = 0 /\ queue = {}

\* Under weak fairness of the workers every task that was submitted ends,
\* through all its waits (aspect.cpp:107-202).
TasksEnd == \A n \in Tasks : status[n] = "Initing" ~> status[n] \in {"Recoverable", "Destroy"}

\* destroy() returns: each worker gets an end signal and goes back to its
\* own thread_context (schedule.cpp:141-152).
DestroyReturns == m_pc = "clear" ~> m_pc = "done"

\* A task on the way to its new context waits already.
life ==
    [n \in Tasks |->
        CASE status[n] = "none" -> "none"
          [] status[n] = "Initing" -> "ready"
          [] status[n] \in {"Finish", "Recoverable", "Destroy"} -> "ended"
          [] \/ status[n] = "Yield"
             \/ \E w \in Workers : At(w, "yield") /\ c_task[On(w)] = n -> "waiting"
          [] OTHER -> "running"]

needs ==
    [n \in Tasks |->
        waits[n] \cup UNION {waits[b] : b \in {k \in BackNodes : back_task[k] = n}}]

\* The tasks whose workers are between the count and the notifications.
notifying == {n \in Tasks : \E w \in Workers : At(w, "notify") /\ c_task[On(w)] = n}

Abs == INSTANCE TaskLife WITH NumWorkers <- Cardinality(Workers)

\* To its tasks the scheduler is TaskLife: require_node returns when what it
\* waits for has ended and not before, wait_graph when the graph is notified,
\* be it for an earlier end of the graph than the one to come, and no worker
\* runs two tasks (aspect.cpp:107-202, graph.cpp:53-62).
ImplementsTaskLife == Abs!Spec
=============================================================================
