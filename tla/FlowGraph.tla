----------------------------- MODULE FlowGraph -----------------------------
(***************************************************************************)
(* Graph, Node and Schedule::run_task (src/graph.cpp, src/node.cpp,        *)
(* src/schedule.cpp): clients drop nodes into graphs while workers run and *)
(* finish the nodes already there.                                         *)
(*                                                                         *)
(* A client is a thread outside the pool; a running task that builds a     *)
(* graph calls the same code.  Each access to a shared field outside a     *)
(* lock is a step, a critical section is a step.  Decrements that one      *)
(* thread makes in a loop are one step: they commute with every other      *)
(* thread's, and the nodes they bring to zero are that thread's own until  *)
(* it queues them.  Schedule::task_queue is the number of times each node  *)
(* is in it; TaskQueue shows that what is in it gets out.  Graphs are not  *)
(* limit graphs, and a node's run() does nothing but take time.            *)
(***************************************************************************)
EXTENDS Integers, Sequences, FiniteSets, SequencesExt

CONSTANTS
    Graphs,              \* the graphs the clients build
    Clients, Workers,    \* threads
    fast_node_max_num,   \* 63 in the code
    MaxNodes,            \* bound: nodes and waiters created in all
    MaxReqs,             \* bound: required nodes of one create_edges call
    MaxWaits             \* bound: block_thread_for_group calls in all

ASSUME BoundAssumption ==
    /\ MaxNodes \in Nat \ {0} /\ MaxReqs \in Nat /\ MaxWaits \in Nat
    /\ fast_node_max_num \in Nat
Nodes == 1 .. MaxNodes
nullptr == 0

\* block_thread_for_group puts its waiter into a local graph, one per client.
AllGraphs == Graphs \cup Clients

ASSUME NameAssumption == Graphs \cap Clients = {} /\ nullptr \notin AllGraphs

VARIABLES
    (* Node *)
    status, wait_count, parent_graph, node_id,
    fast_down_strams,        \* the bits that are set
    fast_down_strams_bak,
    down_streams,
    (* Graph *)
    g_wait_count,
    g_nodes,                 \* fast_nodes and nodes, by node_id
    g_down_streams,
    cleared,                 \* clear_graph has released the nodes
    (* Schedule and Semaphore *)
    task_queue,              \* how often each node is in the queue
    sema,                    \* NodeRunWaiter::sema of each client's waiter
    (* threads *)
    c_pc,
    new_node,                \* local of create_edges
    target,                  \* the graph of the call
    todo,                    \* the required nodes still to be looked at
    reg,                     \* the bitmap loaded by the |= of bit_map_set
    w_pc, task, notified_nodes, next_task,
    (* bounds and history *)
    made, waits,
    required                 \* nodes each node was told to run after

nodeVars == <<status, wait_count, parent_graph, node_id, fast_down_strams,
              fast_down_strams_bak, down_streams>>
graphVars == <<g_wait_count, g_nodes, g_down_streams, cleared>>
clientVars == <<c_pc, new_node, target, todo, reg>>
workerVars == <<w_pc, task, notified_nodes, next_task>>
boundVars == <<made, waits, required>>
vars == <<nodeVars, graphVars, task_queue, sema, clientVars, workerVars, boundVars>>

\* Bit 63, the flag no node uses.
fast_down_strams_bak_init == {fast_node_max_num}

\* Node() and create(): every node before it is built.
Node ==
    /\ status = [n \in Nodes |-> "Initing"]
    /\ wait_count = [n \in Nodes |-> 0]
    /\ parent_graph \in [Nodes -> {nullptr}]
    /\ node_id = [n \in Nodes |-> 0]
    /\ fast_down_strams = [n \in Nodes |-> {}]
    /\ fast_down_strams_bak = [n \in Nodes |-> fast_down_strams_bak_init]
    /\ down_streams = [n \in Nodes |-> <<>>]

Graph ==
    /\ g_wait_count = [g \in AllGraphs |-> 0]
    /\ g_nodes = [g \in AllGraphs |-> <<>>]
    /\ g_down_streams = [g \in AllGraphs |-> <<>>]
    /\ cleared = [g \in Graphs |-> FALSE]

Init ==
    /\ Node /\ Graph
    /\ task_queue = [n \in Nodes |-> 0]
    /\ sema = [c \in Clients |-> FALSE]
    /\ c_pc = [c \in Clients |-> "idle"]
    /\ new_node = [c \in Clients |-> nullptr]
    /\ target \in [Clients -> {nullptr}]
    /\ todo = [c \in Clients |-> <<>>]
    /\ reg = [c \in Clients |-> {}]
    /\ w_pc = [w \in Workers |-> "idle"]
    /\ task = [w \in Workers |-> nullptr]
    /\ notified_nodes = [w \in Workers |-> <<>>]
    /\ next_task = [w \in Workers |-> nullptr]
    /\ made = 0 /\ waits = 0
    /\ required = [n \in Nodes |-> {}]

Ended == {"Finish", "Recoverable", "Destroy"}      \* status >= Finish

\* A bitmap is the set of its bits.
bit_map_get(bit_map, bit) == bit < fast_node_max_num /\ bit \in bit_map
bit_map_set(bit_map, bit) ==
    IF bit < fast_node_max_num THEN bit_map \cup {bit} ELSE bit_map

\* The sequence of the elements of S in their order, the one in this set.
Ascending(S) ==
    {s \in [1 .. Cardinality(S) -> S] : \A i, j \in DOMAIN s : i < j => s[i] < s[j]}

bit_map_idx(bit_map) == Ascending({bit \in bit_map : bit < fast_node_max_num})

CGo(c, from, to) == c_pc[c] = from /\ c_pc' = [c_pc EXCEPT ![c] = to]
WGo(w, from, to) == w_pc[w] = from /\ w_pc' = [w_pc EXCEPT ![w] = to]

\* Its assertion on Initing is part of ReadyOnce.
add_new_task(n) == task_queue' = [task_queue EXCEPT ![n] = @ + 1]

ready(n) == add_new_task(n)

\* if (1 == node->sub_wait_count()) node->parent_graph->ready(node)
Release(n) ==
    /\ wait_count' = [wait_count EXCEPT ![n] = @ - 1]
    /\ IF wait_count[n] = 1 THEN ready(n) ELSE UNCHANGED task_queue

(***************************************************************************)
(* Graph::create_edges(node, required_nodes)                               *)
(***************************************************************************)
\* What a client may name: nodes whose creation has returned and that are
\* still alive, the new node itself, and nullptr.
Nameable(n) ==
    {r \in 1 .. made : /\ parent_graph[r] \in Graphs
                       /\ status[r] # "Destroy"
                       /\ \A c \in Clients : c_pc[c] # "idle" => new_node[c] # r}
    \cup {n, nullptr}

Requests(n) == UNION {[1 .. k -> Nameable(n)] : k \in 0 .. MaxReqs}

\* Mutant: the graph's count is raised for the first node only.
CountNode_Once(c, g, reqs) ==
    /\ CGo(c, "idle", "register")
    /\ ~ cleared[g]
    /\ made' = made + 1
    /\ new_node' = [new_node EXCEPT ![c] = made + 1]
    /\ target' = [target EXCEPT ![c] = g]
    /\ todo' = [todo EXCEPT ![c] = reqs]
    /\ required' = [required EXCEPT ![made + 1] = ToSet(reqs) \ {made + 1, nullptr}]
    /\ g_wait_count' = [g_wait_count EXCEPT ![g] = IF g_nodes[g] = <<>> THEN 1 ELSE @]
    /\ UNCHANGED <<nodeVars, g_nodes, g_down_streams, cleared, task_queue, sema,
                   reg, workerVars, waits>>

CountNode(c, g, reqs) ==
    /\ CGo(c, "idle", "register")
    /\ ~ cleared[g]
    /\ made' = made + 1
    /\ new_node' = [new_node EXCEPT ![c] = made + 1]
    /\ target' = [target EXCEPT ![c] = g]
    /\ todo' = [todo EXCEPT ![c] = reqs]
    /\ required' = [required EXCEPT ![made + 1] = ToSet(reqs) \ {made + 1, nullptr}]
    /\ g_wait_count' = [g_wait_count EXCEPT ![g] = @ + 1]
    /\ UNCHANGED <<nodeVars, g_nodes, g_down_streams, cleared, task_queue, sema,
                   reg, workerVars, waits>>

\* Under Graph::mutex_: the node gets its number and its place.
Register(c) ==
    LET n == new_node[c]
        g == target[c]
    IN /\ CGo(c, "register", IF todo[c] = <<>> THEN "ready" ELSE "count")
       /\ parent_graph' = [parent_graph EXCEPT ![n] = g]
       /\ node_id' = [node_id EXCEPT ![n] = Len(g_nodes[g])]
       /\ g_nodes' = [g_nodes EXCEPT ![g] = Append(@, n)]
       /\ UNCHANGED <<status, wait_count, fast_down_strams, fast_down_strams_bak,
                      down_streams, g_wait_count, g_down_streams, cleared,
                      task_queue, sema, new_node, target, todo, reg, workerVars,
                      boundVars>>

ReadyAtOnce(c) ==
    /\ CGo(c, "ready", "idle")
    /\ ready(new_node[c])
    /\ UNCHANGED <<nodeVars, graphVars, sema, new_node, target, todo, reg,
                   workerVars, boundVars>>

\* Mutant: the requirements are counted one short.
AddWaitCount_Short(c) ==
    /\ CGo(c, "count", "edge")
    /\ wait_count' = [wait_count EXCEPT ![new_node[c]] = @ + Len(todo[c]) - 1]
    /\ UNCHANGED <<status, parent_graph, node_id, fast_down_strams,
                   fast_down_strams_bak, down_streams, graphVars, task_queue, sema,
                   new_node, target, todo, reg, workerVars, boundVars>>

AddWaitCount(c) ==
    /\ CGo(c, "count", "edge")
    /\ wait_count' = [wait_count EXCEPT ![new_node[c]] = @ + Len(todo[c])]
    /\ UNCHANGED <<status, parent_graph, node_id, fast_down_strams,
                   fast_down_strams_bak, down_streams, graphVars, task_queue, sema,
                   new_node, target, todo, reg, workerVars, boundVars>>

(* Node::add_downstream, once per required node r == Head(todo[c]) *)

\* The call for r returns: on to the next required node.
NextEdge(c, from) ==
    /\ CGo(c, from, IF Len(todo[c]) = 1 THEN "idle" ELSE "edge")
    /\ todo' = [todo EXCEPT ![c] = Tail(@)]

\* parent_graph == node->parent_graph, and the new node is a fast one.
IsFast(r, n) ==
    /\ parent_graph[r] = parent_graph[n]
    /\ node_id[n] < fast_node_max_num

\* nullptr, the node itself, and a node that has ended hold nothing up.
EdgeHolds(c) ==
    LET r == Head(todo[c])
    IN r \notin {nullptr, new_node[c]} /\ status[r] \notin Ended

SkipEdge(c) ==
    /\ NextEdge(c, "edge")
    /\ ~ EdgeHolds(c)
    /\ Release(new_node[c])
    /\ UNCHANGED <<status, parent_graph, node_id, fast_down_strams,
                   fast_down_strams_bak, down_streams, graphVars, sema, new_node,
                   target, reg, workerVars, boundVars>>

TryEdge(c) ==
    /\ c_pc[c] = "edge" /\ EdgeHolds(c)
    /\ CGo(c, "edge", IF IsFast(Head(todo[c]), new_node[c]) THEN "bit_load" ELSE "push")
    /\ UNCHANGED <<nodeVars, graphVars, task_queue, sema, new_node, target, todo,
                   reg, workerVars, boundVars>>

\* bit_map_get: a bit that is set already means r was named twice.
BitLoad(c) ==
    LET n == new_node[c]
        r == Head(todo[c])
    IN /\ c_pc[c] = "bit_load"
       /\ \/ /\ bit_map_get(fast_down_strams[r], node_id[n])
             /\ CGo(c, "bit_load", "read_bak")
             /\ Release(n)
             /\ UNCHANGED reg
          \/ /\ ~ bit_map_get(fast_down_strams[r], node_id[n])
             /\ CGo(c, "bit_load", "bit_store")
             /\ reg' = [reg EXCEPT ![c] = fast_down_strams[r]]
             /\ UNCHANGED <<wait_count, task_queue>>
       /\ UNCHANGED <<status, parent_graph, node_id, fast_down_strams,
                      fast_down_strams_bak, down_streams, graphVars, sema, new_node,
                      target, todo, workerVars, boundVars>>

\* bit_map_set: |= on a plain long int loads and then stores.
BitStore(c) ==
    LET r == Head(todo[c])
    IN /\ CGo(c, "bit_store", "read_bak")
       /\ fast_down_strams' =
             [fast_down_strams EXCEPT ![r] = bit_map_set(reg[c], node_id[new_node[c]])]
       /\ reg' = [reg EXCEPT ![c] = {}]
       /\ UNCHANGED <<status, wait_count, parent_graph, node_id,
                      fast_down_strams_bak, down_streams, graphVars, task_queue, sema,
                      new_node, target, todo, workerVars, boundVars>>

\* Mutant: the bitmap r's finish() has read is not looked at again.
ReadBak_Trusting(c) ==
    /\ NextEdge(c, "read_bak")
    /\ UNCHANGED <<nodeVars, graphVars, task_queue, sema, new_node, target, reg,
                   workerVars, boundVars>>

\* Mutant: any finish() of r is taken to have missed the bit.
ReadBak_Always(c) ==
    LET r == Head(todo[c])
    IN /\ NextEdge(c, "read_bak")
       /\ IF fast_down_strams_bak[r] # fast_down_strams_bak_init
          THEN Release(new_node[c])
          ELSE UNCHANGED <<wait_count, task_queue>>
       /\ UNCHANGED <<status, parent_graph, node_id, fast_down_strams,
                      fast_down_strams_bak, down_streams, graphVars, sema, new_node,
                      target, reg, workerVars, boundVars>>

\* Under r's mutex_: if finish() took its bitmap without the bit, the new node
\* releases itself.
ReadBak(c) ==
    LET r == Head(todo[c])
        f_ == fast_down_strams_bak[r]
    IN /\ NextEdge(c, "read_bak")
       /\ IF f_ # fast_down_strams_bak_init /\ ~ bit_map_get(f_, node_id[new_node[c]])
          THEN Release(new_node[c])
          ELSE UNCHANGED <<wait_count, task_queue>>
       /\ UNCHANGED <<status, parent_graph, node_id, fast_down_strams,
                      fast_down_strams_bak, down_streams, graphVars, sema, new_node,
                      target, reg, workerVars, boundVars>>

\* Under r's mutex_: r ended meanwhile, or it will find the new node.
PushDownstream(c) ==
    LET r == Head(todo[c])
        n == new_node[c]
    IN /\ NextEdge(c, "push")
       /\ \/ /\ status[r] \in Ended
             /\ Release(n)
             /\ UNCHANGED down_streams
          \/ /\ status[r] \notin Ended
             /\ down_streams' = [down_streams EXCEPT ![r] = Append(@, n)]
             /\ UNCHANGED <<wait_count, task_queue>>
       /\ UNCHANGED <<status, parent_graph, node_id, fast_down_strams,
                      fast_down_strams_bak, graphVars, sema, new_node, target, reg,
                      workerVars, boundVars>>

StartCreate(c) ==
    /\ made < MaxNodes
    /\ \E g \in Graphs : \E reqs \in Requests(made + 1) : CountNode(c, g, reqs)

create_edges(c) ==
    \/ Register(c) \/ ReadyAtOnce(c) \/ AddWaitCount(c) \/ SkipEdge(c)
    \/ TryEdge(c) \/ BitLoad(c) \/ BitStore(c) \/ ReadBak(c) \/ PushDownstream(c)

(***************************************************************************)
(* Node::block_thread_for_group, with create_edges(node, Graph&)           *)
(***************************************************************************)
\* The waiter's own graph is local to the call, so counting the waiter and
\* registering it is one step with the start of the call.
RegisterWaiter(c, n) ==
    /\ new_node' = [new_node EXCEPT ![c] = n]
    /\ parent_graph' = [parent_graph EXCEPT ![n] = c]
    /\ g_wait_count' = [g_wait_count EXCEPT ![c] = 1]
    /\ g_nodes' = [g_nodes EXCEPT ![c] = <<n>>]

\* Graphs in status Initing or Finish are not waited for.
StartWait(c, g) ==
    LET n == made + 1
    IN /\ CGo(c, "idle", "wait_test")
       /\ g_nodes[g] # <<>> /\ ~ cleared[g]
       /\ waits < MaxWaits /\ made < MaxNodes
       /\ waits' = waits + 1 /\ made' = n
       /\ required' = [required EXCEPT ![n] = ToSet(g_nodes[g])]
       /\ target' = [target EXCEPT ![c] = g]
       /\ RegisterWaiter(c, n)
       /\ UNCHANGED <<status, wait_count, node_id, fast_down_strams,
                      fast_down_strams_bak, down_streams, g_down_streams, cleared,
                      task_queue, sema, todo, reg, workerVars>>

WaitTest(c) ==
    /\ c_pc[c] = "wait_test"
    /\ \/ /\ g_wait_count[target[c]] = 0
          /\ CGo(c, "wait_test", "sema")
          /\ ready(new_node[c])
       \/ /\ g_wait_count[target[c]] # 0
          /\ CGo(c, "wait_test", "wait_lock")
          /\ UNCHANGED task_queue
    /\ UNCHANGED <<nodeVars, graphVars, sema, new_node, target, todo, reg,
                   workerVars, boundVars>>

\* Mutant: the count is not tested again under the lock.
WaitLock_Unchecked(c) ==
    /\ CGo(c, "wait_lock", "sema")
    /\ wait_count' = [wait_count EXCEPT ![new_node[c]] = @ + 1]
    /\ g_down_streams' = [g_down_streams EXCEPT ![target[c]] = Append(@, new_node[c])]
    /\ UNCHANGED <<status, parent_graph, node_id, fast_down_strams,
                   fast_down_strams_bak, down_streams, g_wait_count, g_nodes, cleared,
                   task_queue, sema, new_node, target, todo, reg, workerVars,
                   boundVars>>

\* Under the target's mutex_, which Graph::finish takes to notify.
WaitLock(c) ==
    /\ CGo(c, "wait_lock", "sema")
    /\ \/ /\ g_wait_count[target[c]] = 0
          /\ ready(new_node[c])
          /\ UNCHANGED <<wait_count, g_down_streams>>
       \/ /\ g_wait_count[target[c]] # 0
          /\ wait_count' = [wait_count EXCEPT ![new_node[c]] = @ + 1]
          /\ g_down_streams' =
                [g_down_streams EXCEPT ![target[c]] = Append(@, new_node[c])]
          /\ UNCHANGED task_queue
    /\ UNCHANGED <<status, parent_graph, node_id, fast_down_strams,
                   fast_down_strams_bak, down_streams, g_wait_count, g_nodes, cleared,
                   sema, new_node, target, todo, reg, workerVars, boundVars>>

SemaWait(c) ==
    /\ CGo(c, "sema", "free")
    /\ sema[c]
    /\ sema' = [sema EXCEPT ![c] = FALSE]
    /\ UNCHANGED <<nodeVars, graphVars, task_queue, new_node, target, todo, reg,
                   workerVars, boundVars>>

\* The local graph goes: ~Node spins until its worker is done with it.
FreeWaiter(c) ==
    /\ CGo(c, "free", "idle")
    /\ status[new_node[c]] = "Recoverable"
    /\ status' = [status EXCEPT ![new_node[c]] = "Destroy"]
    /\ UNCHANGED <<wait_count, parent_graph, node_id, fast_down_strams,
                   fast_down_strams_bak, down_streams, graphVars, task_queue, sema,
                   new_node, target, todo, reg, workerVars, boundVars>>

block_thread_for_group(c) ==
    WaitTest(c) \/ WaitLock(c) \/ SemaWait(c) \/ FreeWaiter(c)

(***************************************************************************)
(* Graph::clear_graph, once no other client is in a call                   *)
(***************************************************************************)
ClearOnce(c, g, releasable) ==
    /\ g_nodes[g] # <<>> /\ ~ cleared[g]
    /\ \A d \in Clients : c_pc[d] = "idle"
    /\ \A n \in ToSet(g_nodes[g]) : status[n] \in releasable
    /\ status' = [n \in Nodes |-> IF n \in ToSet(g_nodes[g]) THEN "Destroy" ELSE status[n]]
    /\ cleared' = [cleared EXCEPT ![g] = TRUE]
    /\ UNCHANGED <<wait_count, parent_graph, node_id, fast_down_strams,
                   fast_down_strams_bak, down_streams, g_wait_count, g_nodes,
                   g_down_streams, task_queue, sema, clientVars, workerVars, boundVars>>

\* Mutant: nodes are released when they have finished, as require_node would.
clear_graph_Early(c, g) == ClearOnce(c, g, Ended)

\* The spin ends when every node is Recoverable; then they are released.
clear_graph(c, g) == ClearOnce(c, g, {"Recoverable"})

(***************************************************************************)
(* Schedule::do_schedule and run_task                                      *)
(***************************************************************************)
Dequeue(w, n) ==
    /\ WGo(w, "idle", "start")
    /\ task_queue[n] > 0
    /\ task_queue' = [task_queue EXCEPT ![n] = @ - 1]
    /\ task' = [task EXCEPT ![w] = n]
    /\ UNCHANGED <<nodeVars, graphVars, sema, clientVars, notified_nodes, next_task,
                   boundVars>>

\* Initing (asserted: ReadyOnce) to Ready to Running, which nobody observes.
Resume(w) ==
    /\ WGo(w, "start", "run")
    /\ status' = [status EXCEPT ![task[w]] = "Running"]
    /\ UNCHANGED <<wait_count, parent_graph, node_id, fast_down_strams,
                   fast_down_strams_bak, down_streams, graphVars, task_queue, sema,
                   clientVars, task, notified_nodes, next_task, boundVars>>

\* run(): NodeRunWaiter signals its client.
Run(w) ==
    /\ WGo(w, "run", "finish")
    /\ sema' = [c \in Clients |-> sema[c] \/ parent_graph[task[w]] = c]
    /\ UNCHANGED <<nodeVars, graphVars, task_queue, clientVars, task, notified_nodes,
                   next_task, boundVars>>

(* Node::finish *)

Finish(w) ==
    /\ WGo(w, "finish", "take_bak")
    /\ status' = [status EXCEPT ![task[w]] = "Finish"]
    /\ UNCHANGED <<wait_count, parent_graph, node_id, fast_down_strams,
                   fast_down_strams_bak, down_streams, graphVars, task_queue, sema,
                   clientVars, task, notified_nodes, next_task, boundVars>>

TakeBak(w) ==
    /\ WGo(w, "take_bak", "fast")
    /\ fast_down_strams_bak' =
          [fast_down_strams_bak EXCEPT ![task[w]] = fast_down_strams[task[w]]]
    /\ UNCHANGED <<status, wait_count, parent_graph, node_id, fast_down_strams,
                   down_streams, graphVars, task_queue, sema, clientVars, task,
                   notified_nodes, next_task, boundVars>>

\* sub_wait_count on the nodes of ds in turn; the ones it brings to zero are
\* appended to notified_nodes.
Notify(w, ds) ==
    LET hits(n, k) == Cardinality({i \in 1 .. k : ds[i] = n})
        zero == {k \in DOMAIN ds : wait_count[ds[k]] = hits(ds[k], k)}
    IN /\ wait_count' = [n \in Nodes |-> wait_count[n] - hits(n, Len(ds))]
       /\ \E order \in Ascending(zero) :
             notified_nodes' = [notified_nodes EXCEPT
                ![w] = @ \o [j \in DOMAIN order |-> ds[order[j]]]]

\* The fast node with number id in the graph of n.
get_node(n, id) == g_nodes[parent_graph[n]][id + 1]

\* The nodes of the bits that finish() took, in the order of the bits.
NotifyFast(w) ==
    /\ WGo(w, "fast", "down")
    /\ \E ids \in bit_map_idx(fast_down_strams_bak[task[w]]) :
          Notify(w, [i \in DOMAIN ids |-> get_node(task[w], ids[i])])
    /\ UNCHANGED <<status, parent_graph, node_id, fast_down_strams,
                   fast_down_strams_bak, down_streams, graphVars, task_queue, sema,
                   clientVars, task, next_task, boundVars>>

\* finish2, under the node's mutex_.
NotifyDown(w) ==
    /\ WGo(w, "down", "leave")
    /\ Notify(w, down_streams[task[w]])
    /\ UNCHANGED <<status, parent_graph, node_id, fast_down_strams,
                   fast_down_strams_bak, down_streams, graphVars, task_queue, sema,
                   clientVars, task, next_task, boundVars>>

(* Graph::finish *)

LeaveGraph(w) ==
    LET g == parent_graph[task[w]]
    IN /\ WGo(w, "leave", IF g_wait_count[g] = 1 THEN "waiters" ELSE "pick")
       /\ g_wait_count' = [g_wait_count EXCEPT ![g] = @ - 1]
       /\ UNCHANGED <<nodeVars, g_nodes, g_down_streams, cleared, task_queue, sema,
                      clientVars, task, notified_nodes, next_task, boundVars>>

\* Under Graph::mutex_.
NotifyWaiters(w) ==
    /\ WGo(w, "waiters", "pick")
    /\ Notify(w, g_down_streams[parent_graph[task[w]]])
    /\ UNCHANGED <<status, parent_graph, node_id, fast_down_strams,
                   fast_down_strams_bak, down_streams, graphVars, task_queue, sema,
                   clientVars, task, next_task, boundVars>>

\* The worker keeps the second notified node, or the only one; the rest are
\* queued.
Kept(ns) == IF Len(ns) > 1 THEN 2 ELSE Len(ns)

PickNext(w) ==
    LET ns == notified_nodes[w]
        others(n) == {i \in DOMAIN ns : ns[i] = n /\ i # Kept(ns)}
    IN /\ WGo(w, "pick", "recover")
       /\ next_task' = [next_task EXCEPT ![w] = IF ns = <<>> THEN nullptr ELSE ns[Kept(ns)]]
       /\ task_queue' = [n \in Nodes |-> task_queue[n] + Cardinality(others(n))]
       /\ notified_nodes' = [notified_nodes EXCEPT ![w] = <<>>]
       /\ UNCHANGED <<nodeVars, graphVars, sema, clientVars, task, boundVars>>

\* The last touch of the task; run_task goes on with the kept node.
Recover(w) ==
    /\ WGo(w, "recover", IF next_task[w] = nullptr THEN "idle" ELSE "start")
    /\ status' = [status EXCEPT ![task[w]] = "Recoverable"]
    /\ task' = [task EXCEPT ![w] = next_task[w]]
    /\ next_task' = [next_task EXCEPT ![w] = nullptr]
    /\ UNCHANGED <<wait_count, parent_graph, node_id, fast_down_strams,
                   fast_down_strams_bak, down_streams, graphVars, task_queue, sema,
                   clientVars, notified_nodes, boundVars>>

run_task(w) ==
    \/ Resume(w) \/ Run(w) \/ Finish(w) \/ TakeBak(w) \/ NotifyFast(w)
    \/ NotifyDown(w) \/ LeaveGraph(w) \/ NotifyWaiters(w) \/ PickNext(w) \/ Recover(w)

do_schedule(w) == (\E n \in Nodes : Dequeue(w, n)) \/ run_task(w)

Next ==
    \/ \E c \in Clients :
          \/ StartCreate(c) \/ create_edges(c)
          \/ \E g \in Graphs : StartWait(c, g) \/ clear_graph(c, g)
          \/ block_thread_for_group(c)
    \/ \E w \in Workers : do_schedule(w)

Spec == Init /\ [][Next]_vars

(***************************************************************************)
(* Properties                                                              *)
(***************************************************************************)
Statuses == {"Initing", "Running"} \cup Ended
Bits == 0 .. fast_node_max_num

\* Type correctness of the fields of Node and Graph and of the locals.
TypeOK ==
    /\ status \in [Nodes -> Statuses]
    /\ wait_count \in [Nodes -> Int]
    /\ parent_graph \in [Nodes -> AllGraphs \cup {nullptr}]
    /\ node_id \in [Nodes -> Nat]
    /\ fast_down_strams \in [Nodes -> SUBSET (Bits \ {fast_node_max_num})]
    /\ fast_down_strams_bak \in [Nodes -> SUBSET Bits]
    /\ \A n \in Nodes : ToSet(down_streams[n]) \subseteq Nodes
    /\ g_wait_count \in [AllGraphs -> Nat]
    /\ \A g \in AllGraphs : ToSet(g_nodes[g]) \cup ToSet(g_down_streams[g]) \subseteq Nodes
    /\ task_queue \in [Nodes -> Nat]
    /\ \A w \in Workers : w_pc[w] # "idle" => task[w] \in Nodes

\* A node starts only after every node it was told to run after has finished,
\* whichever of the paths of add_downstream (graph.cpp:408-465) the edge took
\* and however they interleaved with finish() (node.cpp:120-157).
RunsAfterRequired ==
    \A n \in Nodes : (parent_graph[n] \in Graphs /\ status[n] # "Initing")
        => \A r \in required[n] : status[r] \in Ended

\* A node is handed out once: as long as it is queued, notified or about to be
\* run by a worker it is so in one place only, it has not started, and nothing
\* holds it up.  This is what the assertions on Initing (schedule.cpp:172, 214)
\* check, and what they cannot see.  A waiter stays in Graph::down_streams and
\* may be counted down again after it was released (graph.cpp:56-57).
Places(n) ==
    task_queue[n]
    + Cardinality({p \in Workers \X Nodes :
          p[2] \in DOMAIN notified_nodes[p[1]] /\ notified_nodes[p[1]][p[2]] = n})
    + Cardinality({w \in Workers : next_task[w] = n})
    + Cardinality({w \in Workers : w_pc[w] = "start" /\ task[w] = n})

ReadyOnce ==
    \A n \in Nodes : Places(n) > 0
        => /\ Places(n) = 1 /\ status[n] = "Initing"
           /\ wait_count[n] = 0 \/ (parent_graph[n] \in Clients /\ wait_count[n] < 0)

\* finish() and Graph::finish never touch a node that has been released by
\* clear_graph or with a waiter's graph (graph.cpp:182-198, node.cpp:72-77):
\* neither the node that finishes nor one it is about to notify.
NoDanglingNode ==
    \A w \in Workers :
        LET n == task[w]
            fast == {id \in fast_down_strams_bak[n] : id < fast_node_max_num}
            touched == CASE w_pc[w] = "fast"    -> {get_node(n, id) : id \in fast}
                         [] w_pc[w] = "down"    -> ToSet(down_streams[n])
                         [] w_pc[w] = "waiters" -> ToSet(g_down_streams[parent_graph[n]])
                         [] OTHER               -> ToSet(notified_nodes[w])
        IN w_pc[w] # "idle" => \A d \in touched \cup {n} : status[d] # "Destroy"

\* A waiter runs only when every node that was in the graph before the wait
\* began has finished (node.cpp:188, graph.cpp:53-62, 277-288).
WaitsForAll ==
    \A n \in Nodes : (parent_graph[n] \in Clients /\ status[n] # "Initing")
        => \A r \in required[n] : status[r] \in Ended

(***************************************************************************)
(* Liveness.  A client inside a call and a worker keep being scheduled;    *)
(* a worker takes a task as long as there is one (TaskQueue: Drained).  No *)
(* client is obliged to start a call.                                      *)
(***************************************************************************)
Fairness ==
    /\ \A c \in Clients : WF_vars(create_edges(c) \/ block_thread_for_group(c))
    /\ \A w \in Workers : WF_vars(do_schedule(w))

FairSpec == Spec /\ Fairness

\* Every node that is dropped into a graph runs to its end: no release of an
\* edge is lost between add_downstream and finish().
EveryNodeRuns == \A n \in Nodes : made >= n ~> status[n] \in {"Recoverable", "Destroy"}

\* block_thread_for_group returns: the waiter is always notified, also when the
\* graph's count reaches zero between the two tests of create_edges
\* (graph.cpp:277-287).  It is claimed for behaviours in which no released node
\* is touched; what the others do is undefined.
WaitReturns ==
    []NoDanglingNode => \A c \in Clients : c_pc[c] = "sema" ~> c_pc[c] = "idle"
=============================================================================
