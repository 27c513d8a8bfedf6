---------------------------- MODULE LimitGraph ----------------------------
(***************************************************************************)
(* Limit graphs (src/graph.cpp): a graph built with `parallel' and         *)
(* `queue_size' lets that many of its nodes run at once and holds the      *)
(* others back in a SelfQueue, whose m_count is the nodes let in and held  *)
(* back, less `parallel'.  Graph::finish passes the place of a finished    *)
(* node on.                                                                *)
(*                                                                         *)
(* Each access to m_count is a step, and so is each access to the counters *)
(* of the ring of held nodes by which it accepts or refuses a node.  That  *)
(* is exact until it refuses one: only a refusal leaves a ticket to be     *)
(* returned (write_missed), and it is what the assertion in                *)
(* SelfQueue::try_enqueue forbids.  Whoever has a position in the ring may *)
(* sleep on its version word before going on.  Edges are recorded and      *)
(* released in one step each; FlowGraph has their protocol.                *)
(***************************************************************************)
EXTENDS Integers, Sequences, FiniteSets, SequencesExt, FiniteSetsExt

CONSTANTS
    Limited, Unlimited,  \* graphs, by constructor
    parallel,            \* of every limit graph
    queue_size,          \* of every limit graph, a power of two
    fast_node_max_num,   \* nodes of a graph that have a bit (63)
    Clients, Workers,    \* threads
    MaxNodes             \* bound: nodes created in all

ASSUME LimitAssumption ==
    parallel \in Nat /\ queue_size \in Nat \ {0, 1} /\ fast_node_max_num \in Nat
ASSUME BoundAssumption == MaxNodes \in Nat
ASSUME ThreadAssumption == Clients \cap Workers = {}

Graphs == Limited \cup Unlimited
Threads == Clients \cup Workers
Nodes == 1 .. MaxNodes
nullptr == 0

ASSUME GraphAssumption == Limited \cap Unlimited = {} /\ nullptr \notin Graphs

VARIABLES
    (* Node *)
    parent_graph,   \* nullptr until the node is created
    status, wait_count,
    down_streams,
    (* Graph and SelfQueue *)
    g_wait_count,
    m_count,
    limit_queue,    \* the nodes in the ring
    read,           \* its counter of nodes taken out
    (* Schedule *)
    task_queue,     \* how often each node is in the queue
    (* threads *)
    pc,
    todo,           \* the nodes ready() is still to be called for
    read_,          \* the local of LimitQueue::try_enqueue
    then,           \* where Graph::finish goes after those calls
    task,           \* the worker's current task
    temp_node, next_task

nodeVars == <<parent_graph, status, wait_count, down_streams>>
ringVars == <<limit_queue, read, read_>>
queueVars == <<m_count, ringVars>>
workerVars == <<then, task, temp_node, next_task>>
vars == <<nodeVars, g_wait_count, queueVars, task_queue, pc, todo, workerVars>>

SelfQueue ==
    /\ m_count = [g \in Limited |-> -1 * parallel]
    /\ limit_queue = [g \in Limited |-> <<>>]
    /\ read = [g \in Limited |-> 0]

Init ==
    /\ parent_graph = [n \in Nodes |-> nullptr]
    /\ status = [n \in Nodes |-> "Initing"]
    /\ wait_count = [n \in Nodes |-> 0]
    /\ down_streams = [n \in Nodes |-> <<>>]
    /\ g_wait_count = [g \in Graphs |-> 0]
    /\ SelfQueue
    /\ task_queue = [n \in Nodes |-> 0]
    /\ pc = [t \in Threads |-> "idle"]
    /\ todo = [t \in Threads |-> <<>>]
    /\ read_ = [t \in Threads |-> 0]
    /\ then = [w \in Workers |-> "return"]
    /\ task = [w \in Workers |-> nullptr]
    /\ temp_node = [w \in Workers |-> nullptr]
    /\ next_task = [w \in Workers |-> nullptr]

\* An exception nobody catches ends the program.
Alive == \A t \in Threads : pc[t] # "thrown"

At(t, label) == Alive /\ pc[t] = label
Go(t, from, to) == At(t, from) /\ pc' = [pc EXCEPT ![t] = to]

limit_graph(n) == parent_graph[n] \in Limited

(***************************************************************************)
(* Graph::create_edges: a client drops a node with its required nodes.     *)
(***************************************************************************)
Made == {n \in Nodes : parent_graph[n] # nullptr}
Ended == {n \in Nodes : status[n] \in {"Finish", "Recoverable"}}

create_edges(c, g, required) ==
    LET n == Cardinality(Made) + 1
        open == required \ Ended
    IN /\ n \in Nodes
       /\ At(c, "idle")
       /\ parent_graph' = [parent_graph EXCEPT ![n] = g]
       /\ g_wait_count' = [g_wait_count EXCEPT ![g] = @ + 1]
       /\ wait_count' = [wait_count EXCEPT ![n] = Cardinality(open)]
       /\ down_streams' = [r \in Nodes |->
              IF r \in open THEN Append(down_streams[r], n) ELSE down_streams[r]]
       /\ \/ /\ open = {}
             /\ pc' = [pc EXCEPT ![c] = "ready"]
             /\ todo' = [todo EXCEPT ![c] = <<n>>]
          \/ /\ open # {}
             /\ UNCHANGED <<pc, todo>>
       /\ UNCHANGED <<status, queueVars, task_queue, workerVars>>

(***************************************************************************)
(* Graph::ready, for the first of the nodes in todo.                       *)
(***************************************************************************)
add_new_task(n) == task_queue' = [task_queue EXCEPT ![n] = @ + 1]

\* Where a thread goes with the rest of its list: a client's call returns.
After(t, rest) ==
    IF rest # <<>> THEN "ready" ELSE IF t \in Clients THEN "idle" ELSE then[t]

\* Mutant: a node that is let in is not counted.
CountIn_Forgotten(g) == m_count' = [m_count EXCEPT ![g] = IF @ < 0 THEN @ ELSE @ + 1]

\* SelfQueue::try_enqueue raises the count; below zero there was a free place.
CountIn(g) == m_count' = [m_count EXCEPT ![g] = @ + 1]

\* Mutant: off by one.
HasPlace_OffByOne(g) == m_count[g] <= 0

\* Mutant: a place is left free.
HasPlace_Spared(g) == m_count[g] < -1

HasPlace(g) == m_count[g] < 0

ready(t) ==
    LET n == Head(todo[t])
        g == parent_graph[n]
    IN /\ At(t, "ready")
       /\ \/ /\ g \notin Limited
             /\ UNCHANGED m_count
             /\ Go(t, "ready", After(t, Tail(todo[t])))
             /\ add_new_task(n)
             /\ todo' = [todo EXCEPT ![t] = Tail(@)]
          \/ /\ g \in Limited /\ HasPlace(g)
             /\ CountIn(g)
             /\ Go(t, "ready", After(t, Tail(todo[t])))
             /\ add_new_task(n)
             /\ todo' = [todo EXCEPT ![t] = Tail(@)]
          \/ /\ g \in Limited /\ ~ HasPlace(g)
             /\ CountIn(g)
             /\ Go(t, "ready", "hold")
             /\ UNCHANGED <<task_queue, todo>>
       /\ UNCHANGED <<nodeVars, g_wait_count, ringVars, workerVars>>

(***************************************************************************)
(* LimitQueue::try_enqueue puts a held node into the ring.  It looks at    *)
(* read and at write_ahead, one after the other, and then draws a ticket   *)
(* of write_ahead and compares that with read once more.                   *)
(***************************************************************************)
holds(t) == parent_graph[Head(todo[t])]     \* the graph whose ring it is
write_ahead(g) == read[g] + Len(limit_queue[g])
is_full(r, w) == w - r >= queue_size

HoldRead(t) ==
    /\ Go(t, "hold", "look")
    /\ read_' = [read_ EXCEPT ![t] = read[holds(t)]]
    /\ UNCHANGED <<nodeVars, g_wait_count, m_count, limit_queue, read, task_queue, todo,
                   workerVars>>

\* A refusal makes QuietFlowAssert throw, and nobody catches it.
HoldLook(t) ==
    /\ Go(t, "look", IF is_full(read_[t], write_ahead(holds(t))) THEN "thrown" ELSE "claim")
    /\ UNCHANGED <<nodeVars, g_wait_count, queueVars, task_queue, todo, workerVars>>

HoldThrows(t) ==
    /\ Go(t, "claim", "thrown")
    /\ is_full(read[holds(t)], write_ahead(holds(t)))
    /\ UNCHANGED <<nodeVars, g_wait_count, queueVars, task_queue, todo, workerVars>>

Hold(t) ==
    LET g == holds(t)
    IN /\ Go(t, "claim", "put")
       /\ ~ is_full(read[g], write_ahead(g))
       /\ limit_queue' = [limit_queue EXCEPT ![g] = Append(@, Head(todo[t]))]
       /\ todo' = [todo EXCEPT ![t] = Tail(@)]
       /\ read_' = [read_ EXCEPT ![t] = 0]
       /\ UNCHANGED <<nodeVars, g_wait_count, m_count, read, task_queue, workerVars>>

\* The slot has become free, and the node goes into it.
Put(t) ==
    /\ Go(t, "put", After(t, todo[t]))
    /\ UNCHANGED <<nodeVars, g_wait_count, queueVars, task_queue, todo, workerVars>>

(***************************************************************************)
(* A worker runs a node and finishes it.                                   *)
(***************************************************************************)
Dequeue(w, n) ==
    /\ Go(w, "idle", "run")
    /\ task_queue[n] > 0
    /\ task_queue' = [task_queue EXCEPT ![n] = @ - 1]
    /\ task' = [task EXCEPT ![w] = n]
    /\ UNCHANGED <<nodeVars, g_wait_count, queueVars, todo, then, temp_node, next_task>>

\* run_task up to the end of run().
Resume(w) ==
    /\ Go(w, "run", "finish")
    /\ status' = [status EXCEPT ![task[w]] = "Running"]
    /\ UNCHANGED <<parent_graph, wait_count, down_streams, g_wait_count, queueVars,
                   task_queue, todo, workerVars>>

(***************************************************************************)
(* Graph::finish chooses among the nodes that were released.  Of the       *)
(* others' list, the first that needs no place of its own, because its     *)
(* graph has no limit or because it takes over the finished node's place,  *)
(* is kept; the rest are made ready, temp_node (the first released) last.  *)
(***************************************************************************)
Cheap(n, g) == IF g \in Limited THEN parent_graph[n] = g ELSE ~ limit_graph(n)

\* The place of the kept node in the list, if there is one.
Kept(ns, g) ==
    {k \in 2 .. Len(ns) : Cheap(ns[k], g) /\ \A j \in 2 .. k - 1 : ~ Cheap(ns[j], g)}

\* What finish() goes on with: the nodes to make ready, temp_node, next_task.
Leave(w, rest, temp, next, to) ==
    /\ todo' = [todo EXCEPT ![w] = rest]
    /\ temp_node' = [temp_node EXCEPT ![w] = temp]
    /\ next_task' = [next_task EXCEPT ![w] = next]
    /\ then' = [then EXCEPT ![w] = to]
    /\ pc' = [pc EXCEPT ![w] = IF rest = <<>> THEN to ELSE "ready"]

Choose(w, ns, g) ==
    \/ /\ ns = <<>>
       /\ Leave(w, <<>>, nullptr, nullptr, IF g \in Limited THEN "pass" ELSE "return")
    \/ \E k \in Kept(ns, g) :
          Leave(w, SubSeq(ns, 2, k - 1) \o SubSeq(ns, k + 1, Len(ns)) \o <<Head(ns)>>,
                nullptr, ns[k], "return")
    \/ /\ ns # <<>> /\ Kept(ns, g) = {}
       /\ IF Cheap(Head(ns), g)
          THEN Leave(w, Tail(ns), nullptr, Head(ns), "return")
          ELSE Leave(w, Tail(ns), Head(ns), nullptr, IF g \in Limited THEN "pass" ELSE "offer")

\* The nodes of n's graph with a small node_id, which counts the nodes of a
\* graph, have a bit in fast_down_strams of n.
node_id(d) == Cardinality({m \in 1 .. d - 1 : parent_graph[m] = parent_graph[d]})
Fast(n, d) == parent_graph[d] = parent_graph[n] /\ node_id(d) < fast_node_max_num

\* Node::finish goes through the bits first, and through its list then.
Precedes(n, i, j) ==
    LET ds == down_streams[n]
    IN IF Fast(n, ds[i]) = Fast(n, ds[j]) THEN i < j ELSE Fast(n, ds[i])

\* The list of nodes it notes, which is the one of those that wait for nothing
\* else, in that order.
Notified(n) ==
    LET ds == down_streams[n]
        one == {i \in DOMAIN ds : wait_count[ds[i]] = 1}
    IN {[j \in DOMAIN order |-> ds[order[j]]] : order \in
           {s \in [1 .. Cardinality(one) -> one] :
               \A i, j \in DOMAIN s : i < j => Precedes(n, s[i], s[j])}}

\* Node::finish releases the nodes that waited for this one, and Graph::finish
\* takes it out of its graph's count.
Finish(w) ==
    LET n == task[w]
        g == parent_graph[n]
    IN /\ At(w, "finish")
       /\ status' = [status EXCEPT ![n] = "Finish"]
       /\ wait_count' = [d \in Nodes |->
              IF d \in ToSet(down_streams[n]) THEN wait_count[d] - 1 ELSE wait_count[d]]
       /\ g_wait_count' = [g_wait_count EXCEPT ![g] = @ - 1]
       /\ \E ns \in Notified(n) : Choose(w, ns, g)
       /\ UNCHANGED <<parent_graph, down_streams, queueVars, task_queue, task>>

\* A node without limit finished: temp_node runs here if its graph has a place.
Offer(w) ==
    LET g == parent_graph[temp_node[w]]
    IN /\ At(w, "offer")
       /\ CountIn(g)
       /\ \/ /\ HasPlace(g)
             /\ Go(w, "offer", "return")
             /\ next_task' = [next_task EXCEPT ![w] = temp_node[w]]
             /\ UNCHANGED todo
          \/ /\ ~ HasPlace(g)
             /\ Go(w, "offer", "hold")
             /\ todo' = [todo EXCEPT ![w] = <<temp_node[w]>>]
             /\ UNCHANGED next_task
       /\ temp_node' = [temp_node EXCEPT ![w] = nullptr]
       /\ then' = [then EXCEPT ![w] = "return"]
       /\ UNCHANGED <<nodeVars, g_wait_count, ringVars, task_queue, task>>

\* Mutant: off by one.
HasHeld_OffByOne(g) == m_count[g] >= 0

\* Mutant: the last held node is overlooked.
HasHeld_Overlooked(g) == m_count[g] > 1

HasHeld(g) == m_count[g] > 0

\* A node of a limit graph finished and none of its graph was released: its
\* place goes to a held node, or is given back.
Pass(w) ==
    LET g == parent_graph[task[w]]
    IN /\ At(w, "pass")
       /\ m_count' = [m_count EXCEPT ![g] = @ - 1]
       /\ \/ /\ HasHeld(g)
             /\ Go(w, "pass", "take")
             /\ UNCHANGED <<next_task, temp_node>>
          \/ /\ ~ HasHeld(g)
             /\ Go(w, "pass", "return")
             /\ next_task' = [next_task EXCEPT ![w] = temp_node[w]]
             /\ temp_node' = [temp_node EXCEPT ![w] = nullptr]
       /\ UNCHANGED <<nodeVars, g_wait_count, ringVars, task_queue, todo, then, task>>

\* The loop on the ring's try_dequeue, until it has a position.
Take(w) ==
    LET g == parent_graph[task[w]]
    IN /\ Go(w, "take", "get")
       /\ limit_queue[g] # <<>>
       /\ next_task' = [next_task EXCEPT ![w] = Head(limit_queue[g])]
       /\ limit_queue' = [limit_queue EXCEPT ![g] = Tail(@)]
       /\ read' = [read EXCEPT ![g] = @ + 1]
       /\ UNCHANGED <<nodeVars, g_wait_count, m_count, read_, task_queue, todo, then, task,
                      temp_node>>

\* The node is there, which is not kept track of: the step may come before its
\* Put.  ready(temp_node) follows if there is one.
Get(w) ==
    /\ \/ /\ temp_node[w] # nullptr
          /\ Go(w, "get", "ready")
          /\ todo' = [todo EXCEPT ![w] = <<temp_node[w]>>]
       \/ /\ temp_node[w] = nullptr
          /\ Go(w, "get", "return")
          /\ UNCHANGED todo
    /\ temp_node' = [temp_node EXCEPT ![w] = nullptr]
    /\ then' = [then EXCEPT ![w] = "return"]
    /\ UNCHANGED <<nodeVars, g_wait_count, queueVars, task_queue, task, next_task>>

\* run_task goes on with the node finish() returned.
Return(w) ==
    /\ Go(w, "return", IF next_task[w] = nullptr THEN "idle" ELSE "run")
    /\ status' = [status EXCEPT ![task[w]] = "Recoverable"]
    /\ task' = [task EXCEPT ![w] = next_task[w]]
    /\ next_task' = [next_task EXCEPT ![w] = nullptr]
    /\ UNCHANGED <<parent_graph, wait_count, down_streams, g_wait_count, queueVars,
                   task_queue, todo, then, temp_node>>

call(t) == ready(t) \/ HoldRead(t) \/ HoldLook(t) \/ HoldThrows(t) \/ Hold(t)

run_task(w) ==
    \/ Resume(w) \/ Finish(w) \/ call(w)
    \/ Offer(w) \/ Pass(w) \/ Take(w) \/ Return(w)

do_schedule(w) == (\E n \in Nodes : Dequeue(w, n)) \/ run_task(w)

Next ==
    \/ \E c \in Clients :
          \/ /\ Cardinality(Made) < MaxNodes
             /\ \E g \in Graphs, required \in SUBSET Made : create_edges(c, g, required)
          \/ call(c)
    \/ \E w \in Workers : do_schedule(w) \/ Get(w)
    \/ \E t \in Threads : Put(t)

Spec == Init /\ [][Next]_vars

(***************************************************************************)
(* Properties                                                              *)
(***************************************************************************)
WorkerPC == {"run", "finish", "offer", "pass", "take", "get", "return"}

\* Type correctness of the queue, the graphs and the threads' locals; m_count
\* stays between no place taken and every node counted.
TypeOK ==
    /\ parent_graph \in [Nodes -> Graphs \cup {nullptr}]
    /\ status \in [Nodes -> {"Initing", "Running", "Finish", "Recoverable"}]
    /\ wait_count \in [Nodes -> 0 .. MaxNodes]
    /\ down_streams \in [Nodes -> Seq(Nodes)]
    /\ g_wait_count \in [Graphs -> 0 .. MaxNodes]
    /\ m_count \in [Limited -> -parallel .. MaxNodes]
    /\ limit_queue \in [Limited -> Seq(Nodes)]
    /\ read \in [Limited -> Nat] /\ read_ \in [Threads -> Nat]
    /\ task_queue \in [Nodes -> 0 .. 1]
    /\ pc \in [Threads -> {"idle", "ready", "hold", "look", "claim", "put", "thrown"} \cup WorkerPC]
    /\ todo \in [Threads -> Seq(Nodes)]
    /\ then \in [Workers -> {"return", "offer", "pass"}]
    /\ \A f \in {task, temp_node, next_task} : f \in [Workers -> Nodes \cup {nullptr}]

\* The nodes of g that workers are running.
Running(g) ==
    {n \in Nodes : parent_graph[n] = g /\
        \E w \in Workers : n = task[w] /\ pc[w] \in {"run", "finish"}}

\* At most `parallel' nodes of a limit graph run at once, whichever of the
\* paths through Graph::ready and Graph::finish let them in
\* (graph.cpp:22-38, 46-51, 64-135).
WithinLimit == \A g \in Limited : Cardinality(Running(g)) <= parallel

Holding(g) == {t \in Threads : pc[t] \in {"hold", "look", "claim", "thrown"} /\ holds(t) = g}
Taking(g) == {w \in Workers : pc[w] = "take" /\ parent_graph[task[w]] = g}

\* A positive m_count is the number of held nodes, but for those on their way
\* into the ring and those a worker is about to take: no worker spins for a
\* node that is not there, and no held node is left uncounted
\* (graph.cpp:23-25, 32-34).
HeldCounted ==
    \A g \in Limited :
        Len(limit_queue[g]) + Cardinality(Holding(g)) - Cardinality(Taking(g))
            = Max({0, m_count[g]})

\* The assertion that the ring takes a held node (graph.cpp:25) cannot fail
\* before more than queue_size + parallel nodes have been dropped into the
\* graph.  All of them count, those that have finished too: a thread that is
\* held up after its first look at read (free_lock.cpp:108, 110) is refused
\* when queue_size others have been through the ring meanwhile.
HoldAccepted ==
    \A t \in Threads : pc[t] = "thrown" =>
        Cardinality({n \in Made : parent_graph[n] = holds(t)}) > queue_size + parallel

(***************************************************************************)
(* Liveness.  A thread inside a call keeps being scheduled, a task ends,   *)
(* and a worker takes what is in the task queue (Drained in TaskQueue).    *)
(* Whoever has a position in the ring waits for its slot, which nothing    *)
(* forces to end (FreeLockQueue).                                          *)
(***************************************************************************)
Fairness ==
    /\ \A c \in Clients : WF_vars(call(c))
    /\ \A w \in Workers : WF_vars(do_schedule(w))

FairSpec == Spec /\ Fairness

\* Nobody sleeps in the ring for ever.
RingReturns == \A t \in Threads : []<>(pc[t] \notin {"put", "get"})

\* No node is held back, or forgotten on its way between two graphs, for ever:
\* unless the assertion fails, or a thread is forgotten in its sleep on a
\* version word of the ring, every node dropped into a graph has run in the end
\* (graph.cpp:31-38, 53-135).  (A program that has thrown is never Alive again.)
NoneHeldForever ==
    []<>Alive /\ RingReturns => <>[](\A n \in Made : status[n] = "Recoverable")
=============================================================================
