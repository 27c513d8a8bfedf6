--------------------------- MODULE FlowGraphProofs ---------------------------
(***************************************************************************)
(* Where the nodes are, whatever the graphs, the threads and the bounds    *)
(* are: every node is handed out once.  FlowGraphEdgeProofs adds why it    *)
(* is not handed out too early.                                            *)
(*                                                                         *)
(* A node is released when its wait_count goes from one to zero, or by its *)
(* creator when it has nothing to wait for.  Once a node is committed (its *)
(* requirements are counted) wait_count only goes down, so there is one    *)
(* release; from then on the node is in one place at a time: in the queue, *)
(* in the notified_nodes or next_task of one worker, or its task.          *)
(*                                                                         *)
(* At the end, from that: the count of a graph is exact.                   *)
(***************************************************************************)
EXTENDS FlowGraph, FiniteSetTheorems, TLAPS

Early == {"register", "ready", "count", "wait_test", "wait_lock"}
Linking == {"edge", "bit_load", "bit_store", "read_bak", "push"}
Waiting == {"wait_test", "wait_lock", "sema", "free"}
ClientPoints == {"idle", "register", "ready", "count"} \cup Linking \cup Waiting
Leaving == {"take_bak", "fast", "down", "leave", "waiters", "pick", "recover"}
WorkerPoints == {"idle", "start", "run", "finish"} \cup Leaving

NodeBits == Bits \ {fast_node_max_num}

NodeTypes ==
    /\ status \in [Nodes -> Statuses]
    /\ wait_count \in [Nodes -> Int]
    /\ parent_graph \in [Nodes -> AllGraphs \cup {nullptr}]
    /\ node_id \in [Nodes -> Nat]
    /\ fast_down_strams \in [Nodes -> SUBSET NodeBits]
    /\ fast_down_strams_bak \in [Nodes -> SUBSET Bits]
    /\ down_streams \in [Nodes -> Seq(Nodes)]
    /\ required \in [Nodes -> SUBSET Nodes]

GraphTypes ==
    /\ g_wait_count \in [AllGraphs -> Int]
    /\ g_nodes \in [AllGraphs -> Seq(Nodes)]
    /\ g_down_streams \in [AllGraphs -> Seq(Nodes)]
    /\ cleared \in [Graphs -> BOOLEAN]
    /\ task_queue \in [Nodes -> Nat]
    /\ sema \in [Clients -> BOOLEAN]
    /\ made \in 0 .. MaxNodes /\ waits \in Nat

ClientTypes ==
    /\ c_pc \in [Clients -> ClientPoints]
    /\ new_node \in [Clients -> Nodes \cup {nullptr}]
    /\ target \in [Clients -> Graphs \cup {nullptr}]
    /\ todo \in [Clients -> Seq(Nodes \cup {nullptr})]
    /\ reg \in [Clients -> SUBSET NodeBits]
    /\ \A c \in Clients : c_pc[c] # "idle" => new_node[c] \in 1 .. made
    /\ \A c \in Clients : c_pc[c] \in {"count"} \cup Linking => todo[c] # <<>>

WorkerTypes ==
    /\ w_pc \in [Workers -> WorkerPoints]
    /\ task \in [Workers -> Nodes \cup {nullptr}]
    /\ notified_nodes \in [Workers -> Seq(Nodes)]
    /\ next_task \in [Workers -> Nodes \cup {nullptr}]
    /\ \A w \in Workers : w_pc[w] # "idle" => task[w] \in Nodes

Types == NodeTypes /\ GraphTypes /\ ClientTypes /\ WorkerTypes

\* Its requirements are counted, its call of create_edges or
\* block_thread_for_group has handed it over.
Committed(n) ==
    n \in 1 .. made /\ \A c \in Clients : new_node[c] = n => c_pc[c] \notin Early

(* Where a node can be *)
Queued(n) == task_queue[n] # 0
Noted(w, n) == \E i \in DOMAIN notified_nodes[w] : notified_nodes[w][i] = n
Doing(w, n) == w_pc[w] # "idle" /\ task[w] = n
Placed(n) == Queued(n) \/ \E w \in Workers : Noted(w, n) \/ next_task[w] = n \/ Doing(w, n)

\* The client's node belongs where its call says.
Belongs ==
    \A c \in Clients : LET n == new_node[c] IN
        /\ c_pc[c] = "register" => parent_graph[n] = nullptr /\ target[c] \in Graphs
        /\ c_pc[c] \in {"ready", "count"} \cup Linking => parent_graph[n] \in Graphs
        /\ c_pc[c] \in Waiting => parent_graph[n] = c /\ target[c] \in Graphs
Distinct ==
    \A c, d \in Clients :
        c # d /\ c_pc[c] # "idle" /\ c_pc[d] # "idle" => new_node[c] # new_node[d]
Homed == \A n \in Nodes :
    /\ n > made => parent_graph[n] = nullptr
    /\ n <= made /\ parent_graph[n] = nullptr =>
          \E c \in Clients : c_pc[c] = "register" /\ new_node[c] = n

\* A node that is not committed has not moved; one that is in some place, or
\* has started, is committed and will not be released again.
Untouched == \A n \in Nodes : ~Committed(n) => wait_count[n] = 0
Released == \A n \in Nodes :
    Placed(n) \/ status[n] # "Initing" => Committed(n) /\ wait_count[n] <= 0

OnePlace(n) ==
    /\ task_queue[n] \in {0, 1}
    /\ Queued(n) => \A w \in Workers : ~Noted(w, n) /\ next_task[w] # n /\ ~Doing(w, n)
    /\ \A w \in Workers : \A i, j \in DOMAIN notified_nodes[w] :
          notified_nodes[w][i] = n /\ notified_nodes[w][j] = n => i = j
    /\ \A v, w \in Workers :
          /\ Noted(v, n) => next_task[w] # n /\ ~Doing(w, n) /\ (Noted(w, n) => v = w)
          /\ next_task[v] = n => ~Doing(w, n) /\ (next_task[w] = n => v = w)
          /\ Doing(v, n) /\ Doing(w, n) => v = w
Exclusive == \A n \in Nodes : OnePlace(n)

\* The status of a node says how far it is.
NotStarted == \A n \in Nodes : status[n] # "Initing" =>
    /\ ~Queued(n)
    /\ \A w \in Workers : ~Noted(w, n) /\ next_task[w] # n
    /\ \A w \in Workers : Doing(w, n) => w_pc[w] # "start"
Started == \A w \in Workers :
    /\ w_pc[w] \in {"run", "finish"} => status[task[w]] = "Running"
    /\ w_pc[w] \in Leaving => status[task[w]] = "Finish"

\* Who is in the lists that finish() goes through.
GraphLists == \A g \in Graphs : \A i \in DOMAIN g_nodes[g] :
    parent_graph[g_nodes[g][i]] = g /\ node_id[g_nodes[g][i]] = i - 1
InGraph == \A n \in Nodes : parent_graph[n] \in Graphs =>
    /\ node_id[n] + 1 \in DOMAIN g_nodes[parent_graph[n]]
    /\ g_nodes[parent_graph[n]][node_id[n] + 1] = n
Owned(r, b) ==
    /\ parent_graph[r] \in Graphs
    /\ b + 1 \in DOMAIN g_nodes[parent_graph[r]]
    /\ Committed(get_node(r, b))
BitsOwned ==
    /\ \A r \in Nodes : \A b \in fast_down_strams[r] : Owned(r, b)
    /\ \A r \in Nodes : \A b \in fast_down_strams_bak[r] \ {fast_node_max_num} : Owned(r, b)
    /\ \A c \in Clients : c_pc[c] = "bit_store" =>
          \A b \in reg[c] : Owned(Head(todo[c]), b)
Listed ==
    /\ \A r \in Nodes : \A i \in DOMAIN down_streams[r] :
          Committed(down_streams[r][i]) /\ parent_graph[down_streams[r][i]] \in Graphs
    /\ \A g \in AllGraphs : \A i \in DOMAIN g_down_streams[g] :
          Committed(g_down_streams[g][i]) /\ parent_graph[g_down_streams[g][i]] \in Clients

\* What create_edges is told, and what it has tested on the way.
Told == \A c \in Clients : c_pc[c] \in {"register", "count"} \cup Linking =>
    \A i \in DOMAIN todo[c] :
        todo[c][i] \in {nullptr, new_node[c]} \/ parent_graph[todo[c][i]] \in Graphs
Tested == \A c \in Clients : LET r == Head(todo[c]) IN
    /\ c_pc[c] \in {"bit_load", "bit_store", "read_bak"} =>
          r \notin {nullptr, new_node[c]} /\ IsFast(r, new_node[c])
    /\ c_pc[c] = "push" => r \notin {nullptr, new_node[c]} /\ ~IsFast(r, new_node[c])

Structure ==
    /\ Belongs /\ Distinct /\ Homed
    /\ GraphLists /\ InGraph /\ BitsOwned /\ Listed
    /\ Told /\ Tested
Placement == Untouched /\ Released /\ Exclusive /\ NotStarted /\ Started

LifeInv == Types /\ Structure /\ Placement

-----------------------------------------------------------------------------
(* Releasing a node and putting it somewhere *)

\* No node is taken back by its creator.
StaysCommitted == \A n \in Nodes : Committed(n) => Committed(n)'

\* A step that moves no node and changes no count keeps Placement.
LEMMA PlacementKept ==
    ASSUME Placement, StaysCommitted, UNCHANGED <<status, wait_count, task_queue, workerVars>>
    PROVE  Placement'
<1>1. Untouched'  BY DEF Placement, Untouched, StaysCommitted
<1>2. Released'
    BY DEF Placement, Released, StaysCommitted, Placed, Queued, Noted, Doing, workerVars
<1>3. Exclusive'  BY DEF Placement, Exclusive, OnePlace, Queued, Noted, Doing, workerVars
<1>4. NotStarted'  BY DEF Placement, NotStarted, Queued, Noted, Doing, workerVars
<1>5. Started'  BY DEF Placement, Started, workerVars
<1> QED  BY <1>1, <1>2, <1>3, <1>4, <1>5 DEF Placement

\* A node that nobody has yet goes into the queue.
Hands(n) ==
    /\ task_queue' = [task_queue EXCEPT ![n] = @ + 1]
    /\ UNCHANGED <<status, workerVars>>

\* The places after a hand-over, when the node was in no place and had not
\* started.
LEMMA HandOver ==
    ASSUME Types, Placement, NEW n \in Nodes, ~Placed(n), status[n] = "Initing", Hands(n)
    PROVE  /\ Exclusive' /\ NotStarted' /\ Started'
           /\ \A m \in Nodes \ {n} : Placed(m)' => Placed(m)
<1>1. task_queue[n] = 0 /\ task_queue \in [Nodes -> Nat]
    BY DEF Placed, Queued, Types, GraphTypes
<1>2. task_queue'[n] = 1 /\ \A m \in Nodes \ {n} : task_queue'[m] = task_queue[m]
    BY <1>1 DEF Hands
<1>3. \A w \in Workers : ~Noted(w, n) /\ next_task[w] # n /\ ~Doing(w, n)
    BY DEF Placed
<1>4. Exclusive'
    <2> SUFFICES ASSUME NEW m \in Nodes PROVE OnePlace(m)'
        BY DEF Exclusive
    <2>1. CASE m = n
        BY <1>2, <1>3, <2>1 DEF OnePlace, Hands, workerVars, Queued, Noted, Doing
    <2>2. CASE m # n
        BY <1>2, <2>2 DEF Placement, Exclusive, OnePlace, Hands, workerVars, Queued, Noted,
           Doing
    <2> QED  BY <2>1, <2>2
<1>5. NotStarted'
    BY <1>2 DEF Placement, NotStarted, Hands, workerVars, Queued, Noted, Doing
<1>6. Started'  BY DEF Placement, Started, Hands, workerVars
<1>7. \A m \in Nodes \ {n} : Placed(m)' => Placed(m)
    BY <1>2 DEF Hands, workerVars, Placed, Queued, Noted, Doing
<1> QED  BY <1>4, <1>5, <1>6, <1>7

\* The creator hands over a node that has nothing to wait for.
LEMMA ReadyKept ==
    ASSUME Types, Placement, StaysCommitted, NEW n \in Nodes, ~Committed(n), Committed(n)',
           ready(n), UNCHANGED <<status, wait_count, workerVars>>
    PROVE  Placement'
<1>1. ~Placed(n) /\ status[n] = "Initing" /\ wait_count[n] = 0
    BY DEF Placement, Released, Untouched
<1>2. Hands(n)  BY DEF ready, add_new_task, Hands
<1>3. /\ Exclusive' /\ NotStarted' /\ Started'
      /\ \A m \in Nodes \ {n} : Placed(m)' => Placed(m)
    BY <1>1, <1>2, HandOver
<1>4. Untouched'  BY DEF Placement, Untouched, StaysCommitted
<1>5. Released'
    <2> SUFFICES ASSUME NEW m \in Nodes, Placed(m)' \/ status'[m] # "Initing"
                 PROVE  Committed(m)' /\ wait_count'[m] <= 0
        BY DEF Released
    <2>1. CASE m = n  BY <1>1, <2>1
    <2>2. CASE m # n  BY <1>3, <2>2 DEF Placement, Released, StaysCommitted
    <2> QED  BY <2>1, <2>2
<1> QED  BY <1>3, <1>4, <1>5 DEF Placement

\* One requirement of a committed node is gone.
LEMMA ReleaseKept ==
    ASSUME Types, Placement, StaysCommitted, NEW n \in Nodes, Committed(n), Release(n),
           UNCHANGED <<status, workerVars>>
    PROVE  Placement'
<1>0. wait_count \in [Nodes -> Int]  BY DEF Types, NodeTypes
<1>1. Untouched'  BY <1>0 DEF Placement, Untouched, StaysCommitted, Release
<1>2. CASE wait_count[n] = 1
    <2>1. ~Placed(n) /\ status[n] = "Initing"  BY <1>2 DEF Placement, Released
    <2>2. Hands(n)  BY <1>2 DEF Release, ready, add_new_task, Hands
    <2>3. /\ Exclusive' /\ NotStarted' /\ Started'
          /\ \A m \in Nodes \ {n} : Placed(m)' => Placed(m)
        BY <2>1, <2>2, HandOver
    <2>4. Released'
        <3> SUFFICES ASSUME NEW m \in Nodes, Placed(m)' \/ status'[m] # "Initing"
                     PROVE  Committed(m)' /\ wait_count'[m] <= 0
            BY DEF Released
        <3>1. CASE m = n  BY <1>0, <1>2, <3>1 DEF Release, StaysCommitted
        <3>2. CASE m # n
            BY <1>0, <2>3, <3>2 DEF Placement, Released, StaysCommitted, Release
        <3> QED  BY <3>1, <3>2
    <2> QED  BY <1>1, <2>3, <2>4 DEF Placement
<1>3. CASE wait_count[n] # 1
    <2>1. UNCHANGED task_queue  BY <1>3 DEF Release
    <2>2. Released'
        BY <1>0, <2>1 DEF Placement, Released, StaysCommitted, Release, Placed, Queued, Noted,
           Doing, workerVars
    <2>3. Exclusive'
        BY <2>1 DEF Placement, Exclusive, OnePlace, Queued, Noted, Doing, workerVars
    <2>4. NotStarted'  BY <2>1 DEF Placement, NotStarted, Queued, Noted, Doing, workerVars
    <2>5. Started'  BY DEF Placement, Started, workerVars
    <2> QED  BY <1>1, <2>2, <2>3, <2>4, <2>5 DEF Placement
<1> QED  BY <1>2, <1>3

\* The requirements of a new node are counted.
LEMMA CountKept ==
    ASSUME Types, Placement, StaysCommitted, NEW n \in Nodes, ~Committed(n), Committed(n)',
           NEW k \in Nat, wait_count' = [wait_count EXCEPT ![n] = @ + k],
           UNCHANGED <<status, task_queue, workerVars>>
    PROVE  Placement'
<1>0. wait_count \in [Nodes -> Int]  BY DEF Types, NodeTypes
<1>1. ~Placed(n) /\ status[n] = "Initing"  BY DEF Placement, Released
<1>2. Untouched'  BY <1>0 DEF Placement, Untouched, StaysCommitted
<1>3. Released'
    BY <1>0, <1>1 DEF Placement, Released, StaysCommitted, Placed, Queued, Noted, Doing,
       workerVars
<1>4. Exclusive'  BY DEF Placement, Exclusive, OnePlace, Queued, Noted, Doing, workerVars
<1>5. NotStarted'  BY DEF Placement, NotStarted, Queued, Noted, Doing, workerVars
<1>6. Started'  BY DEF Placement, Started, workerVars
<1> QED  BY <1>2, <1>3, <1>4, <1>5, <1>6 DEF Placement

\* What has been numbered in a graph stays so.
StaysOwned == \A r \in Nodes : \A b \in Nat : Owned(r, b) => Owned(r, b)'

\* A bit names the same committed node as long as no graph gets a new one.
LEMMA OwnedKept ==
    ASSUME Types, StaysCommitted, UNCHANGED <<parent_graph, g_nodes>>
    PROVE  StaysOwned
<1> SUFFICES ASSUME NEW r \in Nodes, NEW b \in Nat, Owned(r, b) PROVE Owned(r, b)'
    BY DEF StaysOwned
<1>1. get_node(r, b) \in Nodes /\ get_node(r, b)' = get_node(r, b)
    BY DEF Owned, get_node, Types, GraphTypes, AllGraphs
<1>2. Committed(get_node(r, b))'  BY <1>1 DEF StaysCommitted, Owned
<1> QED  BY <1>1, <1>2 DEF Owned

\* The items of a sequence that has got one more.
LEMMA AppendItem ==
    ASSUME NEW S, NEW s \in Seq(S), NEW e \in S
    PROVE  /\ Append(s, e) \in Seq(S) /\ Len(Append(s, e)) = Len(s) + 1
           /\ \A i \in DOMAIN Append(s, e) :
                 (i \in DOMAIN s /\ Append(s, e)[i] = s[i])
                     \/ (i = Len(s) + 1 /\ Append(s, e)[i] = e)
           /\ \A i \in DOMAIN s : i \in DOMAIN Append(s, e) /\ Append(s, e)[i] = s[i]
OBVIOUS

\* A client in a call has a node.
LEMMA InCall ==
    ASSUME Types, NEW c \in Clients, c_pc[c] # "idle"
    PROVE  new_node[c] \in Nodes /\ new_node[c] \in 1 .. made
BY BoundAssumption DEF Types, ClientTypes, GraphTypes, Nodes

\* A sequence with a length has an item.
LEMMA NotEmpty ==
    ASSUME NEW S, NEW s \in Seq(S), Len(s) # 0
    PROVE  s # <<>>
OBVIOUS

\* What a client still has to look at.
LEMMA HeadOfTodo ==
    ASSUME Types, NEW c \in Clients, c_pc[c] \in {"count"} \cup Linking
    PROVE  /\ todo[c] \in Seq(Nodes \cup {nullptr}) /\ Len(todo[c]) \in Nat \ {0}
           /\ Head(todo[c]) \in Nodes \cup {nullptr} /\ Head(todo[c]) = todo[c][1]
           /\ Tail(todo[c]) \in Seq(Nodes \cup {nullptr})
           /\ Len(Tail(todo[c])) = Len(todo[c]) - 1
           /\ \A i \in DOMAIN Tail(todo[c]) :
                 i + 1 \in DOMAIN todo[c] /\ Tail(todo[c])[i] = todo[c][i + 1]
BY DEF Types, ClientTypes

\* Nobody comes to the store of a bitmap.
KeepsRegs == \A d \in Clients : c_pc'[d] = "bit_store" =>
    c_pc[d] = "bit_store" /\ todo'[d] = todo[d] /\ reg'[d] = reg[d]

\* Bits name committed nodes as long as nobody sets one.
LEMMA BitsKept ==
    ASSUME Types, Structure, StaysOwned, KeepsRegs,
           UNCHANGED <<fast_down_strams, fast_down_strams_bak>>
    PROVE  BitsOwned'
<1>0. Bits \subseteq Nat /\ NodeBits \subseteq Bits  BY BoundAssumption DEF Bits, NodeBits
<1>1. \A r \in Nodes : \A b \in fast_down_strams'[r] : Owned(r, b)'
    BY <1>0 DEF Structure, BitsOwned, StaysOwned, Types, NodeTypes
<1>2. \A r \in Nodes : \A b \in fast_down_strams_bak'[r] \ {fast_node_max_num} : Owned(r, b)'
    BY <1>0 DEF Structure, BitsOwned, StaysOwned, Types, NodeTypes
<1>3. ASSUME NEW d \in Clients, c_pc'[d] = "bit_store", NEW b \in reg'[d]
      PROVE  Owned(Head(todo[d]), b)'
    <2>1. c_pc[d] = "bit_store" /\ todo'[d] = todo[d] /\ reg'[d] = reg[d]
        BY <1>3 DEF KeepsRegs
    <2>2. Head(todo[d]) \in Nodes
        BY <2>1, HeadOfTodo DEF Linking, Structure, Tested
    <2>3. b \in Nat /\ Owned(Head(todo[d]), b)
        BY <1>0, <1>3, <2>1 DEF Structure, BitsOwned, Types, ClientTypes
    <2> QED  BY <2>1, <2>2, <2>3 DEF StaysOwned
<1> QED  BY <1>1, <1>2, <1>3 DEF BitsOwned

\* So do the items of down_streams and g_down_streams.
LEMMA ListedKept ==
    ASSUME Types, Structure, StaysCommitted,
           UNCHANGED <<down_streams, g_down_streams, parent_graph>>
    PROVE  Listed'
<1>1. \A r \in Nodes : \A i \in DOMAIN down_streams[r] : down_streams[r][i] \in Nodes
    BY DEF Types, NodeTypes
<1>2. \A g \in AllGraphs : \A i \in DOMAIN g_down_streams[g] : g_down_streams[g][i] \in Nodes
    BY DEF Types, GraphTypes
<1> QED  BY <1>1, <1>2 DEF Structure, Listed, StaysCommitted

\* The call for one required node returns.
LEMMA NextEdgeKept ==
    ASSUME Types, Structure, NEW c \in Clients, NEW from \in Linking, NextEdge(c, from),
           UNCHANGED <<new_node, target, reg, parent_graph, node_id, made>>
    PROVE  /\ ClientTypes' /\ StaysCommitted /\ KeepsRegs
           /\ Belongs' /\ Distinct' /\ Homed' /\ Told' /\ Tested'
<1>1. c_pc[c] = from /\ c_pc[c] \in {"count"} \cup Linking
    BY DEF NextEdge, CGo
<1>2. /\ c_pc' = [c_pc EXCEPT ![c] = IF Len(todo[c]) = 1 THEN "idle" ELSE "edge"]
      /\ todo' = [todo EXCEPT ![c] = Tail(todo[c])]
    BY DEF NextEdge, CGo
<1>3. new_node[c] \in 1 .. made  BY <1>1, InCall DEF Linking
<1>4. /\ Tail(todo[c]) \in Seq(Nodes \cup {nullptr})
      /\ Len(todo[c]) # 1 => Tail(todo[c]) # <<>>
    <2>1. /\ Tail(todo[c]) \in Seq(Nodes \cup {nullptr})
          /\ Len(todo[c]) # 1 => Len(Tail(todo[c])) # 0
        BY <1>1, HeadOfTodo
    <2> QED  BY <2>1, NotEmpty
<1>5. ClientTypes'
    BY <1>1, <1>2, <1>3, <1>4 DEF Types, ClientTypes, Linking, ClientPoints, Waiting
<1>6. StaysCommitted
    BY <1>1, <1>2 DEF StaysCommitted, Committed, Early, Linking, Types, ClientTypes
<1>7. KeepsRegs  BY <1>2 DEF KeepsRegs, Types, ClientTypes
<1>8. Belongs'
    BY <1>1, <1>2 DEF Structure, Belongs, Types, ClientTypes, Linking, Waiting
<1>9. Distinct'
    BY <1>1, <1>2 DEF Structure, Distinct, Types, ClientTypes, Linking
<1>10. Told'
    <2> SUFFICES ASSUME NEW d \in Clients, c_pc'[d] \in {"register", "count"} \cup Linking,
                        NEW i \in DOMAIN todo'[d]
                 PROVE  \/ todo'[d][i] \in {nullptr, new_node[d]}
                        \/ parent_graph[todo'[d][i]] \in Graphs
        BY DEF Told
    <2>1. CASE d = c
        BY <1>1, <1>2, <2>1, HeadOfTodo DEF Structure, Told, Types, ClientTypes
    <2>2. CASE d # c
        BY <1>2, <2>2 DEF Structure, Told, Types, ClientTypes
    <2> QED  BY <2>1, <2>2
<1>11. Tested'
    BY <1>2 DEF Structure, Tested, IsFast, Types, ClientTypes
<1>12. Homed'
    BY <1>1, <1>2 DEF Structure, Homed, Types, ClientTypes, Linking
<1> QED  BY <1>5, <1>6, <1>7, <1>8, <1>9, <1>10, <1>11, <1>12

\* The releases change types of nothing.
LEMMA ReleaseTypes ==
    ASSUME Types, NEW n \in Nodes, Release(n)
    PROVE  wait_count' \in [Nodes -> Int] /\ task_queue' \in [Nodes -> Nat]
BY DEF Types, NodeTypes, GraphTypes, Release, ready, add_new_task

\* ready keeps the type of the task queue.
LEMMA ReadyTypes ==
    ASSUME Types, NEW n \in Nodes, UNCHANGED task_queue \/ ready(n)
    PROVE  task_queue' \in [Nodes -> Nat]
<1>1. task_queue \in [Nodes -> Nat]  BY DEF Types, GraphTypes
<1> QED  BY <1>1 DEF ready, add_new_task

-----------------------------------------------------------------------------
(* Node::add_downstream *)

\* The test before an edge.
LEMMA TryEdgeLife ==
    ASSUME LifeInv, NEW c \in Clients, TryEdge(c)
    PROVE  LifeInv'
<1> USE DEF LifeInv
<1>0. c_pc[c] = "edge" /\ new_node[c] \in Nodes /\ new_node[c] \in 1 .. made
    BY InCall DEF TryEdge, CGo, NextEdge
<1>1. Types'
    BY <1>0 DEF Types, NodeTypes, GraphTypes, ClientTypes, WorkerTypes, TryEdge, CGo,
       IsFast, EdgeHolds, nodeVars, graphVars, clientVars, workerVars, boundVars,
       ClientPoints, Early, Linking, Waiting
<1>2. StaysCommitted
    BY <1>0 DEF StaysCommitted, Committed, TryEdge, CGo, IsFast, EdgeHolds, nodeVars,
       graphVars, clientVars, workerVars, boundVars, Early, Types, NodeTypes, GraphTypes,
       ClientTypes, WorkerTypes
<1>3. StaysOwned
    BY <1>2, OwnedKept DEF TryEdge, CGo, IsFast, EdgeHolds, nodeVars, graphVars, clientVars,
       workerVars, boundVars
<1>4. Belongs'
    BY <1>0 DEF Structure, Belongs, TryEdge, CGo, IsFast, EdgeHolds, nodeVars, graphVars,
       clientVars, workerVars, boundVars, Types, NodeTypes, GraphTypes, ClientTypes,
       WorkerTypes, ClientPoints, Early, Linking, Waiting
<1>5. Distinct'
    BY <1>0 DEF Structure, Distinct, TryEdge, CGo, IsFast, EdgeHolds, nodeVars, graphVars,
       clientVars, workerVars, boundVars, Types, NodeTypes, GraphTypes, ClientTypes,
       WorkerTypes, ClientPoints, Early, Linking, Waiting
<1>6. Homed'
    BY <1>0 DEF Structure, Homed, TryEdge, CGo, IsFast, EdgeHolds, nodeVars, graphVars,
       clientVars, workerVars, boundVars, Types, NodeTypes, GraphTypes, ClientTypes,
       WorkerTypes, ClientPoints, Early, Linking, Waiting
<1>7. GraphLists'
    BY <1>0 DEF Structure, GraphLists, TryEdge, CGo, IsFast, EdgeHolds, nodeVars, graphVars,
       clientVars, workerVars, boundVars, Types, NodeTypes, GraphTypes, ClientTypes,
       WorkerTypes, ClientPoints, Early, Linking, Waiting
<1>8. InGraph'
    BY <1>0 DEF Structure, InGraph, TryEdge, CGo, IsFast, EdgeHolds, nodeVars, graphVars,
       clientVars, workerVars, boundVars, Types, NodeTypes, GraphTypes, ClientTypes,
       WorkerTypes, ClientPoints, Early, Linking, Waiting
<1>9. BitsOwned'
    <2>1. KeepsRegs  BY DEF KeepsRegs, TryEdge, CGo, IsFast, EdgeHolds, nodeVars, graphVars,
        clientVars, workerVars, boundVars, Types, ClientTypes
    <2> QED  BY <1>3, <2>1, BitsKept DEF TryEdge, CGo, IsFast, EdgeHolds, nodeVars,
        graphVars, clientVars, workerVars, boundVars
<1>10. Listed'
    BY <1>2, ListedKept DEF TryEdge, CGo, IsFast, EdgeHolds, nodeVars, graphVars,
       clientVars, workerVars, boundVars
<1>11. Told'
    BY <1>0 DEF Structure, Told, Belongs, TryEdge, CGo, IsFast, EdgeHolds, nodeVars,
       graphVars, clientVars, workerVars, boundVars, Types, NodeTypes, GraphTypes,
       ClientTypes, WorkerTypes, ClientPoints, Early, Linking, Waiting
<1>12. Tested'
    <2> SUFFICES ASSUME NEW d \in Clients PROVE LET r == Head(todo[d]) IN
          /\ c_pc'[d] \in {"bit_load", "bit_store", "read_bak"} =>
                r \notin {nullptr, new_node[d]} /\ IsFast(r, new_node[d])
          /\ c_pc'[d] = "push" => r \notin {nullptr, new_node[d]} /\ ~IsFast(r, new_node[d])
        BY DEF Tested, TryEdge, IsFast, nodeVars, CGo
    <2>1. CASE d = c
        BY <1>0, <2>1 DEF TryEdge, EdgeHolds, CGo, Types, ClientTypes
    <2>2. CASE d # c
        BY <2>2 DEF TryEdge, CGo, Types, ClientTypes, Structure, Tested
    <2> QED  BY <2>1, <2>2
<1>13. Placement'
    BY <1>2, PlacementKept DEF TryEdge, nodeVars, graphVars, clientVars, workerVars, boundVars
<1> QED
    BY <1>1, <1>4, <1>5, <1>6, <1>7, <1>8, <1>9, <1>10, <1>11, <1>12, <1>13 DEF Structure

\* A requirement that holds nothing up.
LEMMA SkipEdgeLife ==
    ASSUME LifeInv, NEW c \in Clients, SkipEdge(c)
    PROVE  LifeInv'
<1> USE DEF LifeInv
<1>0. c_pc[c] = "edge" /\ new_node[c] \in Nodes /\ NextEdge(c, "edge")
    BY InCall DEF SkipEdge, CGo, NextEdge
<1>e. /\ ClientTypes' /\ StaysCommitted /\ KeepsRegs
      /\ Belongs' /\ Distinct' /\ Homed' /\ Told' /\ Tested'
    BY <1>0, NextEdgeKept DEF SkipEdge, nodeVars, graphVars, clientVars, workerVars,
       boundVars, Linking
<1>1. Types'
    BY <1>0, <1>e, ReleaseTypes DEF Types, NodeTypes, GraphTypes, ClientTypes, WorkerTypes,
       SkipEdge, nodeVars, graphVars, clientVars, workerVars, boundVars
<1>2. StaysCommitted
    BY <1>e
<1>3. StaysOwned
    BY <1>2, OwnedKept DEF SkipEdge, CGo, nodeVars, graphVars, clientVars, workerVars, boundVars
<1>4. Belongs'
    BY <1>e
<1>5. Distinct'
    BY <1>e
<1>6. Homed'
    BY <1>e
<1>7. GraphLists'
    BY <1>0 DEF Structure, GraphLists, SkipEdge, CGo, nodeVars, graphVars, clientVars,
       workerVars, boundVars, Types, NodeTypes, GraphTypes, ClientTypes, WorkerTypes,
       ClientPoints, Early, Linking, Waiting
<1>8. InGraph'
    BY <1>0 DEF Structure, InGraph, SkipEdge, CGo, nodeVars, graphVars, clientVars,
       workerVars, boundVars, Types, NodeTypes, GraphTypes, ClientTypes, WorkerTypes,
       ClientPoints, Early, Linking, Waiting
<1>9. BitsOwned'
    BY <1>3, <1>e, BitsKept DEF SkipEdge, nodeVars, graphVars, clientVars, workerVars, boundVars
<1>10. Listed'
    BY <1>2, ListedKept DEF SkipEdge, CGo, nodeVars, graphVars, clientVars, workerVars,
       boundVars
<1>11. Told'
    BY <1>e
<1>12. Tested'
    BY <1>e
<1>13. Placement'
    <2>1. Committed(new_node[c])
        BY <1>0, InCall DEF Committed, Structure, Distinct, Early
    <2> QED  BY <1>0, <1>2, <2>1, ReleaseKept DEF SkipEdge, nodeVars, graphVars, clientVars,
        workerVars, boundVars
<1> QED
    BY <1>1, <1>4, <1>5, <1>6, <1>7, <1>8, <1>9, <1>10, <1>11, <1>12, <1>13 DEF Structure

\* The bit is there already, or will be set.
LEMMA BitLoadLife ==
    ASSUME LifeInv, NEW c \in Clients, BitLoad(c)
    PROVE  LifeInv'
<1> USE DEF LifeInv
<1>0. c_pc[c] = "bit_load" /\ new_node[c] \in Nodes /\ new_node[c] \in 1 .. made
    BY InCall DEF BitLoad, CGo
<1>r. wait_count' \in [Nodes -> Int] /\ task_queue' \in [Nodes -> Nat]
    BY <1>0, ReleaseTypes DEF BitLoad, Types, NodeTypes, GraphTypes
<1>h. Head(todo[c]) \in Nodes
    BY <1>0, HeadOfTodo DEF Linking, Structure, Tested
<1>p. \E to \in {"read_bak", "bit_store"} : c_pc' = [c_pc EXCEPT ![c] = to]
    BY DEF BitLoad, CGo
<1>1. Types'
    <2>1. NodeTypes'  BY <1>r DEF BitLoad, Types, NodeTypes, nodeVars, boundVars
    <2>2. GraphTypes'  BY <1>r DEF BitLoad, Types, GraphTypes, graphVars, boundVars
    <2>3. reg' \in [Clients -> SUBSET NodeBits]
        <3>1. fast_down_strams[Head(todo[c])] \in SUBSET NodeBits
            BY <1>h DEF Types, NodeTypes
        <3> QED  BY <3>1 DEF BitLoad, Types, ClientTypes
    <2>4. /\ c_pc' \in [Clients -> ClientPoints]
          /\ \A d \in Clients : c_pc[d] = "idle" => c_pc'[d] = "idle"
          /\ \A d \in Clients : c_pc'[d] \in {"count"} \cup Linking =>
                c_pc[d] \in {"count"} \cup Linking
        BY <1>0, <1>p DEF Types, ClientTypes, ClientPoints, Linking
    <2>5. UNCHANGED <<new_node, target, todo, made>>  BY DEF BitLoad, boundVars
    <2>6. ClientTypes'  BY <2>3, <2>4, <2>5 DEF Types, ClientTypes
    <2>7. WorkerTypes'  BY DEF BitLoad, Types, WorkerTypes, workerVars
    <2> QED  BY <2>1, <2>2, <2>6, <2>7 DEF Types
<1>2. StaysCommitted
    BY <1>0 DEF StaysCommitted, Committed, BitLoad, CGo, nodeVars, graphVars, clientVars,
       workerVars, boundVars, Early, Types, NodeTypes, GraphTypes, ClientTypes, WorkerTypes
<1>3. StaysOwned
    BY <1>2, OwnedKept DEF BitLoad, CGo, nodeVars, graphVars, clientVars, workerVars, boundVars
<1>4. Belongs'
    BY <1>0 DEF Structure, Belongs, BitLoad, CGo, nodeVars, graphVars, clientVars,
       workerVars, boundVars, Types, NodeTypes, GraphTypes, ClientTypes, WorkerTypes,
       ClientPoints, Early, Linking, Waiting
<1>5. Distinct'
    BY <1>0 DEF Structure, Distinct, BitLoad, CGo, nodeVars, graphVars, clientVars,
       workerVars, boundVars, Types, NodeTypes, GraphTypes, ClientTypes, WorkerTypes,
       ClientPoints, Early, Linking, Waiting
<1>6. Homed'
    BY <1>0 DEF Structure, Homed, BitLoad, CGo, nodeVars, graphVars, clientVars, workerVars,
       boundVars, Types, NodeTypes, GraphTypes, ClientTypes, WorkerTypes, ClientPoints,
       Early, Linking, Waiting
<1>7. GraphLists'
    BY <1>0 DEF Structure, GraphLists, BitLoad, CGo, nodeVars, graphVars, clientVars,
       workerVars, boundVars, Types, NodeTypes, GraphTypes, ClientTypes, WorkerTypes,
       ClientPoints, Early, Linking, Waiting
<1>8. InGraph'
    BY <1>0 DEF Structure, InGraph, BitLoad, CGo, nodeVars, graphVars, clientVars,
       workerVars, boundVars, Types, NodeTypes, GraphTypes, ClientTypes, WorkerTypes,
       ClientPoints, Early, Linking, Waiting
<1>9. BitsOwned'
    <2>1. CASE c_pc'[c] = "read_bak"
        <3>1. KeepsRegs  BY <2>1 DEF KeepsRegs, BitLoad, CGo, Types, ClientTypes
        <3> QED  BY <1>3, <3>1, BitsKept DEF BitLoad, nodeVars, graphVars, clientVars,
            workerVars, boundVars
    <2>2. CASE reg' = [reg EXCEPT ![c] = fast_down_strams[Head(todo[c])]]
        <3>1. ASSUME NEW b \in fast_down_strams[Head(todo[c])]
              PROVE  Owned(Head(todo[c]), b)'
            <4>1. b \in Nat
                BY <1>h, <3>1, BoundAssumption DEF Types, NodeTypes, NodeBits, Bits
            <4>2. Owned(Head(todo[c]), b)
                BY <1>h, <3>1 DEF Structure, BitsOwned
            <4> QED  BY <1>3, <1>h, <4>1, <4>2 DEF StaysOwned, BitLoad
        <3>2. ASSUME NEW d \in Clients \ {c}, c_pc[d] = "bit_store", NEW b \in reg[d]
              PROVE  Owned(Head(todo[d]), b)'
            <4>1. Head(todo[d]) \in Nodes
                BY <3>2, HeadOfTodo DEF Linking, Structure, Tested
            <4>2. b \in Nat
                BY <3>2, BoundAssumption DEF Types, ClientTypes, NodeBits, Bits
            <4>3. Owned(Head(todo[d]), b)  BY <3>2 DEF Structure, BitsOwned
            <4> QED  BY <1>3, <4>1, <4>2, <4>3 DEF StaysOwned, BitLoad
        <3>3. \A r \in Nodes : \A b \in fast_down_strams'[r] : Owned(r, b)'
            BY <1>3, BoundAssumption
               DEF Structure, BitsOwned, StaysOwned, Types, NodeTypes, NodeBits, Bits, BitLoad
        <3>4. \A r \in Nodes : \A b \in fast_down_strams_bak'[r] \ {fast_node_max_num} :
                 Owned(r, b)'
            BY <1>3, BoundAssumption
               DEF Structure, BitsOwned, StaysOwned, Types, NodeTypes, NodeBits, Bits, BitLoad
        <3>5. ASSUME NEW d \in Clients, c_pc'[d] = "bit_store", NEW b \in reg'[d]
              PROVE  Owned(Head(todo[d]), b)'
            BY <2>2, <3>1, <3>2, <3>5 DEF BitLoad, CGo, Types, ClientTypes
        <3> QED  BY <3>3, <3>4, <3>5 DEF BitsOwned
    <2> QED  BY <2>1, <2>2 DEF BitLoad, CGo, Types, ClientTypes
<1>10. Listed'
    BY <1>2, ListedKept DEF BitLoad, CGo, nodeVars, graphVars, clientVars, workerVars, boundVars
<1>11. Told'
    BY <1>0, <1>p DEF Structure, Told, BitLoad, Linking, Types, ClientTypes
<1>12. Tested'
    BY SMTT(60), <1>0 DEF Structure, Tested, Belongs, IsFast, BitLoad, CGo, nodeVars,
       graphVars, clientVars, workerVars, boundVars, Types, NodeTypes, GraphTypes,
       ClientTypes, WorkerTypes, ClientPoints, Early, Linking, Waiting
<1>13. Placement'
    <2>1. CASE Release(new_node[c])
        <3>1. Committed(new_node[c])
            BY <1>0 DEF Committed, Structure, Distinct, Early
        <3> QED  BY <1>0, <1>2, <2>1, <3>1, ReleaseKept DEF BitLoad, nodeVars, graphVars,
            clientVars, workerVars, boundVars
    <2>2. CASE UNCHANGED <<wait_count, task_queue>>
        BY <1>2, <2>2, PlacementKept DEF BitLoad, nodeVars, graphVars, clientVars,
           workerVars, boundVars
    <2> QED  BY <2>1, <2>2 DEF BitLoad
<1> QED
    BY <1>1, <1>4, <1>5, <1>6, <1>7, <1>8, <1>9, <1>10, <1>11, <1>12, <1>13 DEF Structure

\* The bit is stored.
LEMMA BitStoreLife ==
    ASSUME LifeInv, NEW c \in Clients, BitStore(c)
    PROVE  LifeInv'
<1> USE DEF LifeInv
<1>0. c_pc[c] = "bit_store" /\ new_node[c] \in Nodes /\ new_node[c] \in 1 .. made
    BY InCall DEF BitStore, CGo
<1>h. Head(todo[c]) \in Nodes /\ node_id[new_node[c]] \in NodeBits
    BY <1>0, HeadOfTodo, BoundAssumption
       DEF Linking, Structure, Tested, IsFast, NodeBits, Bits, Types, NodeTypes
<1>s. fast_down_strams' = [fast_down_strams EXCEPT
          ![Head(todo[c])] = reg[c] \cup {node_id[new_node[c]]}]
    BY <1>0, <1>h DEF BitStore, bit_map_set, Structure, Tested, IsFast
<1>1. Types'
    BY SMTT(60), <1>0, <1>h, <1>s DEF Types, NodeTypes, GraphTypes, ClientTypes,
       WorkerTypes, BitStore, CGo, nodeVars, graphVars, clientVars, workerVars, boundVars,
       ClientPoints, Early, Linking, Waiting
<1>2. StaysCommitted
    BY <1>0 DEF StaysCommitted, Committed, BitStore, CGo, nodeVars, graphVars, clientVars,
       workerVars, boundVars, Early, Types, NodeTypes, GraphTypes, ClientTypes, WorkerTypes
<1>3. StaysOwned
    BY <1>2, OwnedKept DEF BitStore, CGo, nodeVars, graphVars, clientVars, workerVars, boundVars
<1>4. Belongs'
    BY <1>0 DEF Structure, Belongs, BitStore, CGo, nodeVars, graphVars, clientVars,
       workerVars, boundVars, Types, NodeTypes, GraphTypes, ClientTypes, WorkerTypes,
       ClientPoints, Early, Linking, Waiting
<1>5. Distinct'
    BY <1>0 DEF Structure, Distinct, BitStore, CGo, nodeVars, graphVars, clientVars,
       workerVars, boundVars, Types, NodeTypes, GraphTypes, ClientTypes, WorkerTypes,
       ClientPoints, Early, Linking, Waiting
<1>6. Homed'
    BY <1>0 DEF Structure, Homed, BitStore, CGo, nodeVars, graphVars, clientVars,
       workerVars, boundVars, Types, NodeTypes, GraphTypes, ClientTypes, WorkerTypes,
       ClientPoints, Early, Linking, Waiting
<1>7. GraphLists'
    BY <1>0 DEF Structure, GraphLists, BitStore, CGo, nodeVars, graphVars, clientVars,
       workerVars, boundVars, Types, NodeTypes, GraphTypes, ClientTypes, WorkerTypes,
       ClientPoints, Early, Linking, Waiting
<1>8. InGraph'
    BY <1>0 DEF Structure, InGraph, BitStore, CGo, nodeVars, graphVars, clientVars,
       workerVars, boundVars, Types, NodeTypes, GraphTypes, ClientTypes, WorkerTypes,
       ClientPoints, Early, Linking, Waiting
<1>9. BitsOwned'
    <2>0. Bits \subseteq Nat /\ NodeBits \subseteq Bits  BY BoundAssumption DEF Bits, NodeBits
    <2>1. Owned(Head(todo[c]), node_id[new_node[c]])
        <3>1. parent_graph[Head(todo[c])] = parent_graph[new_node[c]]
              /\ parent_graph[new_node[c]] \in Graphs
            BY <1>0 DEF Structure, Tested, Belongs, IsFast, Linking
        <3>2. Committed(new_node[c])
            BY <1>0 DEF Committed, Structure, Distinct, Early
        <3> QED  BY <1>0, <3>1, <3>2 DEF Structure, InGraph, Owned, get_node
    <2>2. \A b \in reg[c] : Owned(Head(todo[c]), b)
        BY <1>0 DEF Structure, BitsOwned
    <2>3. \A b \in reg[c] \cup {node_id[new_node[c]]} : b \in Nat
        BY <1>h, <2>0 DEF Types, ClientTypes
    <2>4. \A r \in Nodes : \A b \in fast_down_strams'[r] : Owned(r, b) /\ b \in Nat
        BY <1>h, <1>s, <2>0, <2>1, <2>2, <2>3 DEF Structure, BitsOwned, Types, NodeTypes
    <2>5. \A r \in Nodes : \A b \in fast_down_strams_bak'[r] \ {fast_node_max_num} :
             Owned(r, b) /\ b \in Nat
        BY <2>0 DEF Structure, BitsOwned, Types, NodeTypes, BitStore
    <2>6. ASSUME NEW d \in Clients, c_pc'[d] = "bit_store", NEW b \in reg'[d]
          PROVE  Owned(Head(todo[d]), b)'
        <3>1. d # c /\ c_pc[d] = "bit_store" /\ b \in reg[d] /\ todo'[d] = todo[d]
            BY <2>6 DEF BitStore, CGo, Types, ClientTypes
        <3>2. Head(todo[d]) \in Nodes
            BY <3>1, HeadOfTodo DEF Linking, Structure, Tested
        <3>3. Owned(Head(todo[d]), b) /\ b \in Nat
            BY <2>0, <3>1 DEF Structure, BitsOwned, Types, ClientTypes
        <3> QED  BY <1>3, <3>1, <3>2, <3>3 DEF StaysOwned
    <2> QED  BY <1>3, <2>4, <2>5, <2>6 DEF BitsOwned, StaysOwned
<1>10. Listed'
    BY <1>2, ListedKept DEF BitStore, CGo, nodeVars, graphVars, clientVars, workerVars,
       boundVars
<1>11. Told'
    BY <1>0 DEF Structure, Told, Belongs, BitStore, CGo, nodeVars, graphVars, clientVars,
       workerVars, boundVars, Types, NodeTypes, GraphTypes, ClientTypes, WorkerTypes,
       ClientPoints, Early, Linking, Waiting
<1>12. Tested'
    BY <1>0 DEF Structure, Tested, Belongs, IsFast, BitStore, CGo, nodeVars, graphVars,
       clientVars, workerVars, boundVars, Types, NodeTypes, GraphTypes, ClientTypes,
       WorkerTypes, ClientPoints, Early, Linking, Waiting
<1>13. Placement'
    BY <1>2, PlacementKept DEF BitStore, nodeVars, graphVars, clientVars, workerVars, boundVars
<1> QED
    BY <1>1, <1>4, <1>5, <1>6, <1>7, <1>8, <1>9, <1>10, <1>11, <1>12, <1>13 DEF Structure

\* The new node releases itself, or not.
LEMMA ReadBakLife ==
    ASSUME LifeInv, NEW c \in Clients, ReadBak(c)
    PROVE  LifeInv'
<1> USE DEF LifeInv
<1>0. c_pc[c] = "read_bak" /\ new_node[c] \in Nodes /\ NextEdge(c, "read_bak")
    BY InCall DEF ReadBak, CGo, NextEdge
<1>e. /\ ClientTypes' /\ StaysCommitted /\ KeepsRegs
      /\ Belongs' /\ Distinct' /\ Homed' /\ Told' /\ Tested'
    BY <1>0, NextEdgeKept DEF ReadBak, nodeVars, graphVars, clientVars, workerVars,
       boundVars, Linking
<1>r. wait_count' \in [Nodes -> Int] /\ task_queue' \in [Nodes -> Nat]
    BY <1>0, ReleaseTypes DEF ReadBak, Types, NodeTypes, GraphTypes
<1>1. Types'
    BY <1>e, <1>r DEF Types, NodeTypes, GraphTypes, ClientTypes, WorkerTypes, ReadBak,
       nodeVars, graphVars, clientVars, workerVars, boundVars
<1>2. StaysCommitted
    BY <1>e
<1>3. StaysOwned
    BY <1>2, OwnedKept DEF ReadBak, CGo, nodeVars, graphVars, clientVars, workerVars, boundVars
<1>4. Belongs'
    BY <1>e
<1>5. Distinct'
    BY <1>e
<1>6. Homed'
    BY <1>e
<1>7. GraphLists'
    BY <1>0 DEF Structure, GraphLists, ReadBak, CGo, nodeVars, graphVars, clientVars,
       workerVars, boundVars, Types, NodeTypes, GraphTypes, ClientTypes, WorkerTypes,
       ClientPoints, Early, Linking, Waiting
<1>8. InGraph'
    BY <1>0 DEF Structure, InGraph, ReadBak, CGo, nodeVars, graphVars, clientVars,
       workerVars, boundVars, Types, NodeTypes, GraphTypes, ClientTypes, WorkerTypes,
       ClientPoints, Early, Linking, Waiting
<1>9. BitsOwned'
    BY <1>3, <1>e, BitsKept DEF ReadBak, nodeVars, graphVars, clientVars, workerVars, boundVars
<1>10. Listed'
    BY <1>2, ListedKept DEF ReadBak, CGo, nodeVars, graphVars, clientVars, workerVars, boundVars
<1>11. Told'
    BY <1>e
<1>12. Tested'
    BY <1>e
<1>13. Placement'
    <2>1. CASE Release(new_node[c])
        <3>1. Committed(new_node[c])
            BY <1>0, InCall DEF Committed, Structure, Distinct, Early
        <3> QED  BY <1>0, <1>2, <2>1, <3>1, ReleaseKept DEF ReadBak, nodeVars, graphVars,
            clientVars, workerVars, boundVars
    <2>2. CASE UNCHANGED <<wait_count, task_queue>>
        BY <1>2, <2>2, PlacementKept DEF ReadBak, nodeVars, graphVars, clientVars,
           workerVars, boundVars
    <2> QED  BY <2>1, <2>2 DEF ReadBak
<1> QED
    BY <1>1, <1>4, <1>5, <1>6, <1>7, <1>8, <1>9, <1>10, <1>11, <1>12, <1>13 DEF Structure

\* The new node is put into the list.
LEMMA PushDownstreamLife ==
    ASSUME LifeInv, NEW c \in Clients, PushDownstream(c)
    PROVE  LifeInv'
<1> USE DEF LifeInv
<1>0. c_pc[c] = "push" /\ new_node[c] \in Nodes /\ NextEdge(c, "push")
    BY InCall DEF PushDownstream, CGo, NextEdge
<1>e. /\ ClientTypes' /\ StaysCommitted /\ KeepsRegs
      /\ Belongs' /\ Distinct' /\ Homed' /\ Told' /\ Tested'
    BY <1>0, NextEdgeKept DEF PushDownstream, nodeVars, graphVars, clientVars, workerVars,
       boundVars, Linking
<1>r. wait_count' \in [Nodes -> Int] /\ task_queue' \in [Nodes -> Nat]
    BY <1>0, ReleaseTypes DEF PushDownstream, Types, NodeTypes, GraphTypes
<1>h. Head(todo[c]) \in Nodes
    BY <1>0, HeadOfTodo DEF Linking, Structure, Tested
<1>c. Committed(new_node[c])
    BY <1>0, InCall DEF Committed, Structure, Distinct, Early
<1>d. \/ UNCHANGED down_streams
      \/ down_streams' = [down_streams EXCEPT
            ![Head(todo[c])] = Append(down_streams[Head(todo[c])], new_node[c])]
    BY DEF PushDownstream
<1>1. Types'
    <2>1. down_streams' \in [Nodes -> Seq(Nodes)]
        <3>1. Append(down_streams[Head(todo[c])], new_node[c]) \in Seq(Nodes)
            BY <1>0, <1>h, AppendItem DEF Types, NodeTypes
        <3> QED  BY <1>h, <1>d, <3>1 DEF Types, NodeTypes
    <2> QED  BY <1>e, <1>r, <2>1 DEF Types, NodeTypes, GraphTypes, ClientTypes, WorkerTypes,
        PushDownstream, nodeVars, graphVars, clientVars, workerVars, boundVars
<1>2. StaysCommitted
    BY <1>e
<1>3. StaysOwned
    BY <1>2, OwnedKept DEF PushDownstream, CGo, nodeVars, graphVars, clientVars, workerVars,
       boundVars
<1>4. Belongs'
    BY <1>e
<1>5. Distinct'
    BY <1>e
<1>6. Homed'
    BY <1>e
<1>7. GraphLists'
    BY <1>0 DEF Structure, GraphLists, PushDownstream, CGo, nodeVars, graphVars, clientVars,
       workerVars, boundVars, Types, NodeTypes, GraphTypes, ClientTypes, WorkerTypes,
       ClientPoints, Early, Linking, Waiting
<1>8. InGraph'
    BY <1>0 DEF Structure, InGraph, PushDownstream, CGo, nodeVars, graphVars, clientVars,
       workerVars, boundVars, Types, NodeTypes, GraphTypes, ClientTypes, WorkerTypes,
       ClientPoints, Early, Linking, Waiting
<1>9. BitsOwned'
    BY <1>3, <1>e, BitsKept DEF PushDownstream, nodeVars, graphVars, clientVars, workerVars,
       boundVars
<1>10. Listed'
    <2>1. CASE UNCHANGED down_streams
        BY <1>2, <2>1, ListedKept DEF PushDownstream, nodeVars, graphVars, clientVars,
           workerVars, boundVars
    <2>2. CASE down_streams' = [down_streams EXCEPT
                 ![Head(todo[c])] = Append(down_streams[Head(todo[c])], new_node[c])]
        <3>1. parent_graph[new_node[c]] \in Graphs
            BY <1>0 DEF Structure, Belongs, Linking
        <3>2. ASSUME NEW r \in Nodes, NEW i \in DOMAIN down_streams'[r]
              PROVE  /\ down_streams'[r][i] \in Nodes /\ Committed(down_streams'[r][i])
                     /\ parent_graph[down_streams'[r][i]] \in Graphs
            <4>1. CASE i \in DOMAIN down_streams[r] /\ down_streams'[r][i] = down_streams[r][i]
                BY <4>1 DEF Structure, Listed, Types, NodeTypes
            <4>2. CASE down_streams'[r][i] = new_node[c]
                BY <1>0, <1>c, <3>1, <4>2
            <4>3. CASE r = Head(todo[c])
                BY SMTT(60), <1>0, <1>h, <2>2, <3>2, <4>1, <4>2, <4>3, AppendItem DEF Types,
                   NodeTypes
            <4> QED  BY <1>h, <2>2, <3>2, <4>1, <4>3 DEF Types, NodeTypes
        <3>3. \A g \in AllGraphs : \A i \in DOMAIN g_down_streams[g] :
                 g_down_streams[g][i] \in Nodes
            BY DEF Types, GraphTypes
        <3> QED  BY <1>2, <3>2, <3>3
                 DEF Structure, Listed, StaysCommitted, PushDownstream, nodeVars, graphVars,
                 clientVars, workerVars, boundVars
    <2> QED  BY <1>d, <2>1, <2>2
<1>11. Told'
    BY <1>e
<1>12. Tested'
    BY <1>e
<1>13. Placement'
    <2>1. CASE Release(new_node[c])
        BY <1>0, <1>2, <1>c, <2>1, ReleaseKept DEF PushDownstream, nodeVars, graphVars,
           clientVars, workerVars, boundVars
    <2>2. CASE UNCHANGED <<wait_count, task_queue>>
        BY <1>2, <2>2, PlacementKept DEF PushDownstream, nodeVars, graphVars, clientVars,
           workerVars, boundVars
    <2> QED  BY <2>1, <2>2 DEF PushDownstream
<1> QED
    BY <1>1, <1>4, <1>5, <1>6, <1>7, <1>8, <1>9, <1>10, <1>11, <1>12, <1>13 DEF Structure

-----------------------------------------------------------------------------
(* create_edges *)

\* A call of create_edges begins.
LEMMA CountNodeLife ==
    ASSUME LifeInv, made < MaxNodes, NEW c \in Clients, NEW g \in Graphs,
           NEW reqs \in Requests(made + 1), CountNode(c, g, reqs)
    PROVE  LifeInv'
<1> USE DEF LifeInv
<1>0. /\ c_pc[c] = "idle" /\ c_pc' = [c_pc EXCEPT ![c] = "register"]
      /\ made + 1 \in Nodes /\ made \in Nat
    BY BoundAssumption DEF CountNode, CGo, Types, GraphTypes, Nodes
<1>q. /\ reqs \in Seq(Nodes \cup {nullptr})
      /\ \A i \in DOMAIN reqs : reqs[i] \in Nameable(made + 1)
    <2>1. PICK k \in 0 .. MaxReqs : reqs \in [1 .. k -> Nameable(made + 1)]
        BY DEF Requests
    <2>2. Nameable(made + 1) \subseteq Nodes \cup {nullptr}
        BY <1>0, BoundAssumption DEF Nameable, Nodes
    <2> QED  BY <2>1, <2>2, BoundAssumption
<1>u. parent_graph[made + 1] = nullptr  BY <1>0 DEF Structure, Homed
<1>r. ToSet(reqs) \ {made + 1, nullptr} \in SUBSET Nodes
    BY <1>q DEF ToSet
<1>1. Types'
    <2>1. NodeTypes'  BY <1>0, <1>r DEF Types, NodeTypes, CountNode, nodeVars, graphVars,
        clientVars, workerVars, boundVars
    <2>2. GraphTypes'
        BY SMTT(60), <1>0, BoundAssumption DEF Types, GraphTypes, CountNode, Nodes,
           AllGraphs, nodeVars, graphVars, clientVars, workerVars, boundVars
    <2>3. ClientTypes'
        <3>1. todo' \in [Clients -> Seq(Nodes \cup {nullptr})]
            BY <1>q DEF Types, ClientTypes, CountNode
        <3>2. c_pc' \in [Clients -> ClientPoints]
            BY <1>0 DEF Types, ClientTypes, ClientPoints
        <3>3. /\ new_node' \in [Clients -> Nodes \cup {nullptr}]
              /\ target' \in [Clients -> Graphs \cup {nullptr}]
              /\ reg' \in [Clients -> SUBSET NodeBits]
            BY <1>0 DEF Types, ClientTypes, CountNode
        <3>4. \A d \in Clients : c_pc'[d] # "idle" => new_node'[d] \in 1 .. made'
            BY <1>0 DEF Types, ClientTypes, CountNode
        <3>5. \A d \in Clients : c_pc'[d] \in {"count"} \cup Linking => todo'[d] # <<>>
            BY <1>0 DEF Types, ClientTypes, CountNode, Linking
        <3> QED  BY <3>1, <3>2, <3>3, <3>4, <3>5 DEF ClientTypes
    <2>4. WorkerTypes'  BY DEF Types, WorkerTypes, CountNode, nodeVars, graphVars,
        clientVars, workerVars, boundVars
    <2> QED  BY <2>1, <2>2, <2>3, <2>4 DEF Types
<1>2. StaysCommitted
    BY <1>0 DEF StaysCommitted, Committed, CountNode, Early, Types, ClientTypes
<1>3. StaysOwned
    BY <1>2, OwnedKept DEF CountNode, CGo, nodeVars, graphVars, clientVars, workerVars,
       boundVars
<1>4. Belongs'
    BY <1>0, <1>u DEF Structure, Belongs, CountNode, Linking, Waiting, Types, ClientTypes,
       nodeVars
<1>5. Distinct'
    BY <1>0 DEF Structure, Distinct, CountNode, Types, ClientTypes
<1>6. Homed'
    <2> SUFFICES ASSUME NEW m \in Nodes
                 PROVE  /\ m > made' => parent_graph[m] = nullptr
                        /\ m <= made' /\ parent_graph[m] = nullptr =>
                              \E d \in Clients : c_pc'[d] = "register" /\ new_node'[d] = m
        BY DEF Homed, CountNode, nodeVars
    <2>1. made' = made + 1 /\ m \in Int /\ (m > made => parent_graph[m] = nullptr)
        BY DEF Structure, Homed, CountNode, Nodes
    <2>2. c_pc'[c] = "register" /\ new_node'[c] = made + 1
        BY <1>0 DEF CountNode, Types, ClientTypes
    <2>3. ASSUME m <= made, parent_graph[m] = nullptr
          PROVE  \E d \in Clients : c_pc'[d] = "register" /\ new_node'[d] = m
        <3>1. PICK d \in Clients : c_pc[d] = "register" /\ new_node[d] = m
            BY <2>3 DEF Structure, Homed
        <3>2. c_pc'[d] = "register" /\ new_node'[d] = m
            BY <1>0, <3>1 DEF CountNode, Types, ClientTypes
        <3> QED  BY <3>2
    <2> QED  BY <1>0, <2>1, <2>2, <2>3
<1>7. GraphLists'
    BY <1>0 DEF Structure, GraphLists, CountNode, CGo, nodeVars, graphVars, clientVars,
       workerVars, boundVars, Types, NodeTypes, GraphTypes, ClientTypes, WorkerTypes,
       ClientPoints, Early, Linking, Waiting
<1>8. InGraph'
    BY <1>0 DEF Structure, InGraph, CountNode, CGo, nodeVars, graphVars, clientVars,
       workerVars, boundVars, Types, NodeTypes, GraphTypes, ClientTypes, WorkerTypes,
       ClientPoints, Early, Linking, Waiting
<1>9. BitsOwned'
    <2>1. KeepsRegs  BY DEF KeepsRegs, CountNode, CGo, nodeVars, graphVars, clientVars,
        workerVars, boundVars, Types, ClientTypes
    <2> QED  BY <1>3, <2>1, BitsKept DEF CountNode, CGo, nodeVars, graphVars, clientVars,
        workerVars, boundVars
<1>10. Listed'
    BY <1>2, ListedKept DEF CountNode, CGo, nodeVars, graphVars, clientVars, workerVars,
       boundVars
<1>11. Told'
    <2> SUFFICES ASSUME NEW d \in Clients, c_pc'[d] \in {"register", "count"} \cup Linking,
                        NEW i \in DOMAIN todo'[d]
                 PROVE  \/ todo'[d][i] \in {nullptr, new_node'[d]}
                        \/ parent_graph[todo'[d][i]] \in Graphs
        BY DEF Told, CountNode, nodeVars
    <2>1. CASE d = c
        BY <1>q, <2>1 DEF CountNode, Types, ClientTypes, Nameable
    <2>2. CASE d # c
        BY <1>0, <2>2 DEF CountNode, Structure, Told, Types, ClientTypes
    <2> QED  BY <2>1, <2>2
<1>12. Tested'
    BY <1>0 DEF Structure, Tested, IsFast, CountNode, Types, ClientTypes, nodeVars
<1>13. Placement'
    BY <1>2, PlacementKept DEF CountNode, CGo, nodeVars, graphVars, clientVars, workerVars,
       boundVars
<1> QED
    BY <1>1, <1>4, <1>5, <1>6, <1>7, <1>8, <1>9, <1>10, <1>11, <1>12, <1>13 DEF Structure

\* The node gets its number and its place.
LEMMA RegisterLife ==
    ASSUME LifeInv, NEW c \in Clients, Register(c)
    PROVE  LifeInv'
<1> USE DEF LifeInv
<1> DEFINE n == new_node[c]
           g == target[c]
<1>0. /\ c_pc[c] = "register" /\ n \in Nodes /\ n \in 1 .. made
      /\ g \in Graphs /\ parent_graph[n] = nullptr /\ nullptr \notin AllGraphs
    BY InCall, NameAssumption DEF Register, CGo, Structure, Belongs
<1>p. \E to \in {"ready", "count"} :
        c_pc' = [c_pc EXCEPT ![c] = to] /\ (to = "count" => todo[c] # <<>>)
    BY DEF Register, CGo
<1>a. /\ parent_graph' = [parent_graph EXCEPT ![n] = g]
      /\ node_id' = [node_id EXCEPT ![n] = Len(g_nodes[g])]
      /\ g_nodes' = [g_nodes EXCEPT ![g] = Append(g_nodes[g], n)]
    BY DEF Register
<1>g. /\ g_nodes[g] \in Seq(Nodes) /\ Append(g_nodes[g], n) \in Seq(Nodes)
      /\ Len(g_nodes[g]) \in Nat
    BY <1>0, AppendItem DEF Types, GraphTypes, AllGraphs
<1>o. \A m \in Nodes : parent_graph[m] \in AllGraphs =>
          m # n /\ parent_graph'[m] = parent_graph[m] /\ node_id'[m] = node_id[m]
    BY <1>0, <1>a DEF Types, NodeTypes
<1>l. \A h \in AllGraphs : \A i \in DOMAIN g_nodes[h] :
          /\ g_nodes[h][i] \in Nodes
          /\ i \in DOMAIN g_nodes'[h] /\ g_nodes'[h][i] = g_nodes[h][i]
    <2> SUFFICES ASSUME NEW h \in AllGraphs, NEW i \in DOMAIN g_nodes[h]
                 PROVE  /\ g_nodes[h][i] \in Nodes
                        /\ i \in DOMAIN g_nodes'[h] /\ g_nodes'[h][i] = g_nodes[h][i]
        OBVIOUS
    <2>1. CASE h = g
        BY <1>0, <1>a, <1>g, <2>1, AppendItem DEF Types, GraphTypes, AllGraphs
    <2>2. CASE h # g
        BY <1>0, <1>a, <2>2 DEF Types, GraphTypes, AllGraphs
    <2> QED  BY <2>1, <2>2
<1> HIDE DEF n, g
<1>1. Types'
    <2>1. NodeTypes'
        <3>1. parent_graph' \in [Nodes -> AllGraphs \cup {nullptr}]
            BY <1>0, <1>a DEF Types, NodeTypes, AllGraphs
        <3>2. node_id' \in [Nodes -> Nat]  BY <1>0, <1>a, <1>g DEF Types, NodeTypes
        <3>3. UNCHANGED <<status, wait_count, fast_down_strams, fast_down_strams_bak,
                          down_streams, required>>
            BY DEF Register, boundVars
        <3>4. NodeTypes  BY DEF Types
        <3> QED  BY <3>1, <3>2, <3>3, <3>4 DEF NodeTypes
    <2>2. GraphTypes'
        <3>1. g_nodes' \in [AllGraphs -> Seq(Nodes)]
            BY <1>0, <1>a, <1>g DEF Types, GraphTypes, AllGraphs
        <3> QED  BY <3>1 DEF Types, GraphTypes, Register, boundVars
    <2>3. ClientTypes'
        BY <1>0, <1>p DEF Types, ClientTypes, Register, Linking, ClientPoints, nodeVars,
           graphVars, clientVars, workerVars, boundVars, n, g
    <2>4. WorkerTypes'  BY DEF Types, WorkerTypes, Register, nodeVars, graphVars,
        clientVars, workerVars, boundVars
    <2> QED  BY <2>1, <2>2, <2>3, <2>4 DEF Types
<1>2. StaysCommitted
    BY <1>0, <1>p DEF StaysCommitted, Committed, Register, Early, Types, ClientTypes,
       nodeVars, graphVars, clientVars, workerVars, boundVars
<1>3. StaysOwned
    <2> SUFFICES ASSUME NEW r \in Nodes, NEW b \in Nat, Owned(r, b) PROVE Owned(r, b)'
        BY DEF StaysOwned
    <2>1. parent_graph[r] \in Graphs /\ b + 1 \in DOMAIN g_nodes[parent_graph[r]]
        BY DEF Owned
    <2>2. parent_graph'[r] = parent_graph[r]  BY <1>o, <2>1 DEF AllGraphs
    <2>3. /\ get_node(r, b) \in Nodes /\ get_node(r, b)' = get_node(r, b)
          /\ b + 1 \in DOMAIN g_nodes'[parent_graph[r]]
        BY <1>l, <2>1, <2>2 DEF get_node, AllGraphs
    <2>4. Committed(get_node(r, b))'  BY <1>2, <2>3 DEF StaysCommitted, Owned
    <2> QED  BY <2>1, <2>2, <2>3, <2>4 DEF Owned
<1>4. Belongs'
    <2> SUFFICES ASSUME NEW d \in Clients PROVE
          /\ c_pc'[d] = "register" => parent_graph'[new_node[d]] = nullptr /\ target[d] \in Graphs
          /\ c_pc'[d] \in {"ready", "count"} \cup Linking =>
                parent_graph'[new_node[d]] \in Graphs
          /\ c_pc'[d] \in Waiting => parent_graph'[new_node[d]] = d /\ target[d] \in Graphs
        BY DEF Belongs, Register
    <2>1. CASE d = c
        BY <1>0, <1>p, <1>a, <2>1 DEF Types, ClientTypes, NodeTypes, Waiting, n
    <2>2. CASE d # c /\ c_pc[d] # "idle"
        <3>1. new_node[d] # n /\ c_pc'[d] = c_pc[d]
            BY <1>0, <1>p, <2>2 DEF Structure, Distinct, Types, ClientTypes, n
        <3> QED  BY <1>a, <3>1, <2>2, InCall DEF Structure, Belongs, Types, NodeTypes
    <2>3. CASE d # c /\ c_pc[d] = "idle"
        BY <1>p, <2>3 DEF Types, ClientTypes, Linking, Waiting
    <2> QED  BY <2>1, <2>2, <2>3
<1>5. Distinct'
    BY <1>0, <1>p DEF Structure, Distinct, Register, Types, ClientTypes
<1>6. Homed'
    <2> SUFFICES ASSUME NEW m \in Nodes
                 PROVE  /\ m > made => parent_graph'[m] = nullptr
                        /\ m <= made /\ parent_graph'[m] = nullptr =>
                              \E d \in Clients : c_pc'[d] = "register" /\ new_node[d] = m
        BY DEF Homed, Register, boundVars
    <2>1. m > made => parent_graph'[m] = nullptr
        BY <1>0, <1>a DEF Structure, Homed, Types, NodeTypes, GraphTypes
    <2>2. ASSUME m <= made, parent_graph'[m] = nullptr
          PROVE  \E d \in Clients : c_pc'[d] = "register" /\ new_node[d] = m
        <3>1. m # n /\ parent_graph[m] = nullptr
            BY <1>0, <1>a, <2>2 DEF Types, NodeTypes, AllGraphs
        <3>2. PICK d \in Clients : c_pc[d] = "register" /\ new_node[d] = m
            BY <2>2, <3>1 DEF Structure, Homed
        <3>3. c_pc'[d] = "register"
            BY <1>p, <3>1, <3>2 DEF Types, ClientTypes, n
        <3> QED  BY <3>2, <3>3
    <2> QED  BY <2>1, <2>2
<1>7. GraphLists'
    <2> SUFFICES ASSUME NEW h \in Graphs, NEW i \in DOMAIN g_nodes'[h]
                 PROVE  /\ parent_graph'[g_nodes'[h][i]] = h
                        /\ node_id'[g_nodes'[h][i]] = i - 1
        BY DEF GraphLists
    <2>1. CASE i \in DOMAIN g_nodes[h]
        <3>1. parent_graph[g_nodes[h][i]] = h /\ node_id[g_nodes[h][i]] = i - 1
            BY <2>1 DEF Structure, GraphLists
        <3> QED  BY <1>o, <1>l, <2>1, <3>1 DEF AllGraphs
    <2>2. CASE i \notin DOMAIN g_nodes[h]
        <3>1. h = g  BY <1>0, <1>a, <2>2 DEF Types, GraphTypes, AllGraphs
        <3>2. i = Len(g_nodes[g]) + 1 /\ g_nodes'[h][i] = n
            BY <1>0, <1>a, <1>g, <2>2, <3>1, AppendItem DEF Types, GraphTypes, AllGraphs
        <3> QED  BY <1>0, <1>a, <1>g, <3>1, <3>2 DEF Types, NodeTypes
    <2> QED  BY <2>1, <2>2
<1>8. InGraph'
    <2> SUFFICES ASSUME NEW m \in Nodes, parent_graph'[m] \in Graphs
                 PROVE  /\ node_id'[m] + 1 \in DOMAIN g_nodes'[parent_graph'[m]]
                        /\ g_nodes'[parent_graph'[m]][node_id'[m] + 1] = m
        BY DEF InGraph
    <2>1. CASE m = n
        <3>1. parent_graph'[m] = g /\ node_id'[m] = Len(g_nodes[g])
            BY <1>0, <1>a, <2>1 DEF Types, NodeTypes
        <3>2. g_nodes'[g] = Append(g_nodes[g], n)
            BY <1>0, <1>a DEF Types, GraphTypes, AllGraphs
        <3> QED  BY <1>0, <1>g, <2>1, <3>1, <3>2
    <2>2. CASE m # n
        <3>1. parent_graph'[m] = parent_graph[m] /\ node_id'[m] = node_id[m]
            BY <1>a, <2>2 DEF Types, NodeTypes
        <3> QED  BY <1>l, <3>1 DEF Structure, InGraph, AllGraphs
    <2> QED  BY <2>1, <2>2
<1>9. BitsOwned'
    <2>1. KeepsRegs  BY <1>0, <1>p DEF KeepsRegs, Register, Types, ClientTypes
    <2> QED  BY <1>3, <2>1, BitsKept DEF Register
<1>10. Listed'
    <2>1. ASSUME NEW r \in Nodes, NEW i \in DOMAIN down_streams[r]
          PROVE  Committed(down_streams[r][i])' /\ parent_graph'[down_streams[r][i]] \in Graphs
        <3>1. down_streams[r][i] \in Nodes  BY <2>1 DEF Types, NodeTypes
        <3>2. /\ Committed(down_streams[r][i])
              /\ parent_graph[down_streams[r][i]] \in Graphs
            BY <2>1 DEF Structure, Listed
        <3>3. Committed(down_streams[r][i])'
            BY <1>2, <3>1, <3>2 DEF StaysCommitted, Register
        <3> QED  BY <1>o, <3>1, <3>2, <3>3 DEF AllGraphs
    <2>2. ASSUME NEW h \in AllGraphs, NEW i \in DOMAIN g_down_streams[h]
          PROVE  /\ Committed(g_down_streams[h][i])'
                 /\ parent_graph'[g_down_streams[h][i]] \in Clients
        <3>1. g_down_streams[h][i] \in Nodes  BY <2>2 DEF Types, GraphTypes
        <3>2. /\ Committed(g_down_streams[h][i])
              /\ parent_graph[g_down_streams[h][i]] \in Clients
            BY <2>2 DEF Structure, Listed
        <3>3. Committed(g_down_streams[h][i])'
            BY <1>2, <3>1, <3>2 DEF StaysCommitted, Register
        <3> QED  BY <1>o, <3>1, <3>2, <3>3 DEF AllGraphs
    <2>3. UNCHANGED <<down_streams, g_down_streams>>  BY DEF Register
    <2> QED  BY <2>1, <2>2, <2>3 DEF Listed
<1>11. Told'
    <2> SUFFICES ASSUME NEW d \in Clients, c_pc'[d] \in {"register", "count"} \cup Linking,
                        NEW i \in DOMAIN todo[d]
                 PROVE  \/ todo[d][i] \in {nullptr, new_node[d]}
                        \/ parent_graph'[todo[d][i]] \in Graphs
        BY DEF Told, Register
    <2>1. \/ todo[d][i] \in {nullptr, new_node[d]}
          \/ parent_graph[todo[d][i]] \in Graphs
        BY <1>0, <1>p DEF Structure, Told, Types, ClientTypes
    <2>2. todo[d][i] \in Nodes \cup {nullptr}  BY DEF Types, ClientTypes
    <2> QED  BY <1>o, <2>1, <2>2 DEF AllGraphs
<1>12. Tested'
    <2> SUFFICES ASSUME NEW d \in Clients,
                        c_pc'[d] \in {"bit_load", "bit_store", "read_bak", "push"}
                 PROVE  LET r == Head(todo[d]) IN
          /\ c_pc'[d] \in {"bit_load", "bit_store", "read_bak"} =>
                r \notin {nullptr, new_node[d]} /\ IsFast(r, new_node[d])'
          /\ c_pc'[d] = "push" => r \notin {nullptr, new_node[d]} /\ ~IsFast(r, new_node[d])'
        BY DEF Tested, Register, IsFast
    <2> DEFINE r == Head(todo[d])
    <2>1. d # c /\ c_pc[d] = c_pc'[d]  BY <1>p DEF Types, ClientTypes
    <2>2. r \notin {nullptr, new_node[d]} /\ r \in Nodes /\ r = todo[d][1] /\ 1 \in DOMAIN todo[d]
        BY <2>1, HeadOfTodo DEF Structure, Tested, Linking
    <2>3. parent_graph[r] \in Graphs /\ parent_graph[new_node[d]] \in Graphs
        BY <2>1, <2>2 DEF Structure, Told, Belongs, Linking
    <2>4. new_node[d] \in Nodes  BY <2>1, InCall
    <2>5. /\ parent_graph'[r] = parent_graph[r]
          /\ parent_graph'[new_node[d]] = parent_graph[new_node[d]]
          /\ node_id'[new_node[d]] = node_id[new_node[d]]
        BY <1>o, <2>2, <2>3, <2>4 DEF AllGraphs
    <2> QED  BY <2>1, <2>5 DEF Structure, Tested, IsFast, Register
<1>13. Placement'
    BY <1>2, PlacementKept DEF Register, nodeVars, graphVars, clientVars, workerVars, boundVars
<1> QED
    BY <1>1, <1>4, <1>5, <1>6, <1>7, <1>8, <1>9, <1>10, <1>11, <1>12, <1>13 DEF Structure

\* A node with nothing to wait for.
LEMMA ReadyAtOnceLife ==
    ASSUME LifeInv, NEW c \in Clients, ReadyAtOnce(c)
    PROVE  LifeInv'
<1> USE DEF LifeInv
<1>0. c_pc[c] = "ready" /\ new_node[c] \in Nodes /\ new_node[c] \in 1 .. made
    BY InCall DEF ReadyAtOnce, CGo
<1>1. Types'
    BY <1>0 DEF Types, NodeTypes, GraphTypes, ClientTypes, WorkerTypes, ReadyAtOnce, CGo,
       ready, add_new_task, nodeVars, graphVars, clientVars, workerVars, boundVars,
       ClientPoints, Early, Linking, Waiting
<1>2. StaysCommitted
    BY <1>0 DEF StaysCommitted, Committed, ReadyAtOnce, CGo, ready, add_new_task, nodeVars,
       graphVars, clientVars, workerVars, boundVars, Early, Types, NodeTypes, GraphTypes,
       ClientTypes, WorkerTypes
<1>3. StaysOwned
    BY <1>2, OwnedKept DEF ReadyAtOnce, CGo, ready, add_new_task, nodeVars, graphVars,
       clientVars, workerVars, boundVars
<1>4. Belongs'
    BY <1>0 DEF Structure, Belongs, ReadyAtOnce, CGo, ready, add_new_task, nodeVars,
       graphVars, clientVars, workerVars, boundVars, Types, NodeTypes, GraphTypes,
       ClientTypes, WorkerTypes, ClientPoints, Early, Linking, Waiting
<1>5. Distinct'
    BY <1>0 DEF Structure, Distinct, ReadyAtOnce, CGo, ready, add_new_task, nodeVars,
       graphVars, clientVars, workerVars, boundVars, Types, NodeTypes, GraphTypes,
       ClientTypes, WorkerTypes, ClientPoints, Early, Linking, Waiting
<1>6. Homed'
    BY <1>0 DEF Structure, Homed, ReadyAtOnce, CGo, ready, add_new_task, nodeVars,
       graphVars, clientVars, workerVars, boundVars, Types, NodeTypes, GraphTypes,
       ClientTypes, WorkerTypes, ClientPoints, Early, Linking, Waiting
<1>7. GraphLists'
    BY <1>0 DEF Structure, GraphLists, ReadyAtOnce, CGo, ready, add_new_task, nodeVars,
       graphVars, clientVars, workerVars, boundVars, Types, NodeTypes, GraphTypes,
       ClientTypes, WorkerTypes, ClientPoints, Early, Linking, Waiting
<1>8. InGraph'
    BY <1>0 DEF Structure, InGraph, ReadyAtOnce, CGo, ready, add_new_task, nodeVars,
       graphVars, clientVars, workerVars, boundVars, Types, NodeTypes, GraphTypes,
       ClientTypes, WorkerTypes, ClientPoints, Early, Linking, Waiting
<1>9. BitsOwned'
    <2>1. KeepsRegs  BY DEF KeepsRegs, ReadyAtOnce, CGo, ready, add_new_task, nodeVars,
        graphVars, clientVars, workerVars, boundVars, Types, ClientTypes
    <2> QED  BY <1>3, <2>1, BitsKept DEF ReadyAtOnce, CGo, ready, add_new_task, nodeVars,
        graphVars, clientVars, workerVars, boundVars
<1>10. Listed'
    BY <1>2, ListedKept DEF ReadyAtOnce, CGo, ready, add_new_task, nodeVars, graphVars,
       clientVars, workerVars, boundVars
<1>11. Told'
    BY <1>0 DEF Structure, Told, Belongs, ReadyAtOnce, CGo, ready, add_new_task, nodeVars,
       graphVars, clientVars, workerVars, boundVars, Types, NodeTypes, GraphTypes,
       ClientTypes, WorkerTypes, ClientPoints, Early, Linking, Waiting
<1>12. Tested'
    BY <1>0 DEF Structure, Tested, Belongs, IsFast, ReadyAtOnce, CGo, ready, add_new_task,
       nodeVars, graphVars, clientVars, workerVars, boundVars, Types, NodeTypes, GraphTypes,
       ClientTypes, WorkerTypes, ClientPoints, Early, Linking, Waiting
<1>13. Placement'
    <2>1. ~Committed(new_node[c])  BY <1>0 DEF Committed, Early
    <2>2. Committed(new_node[c])'
        BY <1>0 DEF ReadyAtOnce, CGo, Committed, Early, Structure, Distinct, Types,
           ClientTypes, nodeVars, graphVars, clientVars, workerVars, boundVars
    <2> QED  BY <1>0, <1>2, <2>1, <2>2, ReadyKept DEF ReadyAtOnce, nodeVars, graphVars,
        clientVars, workerVars, boundVars
<1> QED
    BY <1>1, <1>4, <1>5, <1>6, <1>7, <1>8, <1>9, <1>10, <1>11, <1>12, <1>13 DEF Structure

\* The requirements are counted.
LEMMA AddWaitCountLife ==
    ASSUME LifeInv, NEW c \in Clients, AddWaitCount(c)
    PROVE  LifeInv'
<1> USE DEF LifeInv
<1>0. c_pc[c] = "count" /\ new_node[c] \in Nodes /\ new_node[c] \in 1 .. made
    BY InCall DEF AddWaitCount, CGo
<1>1. Types'
    BY SMTT(60), <1>0 DEF Types, NodeTypes, GraphTypes, ClientTypes, WorkerTypes,
       AddWaitCount, CGo, nodeVars, graphVars, clientVars, workerVars, boundVars,
       ClientPoints, Early, Linking, Waiting
<1>2. StaysCommitted
    BY <1>0 DEF StaysCommitted, Committed, AddWaitCount, CGo, nodeVars, graphVars,
       clientVars, workerVars, boundVars, Early, Types, NodeTypes, GraphTypes, ClientTypes,
       WorkerTypes
<1>3. StaysOwned
    BY <1>2, OwnedKept DEF AddWaitCount, CGo, nodeVars, graphVars, clientVars, workerVars,
       boundVars
<1>4. Belongs'
    BY <1>0 DEF Structure, Belongs, AddWaitCount, CGo, nodeVars, graphVars, clientVars,
       workerVars, boundVars, Types, NodeTypes, GraphTypes, ClientTypes, WorkerTypes,
       ClientPoints, Early, Linking, Waiting
<1>5. Distinct'
    BY <1>0 DEF Structure, Distinct, AddWaitCount, CGo, nodeVars, graphVars, clientVars,
       workerVars, boundVars, Types, NodeTypes, GraphTypes, ClientTypes, WorkerTypes,
       ClientPoints, Early, Linking, Waiting
<1>6. Homed'
    BY <1>0 DEF Structure, Homed, AddWaitCount, CGo, nodeVars, graphVars, clientVars,
       workerVars, boundVars, Types, NodeTypes, GraphTypes, ClientTypes, WorkerTypes,
       ClientPoints, Early, Linking, Waiting
<1>7. GraphLists'
    BY <1>0 DEF Structure, GraphLists, AddWaitCount, CGo, nodeVars, graphVars, clientVars,
       workerVars, boundVars, Types, NodeTypes, GraphTypes, ClientTypes, WorkerTypes,
       ClientPoints, Early, Linking, Waiting
<1>8. InGraph'
    BY <1>0 DEF Structure, InGraph, AddWaitCount, CGo, nodeVars, graphVars, clientVars,
       workerVars, boundVars, Types, NodeTypes, GraphTypes, ClientTypes, WorkerTypes,
       ClientPoints, Early, Linking, Waiting
<1>9. BitsOwned'
    <2>1. KeepsRegs  BY DEF KeepsRegs, AddWaitCount, CGo, nodeVars, graphVars, clientVars,
        workerVars, boundVars, Types, ClientTypes
    <2> QED  BY <1>3, <2>1, BitsKept DEF AddWaitCount, CGo, nodeVars, graphVars, clientVars,
        workerVars, boundVars
<1>10. Listed'
    BY <1>2, ListedKept DEF AddWaitCount, CGo, nodeVars, graphVars, clientVars, workerVars,
       boundVars
<1>11. Told'
    BY <1>0 DEF Structure, Told, Belongs, AddWaitCount, CGo, nodeVars, graphVars,
       clientVars, workerVars, boundVars, Types, NodeTypes, GraphTypes, ClientTypes,
       WorkerTypes, ClientPoints, Early, Linking, Waiting
<1>12. Tested'
    BY <1>0 DEF Structure, Tested, Belongs, IsFast, AddWaitCount, CGo, nodeVars, graphVars,
       clientVars, workerVars, boundVars, Types, NodeTypes, GraphTypes, ClientTypes,
       WorkerTypes, ClientPoints, Early, Linking, Waiting
<1>13. Placement'
    <2>1. ~Committed(new_node[c])  BY <1>0 DEF Committed, Early
    <2>2. Committed(new_node[c])'
        BY <1>0 DEF AddWaitCount, CGo, Committed, Early, Structure, Distinct, Types,
           ClientTypes, nodeVars, graphVars, clientVars, workerVars, boundVars
    <2>3. Len(todo[c]) \in Nat  BY DEF Types, ClientTypes
    <2> QED  BY <1>0, <1>2, <2>1, <2>2, <2>3, CountKept DEF AddWaitCount, nodeVars,
        graphVars, clientVars, workerVars, boundVars
<1> QED
    BY <1>1, <1>4, <1>5, <1>6, <1>7, <1>8, <1>9, <1>10, <1>11, <1>12, <1>13 DEF Structure

-----------------------------------------------------------------------------
(* block_thread_for_group and clear_graph *)

\* Releasing the memory of nodes that nobody works on.
LEMMA DestroyKept ==
    ASSUME Types, Placement, StaysCommitted,
           \A n \in Nodes : status'[n] = status[n]
              \/ (status[n] = "Recoverable" /\ status'[n] = "Destroy"),
           UNCHANGED <<wait_count, task_queue, workerVars>>
    PROVE  Placement'
<1>1. Untouched'  BY DEF Placement, Untouched, StaysCommitted
<1>2. Released'
    BY DEF Placement, Released, StaysCommitted, Placed, Queued, Noted, Doing, workerVars
<1>3. Exclusive'  BY DEF Placement, Exclusive, OnePlace, Queued, Noted, Doing, workerVars
<1>4. NotStarted'  BY DEF Placement, NotStarted, Queued, Noted, Doing, workerVars
<1>5. Started'
    BY DEF Placement, Started, workerVars, Types, WorkerTypes, Leaving
<1> QED  BY <1>1, <1>2, <1>3, <1>4, <1>5 DEF Placement

\* A client begins to wait for a graph.
LEMMA StartWaitLife ==
    ASSUME LifeInv, NEW c \in Clients, NEW g \in Graphs, StartWait(c, g)
    PROVE  LifeInv'
<1> USE DEF LifeInv
<1> DEFINE n == made + 1
<1>0. /\ c_pc[c] = "idle" /\ c_pc' = [c_pc EXCEPT ![c] = "wait_test"]
      /\ n \in Nodes /\ made \in Nat /\ made' = n /\ n \in 1 .. MaxNodes
      /\ c \in AllGraphs /\ c \notin Graphs
    BY BoundAssumption, NameAssumption
       DEF StartWait, CGo, Types, GraphTypes, Nodes, AllGraphs
<1>u. parent_graph[n] = nullptr  BY <1>0 DEF Structure, Homed
<1>a. /\ parent_graph' = [parent_graph EXCEPT ![n] = c]
      /\ new_node' = [new_node EXCEPT ![c] = n]
      /\ target' = [target EXCEPT ![c] = g]
      /\ g_nodes' = [g_nodes EXCEPT ![c] = <<n>>]
      /\ g_wait_count' = [g_wait_count EXCEPT ![c] = 1]
    BY DEF StartWait, RegisterWaiter
<1>o. \A m \in Nodes : parent_graph[m] \in AllGraphs =>
          m # n /\ parent_graph'[m] = parent_graph[m]
    BY <1>0, <1>u, <1>a, NameAssumption DEF Types, NodeTypes
<1>i. \A m \in Nodes : parent_graph'[m] \in Graphs => parent_graph[m] = parent_graph'[m]
    BY <1>0, <1>a DEF Types, NodeTypes
<1>l. \A h \in Graphs : g_nodes'[h] = g_nodes[h] /\ g_nodes[h] \in Seq(Nodes)
    BY <1>0, <1>a DEF Types, GraphTypes, AllGraphs
<1> HIDE DEF n
<1>1. Types'
    <2>1. NodeTypes'
        <3>1. parent_graph' \in [Nodes -> AllGraphs \cup {nullptr}]
            BY <1>0, <1>a DEF Types, NodeTypes
        <3>2. required' \in [Nodes -> SUBSET Nodes]
            <4>1. required' = [required EXCEPT ![n] = ToSet(g_nodes[g])]
                BY DEF StartWait, n
            <4>2. ToSet(g_nodes[g]) \in SUBSET Nodes  BY <1>l DEF ToSet
            <4> QED  BY <1>0, <4>1, <4>2 DEF Types, NodeTypes
        <3>3. UNCHANGED <<status, wait_count, node_id, fast_down_strams,
                          fast_down_strams_bak, down_streams>>
            BY DEF StartWait
        <3> QED  BY <3>1, <3>2, <3>3 DEF Types, NodeTypes
    <2>2. GraphTypes'
        <3>1. g_nodes' \in [AllGraphs -> Seq(Nodes)]
            <4>1. <<n>> \in Seq(Nodes)  BY <1>0
            <4> QED  BY <1>0, <1>a, <4>1 DEF Types, GraphTypes
        <3>2. g_wait_count' \in [AllGraphs -> Int]  BY <1>0, <1>a DEF Types, GraphTypes
        <3>3. waits' \in Nat /\ made' \in 0 .. MaxNodes
            BY <1>0 DEF StartWait, Types, GraphTypes, Nodes
        <3> QED  BY <3>1, <3>2, <3>3 DEF Types, GraphTypes, StartWait
    <2>3. ClientTypes'
        BY <1>0, <1>a DEF Types, ClientTypes, StartWait, Linking, ClientPoints, Waiting
    <2>4. WorkerTypes'  BY DEF Types, WorkerTypes, StartWait, nodeVars, graphVars,
        clientVars, workerVars, boundVars
    <2> QED  BY <2>1, <2>2, <2>3, <2>4 DEF Types
<1>2. StaysCommitted
    BY <1>0, <1>a DEF StaysCommitted, Committed, Early, Types, ClientTypes, n
<1>3. StaysOwned
    <2> SUFFICES ASSUME NEW r \in Nodes, NEW b \in Nat, Owned(r, b) PROVE Owned(r, b)'
        BY DEF StaysOwned
    <2>1. parent_graph[r] \in Graphs /\ b + 1 \in DOMAIN g_nodes[parent_graph[r]]
        BY DEF Owned
    <2>2. parent_graph'[r] = parent_graph[r]  BY <1>o, <2>1 DEF AllGraphs
    <2>3. /\ get_node(r, b) \in Nodes /\ get_node(r, b)' = get_node(r, b)
          /\ b + 1 \in DOMAIN g_nodes'[parent_graph[r]]
        BY <1>l, <2>1, <2>2 DEF get_node
    <2>4. Committed(get_node(r, b))'  BY <1>2, <2>3 DEF StaysCommitted, Owned
    <2> QED  BY <2>1, <2>2, <2>3, <2>4 DEF Owned
<1>4. Belongs'
    <2> SUFFICES ASSUME NEW d \in Clients PROVE
          /\ c_pc'[d] = "register" =>
                parent_graph'[new_node'[d]] = nullptr /\ target'[d] \in Graphs
          /\ c_pc'[d] \in {"ready", "count"} \cup Linking =>
                parent_graph'[new_node'[d]] \in Graphs
          /\ c_pc'[d] \in Waiting =>
                parent_graph'[new_node'[d]] = d /\ target'[d] \in Graphs
        BY DEF Belongs
    <2>1. CASE d = c
        BY <1>0, <1>a, <2>1 DEF Types, ClientTypes, NodeTypes, Linking
    <2>2. CASE d # c /\ c_pc[d] # "idle"
        <3>1. new_node'[d] = new_node[d] /\ c_pc'[d] = c_pc[d] /\ target'[d] = target[d]
            BY <1>0, <1>a, <2>2 DEF Types, ClientTypes
        <3>2. new_node[d] # n /\ new_node[d] \in Nodes
            BY <1>0, <2>2, InCall DEF n
        <3> QED  BY <1>a, <3>1, <3>2, <2>2 DEF Structure, Belongs, Types, NodeTypes
    <2>3. CASE d # c /\ c_pc[d] = "idle"
        BY <1>0, <2>3 DEF Types, ClientTypes, Linking, Waiting
    <2> QED  BY <2>1, <2>2, <2>3
<1>5. Distinct'
    BY <1>0, <1>a DEF Structure, Distinct, Types, ClientTypes, n
<1>6. Homed'
    <2> SUFFICES ASSUME NEW m \in Nodes
                 PROVE  /\ m > made' => parent_graph'[m] = nullptr
                        /\ m <= made' /\ parent_graph'[m] = nullptr =>
                              \E d \in Clients : c_pc'[d] = "register" /\ new_node'[d] = m
        BY DEF Homed
    <2>1. m > made' => parent_graph'[m] = nullptr
        BY <1>0, <1>a DEF Structure, Homed, Types, NodeTypes, GraphTypes, Nodes, n
    <2>2. ASSUME m <= made', parent_graph'[m] = nullptr
          PROVE  \E d \in Clients : c_pc'[d] = "register" /\ new_node'[d] = m
        <3>1. m # n /\ parent_graph[m] = nullptr
            BY <1>0, <1>a, <2>2, NameAssumption DEF Types, NodeTypes
        <3>2. m <= made  BY <1>0, <2>2, <3>1 DEF n, Nodes
        <3>3. PICK d \in Clients : c_pc[d] = "register" /\ new_node[d] = m
            BY <3>1, <3>2 DEF Structure, Homed
        <3>4. c_pc'[d] = "register" /\ new_node'[d] = m
            BY <1>0, <1>a, <3>3 DEF Types, ClientTypes
        <3> QED  BY <3>4
    <2> QED  BY <2>1, <2>2
<1>7. GraphLists'
    <2> SUFFICES ASSUME NEW h \in Graphs, NEW i \in DOMAIN g_nodes[h]
                 PROVE  /\ parent_graph'[g_nodes[h][i]] = h
                        /\ node_id[g_nodes[h][i]] = i - 1
        BY <1>l DEF GraphLists, StartWait
    <2>1. parent_graph[g_nodes[h][i]] = h /\ node_id[g_nodes[h][i]] = i - 1
        BY DEF Structure, GraphLists
    <2> QED  BY <1>o, <1>l, <2>1 DEF AllGraphs
<1>8. InGraph'
    BY <1>l, <1>i DEF Structure, InGraph, StartWait
<1>9. BitsOwned'
    <2>1. KeepsRegs  BY <1>0 DEF KeepsRegs, StartWait, Types, ClientTypes
    <2> QED  BY <1>3, <2>1, BitsKept DEF StartWait
<1>10. Listed'
    <2>1. ASSUME NEW r \in Nodes, NEW i \in DOMAIN down_streams[r]
          PROVE  Committed(down_streams[r][i])' /\ parent_graph'[down_streams[r][i]] \in Graphs
        <3>1. down_streams[r][i] \in Nodes  BY <2>1 DEF Types, NodeTypes
        <3>2. Committed(down_streams[r][i]) /\ parent_graph[down_streams[r][i]] \in Graphs
            BY <2>1 DEF Structure, Listed
        <3>3. Committed(down_streams[r][i])'  BY <1>2, <3>1, <3>2 DEF StaysCommitted, StartWait
        <3> QED  BY <1>o, <3>1, <3>2, <3>3 DEF AllGraphs
    <2>2. ASSUME NEW h \in AllGraphs, NEW i \in DOMAIN g_down_streams[h]
          PROVE  /\ Committed(g_down_streams[h][i])'
                 /\ parent_graph'[g_down_streams[h][i]] \in Clients
        <3>1. g_down_streams[h][i] \in Nodes  BY <2>2 DEF Types, GraphTypes
        <3>2. Committed(g_down_streams[h][i]) /\ parent_graph[g_down_streams[h][i]] \in Clients
            BY <2>2 DEF Structure, Listed
        <3>3. Committed(g_down_streams[h][i])'
            BY <1>2, <3>1, <3>2 DEF StaysCommitted, StartWait
        <3> QED  BY <1>o, <3>1, <3>2, <3>3 DEF AllGraphs
    <2>3. UNCHANGED <<down_streams, g_down_streams>>  BY DEF StartWait
    <2> QED  BY <2>1, <2>2, <2>3 DEF Listed
<1>11. Told'
    <2> SUFFICES ASSUME NEW d \in Clients, c_pc'[d] \in {"register", "count"} \cup Linking,
                        NEW i \in DOMAIN todo[d]
                 PROVE  \/ todo[d][i] \in {nullptr, new_node'[d]}
                        \/ parent_graph'[todo[d][i]] \in Graphs
        BY DEF Told, StartWait
    <2>1. d # c  BY <1>0 DEF Types, ClientTypes, Linking
    <2>2. \/ todo[d][i] \in {nullptr, new_node'[d]}
          \/ parent_graph[todo[d][i]] \in Graphs
        BY <1>0, <1>a, <2>1 DEF Structure, Told, Types, ClientTypes
    <2>3. todo[d][i] \in Nodes \cup {nullptr}  BY DEF Types, ClientTypes
    <2> QED  BY <1>o, <2>2, <2>3 DEF AllGraphs
<1>12. Tested'
    <2> SUFFICES ASSUME NEW d \in Clients,
                        c_pc'[d] \in {"bit_load", "bit_store", "read_bak", "push"}
                 PROVE  LET r == Head(todo[d]) IN
          /\ c_pc'[d] \in {"bit_load", "bit_store", "read_bak"} =>
                r \notin {nullptr, new_node'[d]} /\ IsFast(r, new_node[d])'
          /\ c_pc'[d] = "push" => r \notin {nullptr, new_node'[d]} /\ ~IsFast(r, new_node[d])'
        BY DEF Tested, StartWait, IsFast
    <2> DEFINE r == Head(todo[d])
    <2>1. d # c /\ c_pc[d] = c_pc'[d] /\ new_node'[d] = new_node[d]
        BY <1>0, <1>a DEF Types, ClientTypes
    <2>2. r \notin {nullptr, new_node[d]} /\ r \in Nodes /\ r = todo[d][1] /\ 1 \in DOMAIN todo[d]
        BY <2>1, HeadOfTodo DEF Structure, Tested, Linking
    <2>3. parent_graph[r] \in Graphs /\ parent_graph[new_node[d]] \in Graphs
        BY <2>1, <2>2 DEF Structure, Told, Belongs, Linking
    <2>4. new_node[d] \in Nodes  BY <2>1, InCall
    <2>5. /\ parent_graph'[r] = parent_graph[r]
          /\ parent_graph'[new_node[d]] = parent_graph[new_node[d]]
          /\ node_id' = node_id
        BY <1>o, <2>2, <2>3, <2>4 DEF AllGraphs, StartWait
    <2> QED  BY <2>1, <2>5 DEF Structure, Tested, IsFast, StartWait
<1>13. Placement'
    BY <1>2, PlacementKept DEF StartWait, RegisterWaiter, nodeVars, graphVars, clientVars,
       workerVars, boundVars
<1> QED
    BY <1>1, <1>4, <1>5, <1>6, <1>7, <1>8, <1>9, <1>10, <1>11, <1>12, <1>13 DEF Structure

\* The first look at the graph's count.
LEMMA WaitTestLife ==
    ASSUME LifeInv, NEW c \in Clients, WaitTest(c)
    PROVE  LifeInv'
<1> USE DEF LifeInv
<1>0. c_pc[c] = "wait_test" /\ new_node[c] \in Nodes /\ new_node[c] \in 1 .. made
    BY InCall DEF WaitTest, CGo
<1>p. /\ \E to \in {"sema", "wait_lock"} : c_pc' = [c_pc EXCEPT ![c] = to]
      /\ task_queue' \in [Nodes -> Nat]
      /\ UNCHANGED <<nodeVars, graphVars, sema, new_node, target, todo, reg, workerVars,
                     boundVars>>
    BY <1>0 DEF WaitTest, CGo, ready, add_new_task, Types, GraphTypes
<1>1. Types'
    <2>1. NodeTypes' /\ GraphTypes' /\ WorkerTypes'
        BY <1>p DEF Types, NodeTypes, GraphTypes, ClientTypes, WorkerTypes, nodeVars,
           graphVars, clientVars, workerVars, boundVars
    <2>2. ClientTypes'  BY <1>0, <1>p DEF Types, ClientTypes, nodeVars, graphVars,
        clientVars, workerVars, boundVars, Linking, ClientPoints, Waiting
    <2> QED  BY <2>1, <2>2 DEF Types
<1>2. StaysCommitted
    BY <1>0 DEF StaysCommitted, Committed, WaitTest, CGo, ready, add_new_task, nodeVars,
       graphVars, clientVars, workerVars, boundVars, Early, Types, NodeTypes, GraphTypes,
       ClientTypes, WorkerTypes
<1>3. StaysOwned
    BY <1>2, OwnedKept DEF WaitTest, CGo, ready, add_new_task, nodeVars, graphVars,
       clientVars, workerVars, boundVars
<1>4. Belongs'
    BY <1>0 DEF Structure, Belongs, WaitTest, CGo, ready, add_new_task, nodeVars, graphVars,
       clientVars, workerVars, boundVars, Types, NodeTypes, GraphTypes, ClientTypes,
       WorkerTypes, ClientPoints, Early, Linking, Waiting
<1>5. Distinct'
    BY <1>0 DEF Structure, Distinct, WaitTest, CGo, ready, add_new_task, nodeVars,
       graphVars, clientVars, workerVars, boundVars, Types, NodeTypes, GraphTypes,
       ClientTypes, WorkerTypes, ClientPoints, Early, Linking, Waiting
<1>6. Homed'
    BY <1>0 DEF Structure, Homed, WaitTest, CGo, ready, add_new_task, nodeVars, graphVars,
       clientVars, workerVars, boundVars, Types, NodeTypes, GraphTypes, ClientTypes,
       WorkerTypes, ClientPoints, Early, Linking, Waiting
<1>7. GraphLists'
    BY <1>0 DEF Structure, GraphLists, WaitTest, CGo, ready, add_new_task, nodeVars,
       graphVars, clientVars, workerVars, boundVars, Types, NodeTypes, GraphTypes,
       ClientTypes, WorkerTypes, ClientPoints, Early, Linking, Waiting
<1>8. InGraph'
    BY <1>0 DEF Structure, InGraph, WaitTest, CGo, ready, add_new_task, nodeVars, graphVars,
       clientVars, workerVars, boundVars, Types, NodeTypes, GraphTypes, ClientTypes,
       WorkerTypes, ClientPoints, Early, Linking, Waiting
<1>9. BitsOwned'
    <2>1. KeepsRegs  BY DEF KeepsRegs, WaitTest, CGo, ready, add_new_task, nodeVars,
        graphVars, clientVars, workerVars, boundVars, Types, ClientTypes
    <2> QED  BY <1>3, <2>1, BitsKept DEF WaitTest, CGo, ready, add_new_task, nodeVars,
        graphVars, clientVars, workerVars, boundVars
<1>10. Listed'
    BY <1>2, ListedKept DEF WaitTest, CGo, ready, add_new_task, nodeVars, graphVars,
       clientVars, workerVars, boundVars
<1>11. Told'
    BY <1>0, <1>p DEF Structure, Told, nodeVars, graphVars, clientVars, workerVars,
       boundVars, Linking, Types, ClientTypes
<1>12. Tested'
    BY <1>0, <1>p DEF Structure, Tested, IsFast, nodeVars, graphVars, clientVars,
       workerVars, boundVars, Types, ClientTypes
<1>13. Placement'
    <2>1. CASE c_pc' = [c_pc EXCEPT ![c] = "wait_lock"] /\ UNCHANGED task_queue
        BY <1>2, <2>1, PlacementKept DEF WaitTest, nodeVars, graphVars, clientVars,
           workerVars, boundVars
    <2>2. CASE c_pc' = [c_pc EXCEPT ![c] = "sema"] /\ ready(new_node[c])
        <3>1. ~Committed(new_node[c])  BY <1>0 DEF Committed, Early
        <3>2. Committed(new_node[c])'
            BY <1>0, <2>2 DEF WaitTest, Committed, Early, Structure, Distinct, Types,
               ClientTypes, boundVars
        <3> QED  BY <1>0, <1>2, <2>2, <3>1, <3>2, ReadyKept DEF WaitTest, nodeVars,
            graphVars, clientVars, workerVars, boundVars
    <2> QED  BY <2>1, <2>2 DEF WaitTest, CGo
<1> QED
    BY <1>1, <1>4, <1>5, <1>6, <1>7, <1>8, <1>9, <1>10, <1>11, <1>12, <1>13 DEF Structure

\* The second look, and the place in the list.
LEMMA WaitLockLife ==
    ASSUME LifeInv, NEW c \in Clients, WaitLock(c)
    PROVE  LifeInv'
<1> USE DEF LifeInv
<1>0. /\ c_pc[c] = "wait_lock" /\ new_node[c] \in Nodes /\ new_node[c] \in 1 .. made
      /\ parent_graph[new_node[c]] = c /\ target[c] \in AllGraphs
    BY InCall DEF WaitLock, CGo, Structure, Belongs, Waiting, AllGraphs
<1>d. \/ UNCHANGED g_down_streams
      \/ g_down_streams' = [g_down_streams EXCEPT
            ![target[c]] = Append(g_down_streams[target[c]], new_node[c])]
    BY DEF WaitLock
<1>1. Types'
    <2>1. g_down_streams' \in [AllGraphs -> Seq(Nodes)]
        <3>1. Append(g_down_streams[target[c]], new_node[c]) \in Seq(Nodes)
            BY <1>0, AppendItem DEF Types, GraphTypes
        <3> QED  BY <1>0, <1>d, <3>1 DEF Types, GraphTypes
    <2>2. NodeTypes'  BY <1>0 DEF Types, NodeTypes, WaitLock, nodeVars, graphVars,
        clientVars, workerVars, boundVars
    <2>3. GraphTypes'
        <3>1. task_queue' \in [Nodes -> Nat]
            <4>1. UNCHANGED task_queue \/ ready(new_node[c])  BY DEF WaitLock
            <4> QED  BY <1>0, <4>1, ReadyTypes
        <3> QED  BY <2>1, <3>1 DEF Types, GraphTypes, WaitLock, boundVars
    <2>4. ClientTypes'
        BY <1>0 DEF Types, ClientTypes, WaitLock, CGo, Linking, ClientPoints, Waiting,
           nodeVars, graphVars, clientVars, workerVars, boundVars
    <2>5. WorkerTypes'  BY DEF Types, WorkerTypes, WaitLock, nodeVars, graphVars,
        clientVars, workerVars, boundVars
    <2> QED  BY <2>1, <2>2, <2>3, <2>4, <2>5 DEF Types
<1>2. StaysCommitted
    BY <1>0 DEF StaysCommitted, Committed, WaitLock, CGo, ready, add_new_task, nodeVars,
       graphVars, clientVars, workerVars, boundVars, Early, Types, NodeTypes, GraphTypes,
       ClientTypes, WorkerTypes
<1>3. StaysOwned
    BY <1>2, OwnedKept DEF WaitLock, CGo, ready, add_new_task, nodeVars, graphVars,
       clientVars, workerVars, boundVars
<1>4. Belongs'
    BY <1>0 DEF Structure, Belongs, WaitLock, CGo, ready, add_new_task, nodeVars, graphVars,
       clientVars, workerVars, boundVars, Types, NodeTypes, GraphTypes, ClientTypes,
       WorkerTypes, ClientPoints, Early, Linking, Waiting
<1>5. Distinct'
    BY <1>0 DEF Structure, Distinct, WaitLock, CGo, ready, add_new_task, nodeVars,
       graphVars, clientVars, workerVars, boundVars, Types, NodeTypes, GraphTypes,
       ClientTypes, WorkerTypes, ClientPoints, Early, Linking, Waiting
<1>6. Homed'
    BY <1>0 DEF Structure, Homed, WaitLock, CGo, ready, add_new_task, nodeVars, graphVars,
       clientVars, workerVars, boundVars, Types, NodeTypes, GraphTypes, ClientTypes,
       WorkerTypes, ClientPoints, Early, Linking, Waiting
<1>7. GraphLists'
    BY <1>0 DEF Structure, GraphLists, WaitLock, CGo, ready, add_new_task, nodeVars,
       graphVars, clientVars, workerVars, boundVars, Types, NodeTypes, GraphTypes,
       ClientTypes, WorkerTypes, ClientPoints, Early, Linking, Waiting
<1>8. InGraph'
    BY <1>0 DEF Structure, InGraph, WaitLock, CGo, ready, add_new_task, nodeVars, graphVars,
       clientVars, workerVars, boundVars, Types, NodeTypes, GraphTypes, ClientTypes,
       WorkerTypes, ClientPoints, Early, Linking, Waiting
<1>9. BitsOwned'
    <2>1. KeepsRegs  BY DEF KeepsRegs, WaitLock, CGo, ready, add_new_task, nodeVars,
        graphVars, clientVars, workerVars, boundVars, Types, ClientTypes
    <2> QED  BY <1>3, <2>1, BitsKept DEF WaitLock, CGo, ready, add_new_task, nodeVars,
        graphVars, clientVars, workerVars, boundVars
<1>10. Listed'
    <2>1. CASE UNCHANGED g_down_streams
        BY <1>2, <2>1, ListedKept DEF WaitLock, nodeVars, graphVars, clientVars, workerVars,
           boundVars
    <2>2. CASE g_down_streams' = [g_down_streams EXCEPT
                 ![target[c]] = Append(g_down_streams[target[c]], new_node[c])]
        <3>1. Committed(new_node[c])'
            BY <1>0 DEF WaitLock, CGo, Committed, Early, Structure, Distinct, Types,
               ClientTypes,
               boundVars
        <3>2. ASSUME NEW h \in AllGraphs, NEW i \in DOMAIN g_down_streams'[h]
              PROVE  /\ \/ g_down_streams'[h][i] = new_node[c]
                        \/ Committed(g_down_streams'[h][i])
                     /\ g_down_streams'[h][i] \in Nodes
                     /\ parent_graph[g_down_streams'[h][i]] \in Clients
            <4>1. CASE i \in DOMAIN g_down_streams[h] /\ g_down_streams'[h][i] = g_down_streams[h][i]
                BY <4>1 DEF Structure, Listed, Types, GraphTypes
            <4>2. CASE g_down_streams'[h][i] = new_node[c]
                BY <1>0, <4>2
            <4>3. CASE h = target[c]
                BY SMTT(60), <1>0, <2>2, <3>2, <4>1, <4>2, <4>3, AppendItem DEF Types,
                   GraphTypes
            <4> QED  BY <1>0, <2>2, <3>2, <4>1, <4>3 DEF Types, GraphTypes
        <3>3. ASSUME NEW h \in AllGraphs, NEW i \in DOMAIN g_down_streams'[h],
                     NEW m, m = g_down_streams'[h][i]
              PROVE  Committed(m)' /\ parent_graph'[m] \in Clients
            BY <1>2, <3>1, <3>2, <3>3 DEF StaysCommitted, WaitLock
        <3>4. \A r \in Nodes : \A i \in DOMAIN down_streams[r] : down_streams[r][i] \in Nodes
            BY DEF Types, NodeTypes
        <3>5. \A r \in Nodes : \A i \in DOMAIN down_streams'[r] :
                 /\ Committed(down_streams[r][i])'
                 /\ parent_graph'[down_streams'[r][i]] \in Graphs
            BY <1>2, <3>4 DEF Structure, Listed, StaysCommitted, WaitLock
        <3> QED  BY <3>3, <3>5 DEF Listed
    <2> QED  BY <1>d, <2>1, <2>2
<1>11. Told'
    BY SMTT(60), <1>0 DEF Structure, Told, Belongs, WaitLock, CGo, ready, add_new_task,
       nodeVars, graphVars, clientVars, workerVars, boundVars, Types, NodeTypes, GraphTypes,
       ClientTypes, WorkerTypes, ClientPoints, Early, Linking, Waiting
<1>12. Tested'
    BY <1>0 DEF Structure, Tested, Belongs, IsFast, WaitLock, CGo, ready, add_new_task,
       nodeVars, graphVars, clientVars, workerVars, boundVars, Types, NodeTypes, GraphTypes,
       ClientTypes, WorkerTypes, ClientPoints, Early, Linking, Waiting
<1>13. Placement'
    <2>1. ~Committed(new_node[c])  BY <1>0 DEF Committed, Early
    <2>2. Committed(new_node[c])'
        BY <1>0 DEF WaitLock, CGo, Committed, Early, Structure, Distinct, Types,
           ClientTypes, boundVars
    <2>3. CASE UNCHANGED wait_count /\ ready(new_node[c])
        BY <1>0, <1>2, <2>1, <2>2, <2>3, ReadyKept DEF WaitLock, nodeVars, graphVars,
           clientVars, workerVars, boundVars
    <2>4. CASE UNCHANGED task_queue /\ wait_count' = [wait_count EXCEPT ![new_node[c]] = @ + 1]
        BY <1>0, <1>2, <2>1, <2>2, <2>4, CountKept DEF WaitLock, nodeVars, graphVars,
           clientVars, workerVars, boundVars
    <2> QED  BY <2>3, <2>4 DEF WaitLock
<1> QED
    BY <1>1, <1>4, <1>5, <1>6, <1>7, <1>8, <1>9, <1>10, <1>11, <1>12, <1>13 DEF Structure

\* The waiter has run.
LEMMA SemaWaitLife ==
    ASSUME LifeInv, NEW c \in Clients, SemaWait(c)
    PROVE  LifeInv'
<1> USE DEF LifeInv
<1>0. c_pc[c] = "sema" /\ new_node[c] \in Nodes /\ new_node[c] \in 1 .. made
    BY InCall DEF SemaWait, CGo
<1>1. Types'
    BY <1>0 DEF Types, NodeTypes, GraphTypes, ClientTypes, WorkerTypes, SemaWait, CGo,
       nodeVars, graphVars, clientVars, workerVars, boundVars, ClientPoints, Early, Linking,
       Waiting
<1>2. StaysCommitted
    BY <1>0 DEF StaysCommitted, Committed, SemaWait, CGo, nodeVars, graphVars, clientVars,
       workerVars, boundVars, Early, Types, NodeTypes, GraphTypes, ClientTypes, WorkerTypes
<1>3. StaysOwned
    BY <1>2, OwnedKept DEF SemaWait, CGo, nodeVars, graphVars, clientVars, workerVars, boundVars
<1>4. Belongs'
    BY <1>0 DEF Structure, Belongs, SemaWait, CGo, nodeVars, graphVars, clientVars,
       workerVars, boundVars, Types, NodeTypes, GraphTypes, ClientTypes, WorkerTypes,
       ClientPoints, Early, Linking, Waiting
<1>5. Distinct'
    BY <1>0 DEF Structure, Distinct, SemaWait, CGo, nodeVars, graphVars, clientVars,
       workerVars, boundVars, Types, NodeTypes, GraphTypes, ClientTypes, WorkerTypes,
       ClientPoints, Early, Linking, Waiting
<1>6. Homed'
    BY <1>0 DEF Structure, Homed, SemaWait, CGo, nodeVars, graphVars, clientVars,
       workerVars, boundVars, Types, NodeTypes, GraphTypes, ClientTypes, WorkerTypes,
       ClientPoints, Early, Linking, Waiting
<1>7. GraphLists'
    BY <1>0 DEF Structure, GraphLists, SemaWait, CGo, nodeVars, graphVars, clientVars,
       workerVars, boundVars, Types, NodeTypes, GraphTypes, ClientTypes, WorkerTypes,
       ClientPoints, Early, Linking, Waiting
<1>8. InGraph'
    BY <1>0 DEF Structure, InGraph, SemaWait, CGo, nodeVars, graphVars, clientVars,
       workerVars, boundVars, Types, NodeTypes, GraphTypes, ClientTypes, WorkerTypes,
       ClientPoints, Early, Linking, Waiting
<1>9. BitsOwned'
    <2>1. KeepsRegs  BY DEF KeepsRegs, SemaWait, CGo, nodeVars, graphVars, clientVars,
        workerVars, boundVars, Types, ClientTypes
    <2> QED  BY <1>3, <2>1, BitsKept DEF SemaWait, CGo, nodeVars, graphVars, clientVars,
        workerVars, boundVars
<1>10. Listed'
    BY <1>2, ListedKept DEF SemaWait, CGo, nodeVars, graphVars, clientVars, workerVars,
       boundVars
<1>11. Told'
    BY <1>0 DEF Structure, Told, Belongs, SemaWait, CGo, nodeVars, graphVars, clientVars,
       workerVars, boundVars, Types, NodeTypes, GraphTypes, ClientTypes, WorkerTypes,
       ClientPoints, Early, Linking, Waiting
<1>12. Tested'
    BY <1>0 DEF Structure, Tested, Belongs, IsFast, SemaWait, CGo, nodeVars, graphVars,
       clientVars, workerVars, boundVars, Types, NodeTypes, GraphTypes, ClientTypes,
       WorkerTypes, ClientPoints, Early, Linking, Waiting
<1>13. Placement'
    BY <1>2, PlacementKept DEF SemaWait, nodeVars, graphVars, clientVars, workerVars, boundVars
<1> QED
    BY <1>1, <1>4, <1>5, <1>6, <1>7, <1>8, <1>9, <1>10, <1>11, <1>12, <1>13 DEF Structure

\* The waiter's graph goes.
LEMMA FreeWaiterLife ==
    ASSUME LifeInv, NEW c \in Clients, FreeWaiter(c)
    PROVE  LifeInv'
<1> USE DEF LifeInv
<1>0. c_pc[c] = "free" /\ new_node[c] \in Nodes /\ new_node[c] \in 1 .. made
    BY InCall DEF FreeWaiter, CGo
<1>s. status' \in [Nodes -> Statuses]
    BY <1>0 DEF FreeWaiter, Types, NodeTypes, Statuses, Ended
<1>1. Types'
    BY <1>0, <1>s DEF Types, NodeTypes, GraphTypes, ClientTypes, WorkerTypes, FreeWaiter,
       CGo, nodeVars, graphVars, clientVars, workerVars, boundVars, ClientPoints, Early,
       Linking, Waiting
<1>2. StaysCommitted
    BY <1>0 DEF StaysCommitted, Committed, FreeWaiter, CGo, nodeVars, graphVars, clientVars,
       workerVars, boundVars, Early, Types, NodeTypes, GraphTypes, ClientTypes, WorkerTypes
<1>3. StaysOwned
    BY <1>2, OwnedKept DEF FreeWaiter, CGo, nodeVars, graphVars, clientVars, workerVars,
       boundVars
<1>4. Belongs'
    BY <1>0 DEF Structure, Belongs, FreeWaiter, CGo, nodeVars, graphVars, clientVars,
       workerVars, boundVars, Types, NodeTypes, GraphTypes, ClientTypes, WorkerTypes,
       ClientPoints, Early, Linking, Waiting
<1>5. Distinct'
    BY <1>0 DEF Structure, Distinct, FreeWaiter, CGo, nodeVars, graphVars, clientVars,
       workerVars, boundVars, Types, NodeTypes, GraphTypes, ClientTypes, WorkerTypes,
       ClientPoints, Early, Linking, Waiting
<1>6. Homed'
    BY <1>0 DEF Structure, Homed, FreeWaiter, CGo, nodeVars, graphVars, clientVars,
       workerVars, boundVars, Types, NodeTypes, GraphTypes, ClientTypes, WorkerTypes,
       ClientPoints, Early, Linking, Waiting
<1>7. GraphLists'
    BY <1>0 DEF Structure, GraphLists, FreeWaiter, CGo, nodeVars, graphVars, clientVars,
       workerVars, boundVars, Types, NodeTypes, GraphTypes, ClientTypes, WorkerTypes,
       ClientPoints, Early, Linking, Waiting
<1>8. InGraph'
    BY <1>0 DEF Structure, InGraph, FreeWaiter, CGo, nodeVars, graphVars, clientVars,
       workerVars, boundVars, Types, NodeTypes, GraphTypes, ClientTypes, WorkerTypes,
       ClientPoints, Early, Linking, Waiting
<1>9. BitsOwned'
    <2>1. KeepsRegs  BY DEF KeepsRegs, FreeWaiter, CGo, nodeVars, graphVars, clientVars,
        workerVars, boundVars, Types, ClientTypes
    <2> QED  BY <1>3, <2>1, BitsKept DEF FreeWaiter, CGo, nodeVars, graphVars, clientVars,
        workerVars, boundVars
<1>10. Listed'
    BY <1>2, ListedKept DEF FreeWaiter, CGo, nodeVars, graphVars, clientVars, workerVars,
       boundVars
<1>11. Told'
    BY <1>0 DEF Structure, Told, Belongs, FreeWaiter, CGo, nodeVars, graphVars, clientVars,
       workerVars, boundVars, Types, NodeTypes, GraphTypes, ClientTypes, WorkerTypes,
       ClientPoints, Early, Linking, Waiting
<1>12. Tested'
    BY <1>0 DEF Structure, Tested, Belongs, IsFast, FreeWaiter, CGo, nodeVars, graphVars,
       clientVars, workerVars, boundVars, Types, NodeTypes, GraphTypes, ClientTypes,
       WorkerTypes, ClientPoints, Early, Linking, Waiting
<1>13. Placement'
    <2>1. \A n \in Nodes : status'[n] = status[n]
              \/ (status[n] = "Recoverable" /\ status'[n] = "Destroy")
        BY <1>0 DEF FreeWaiter, Types, NodeTypes
    <2> QED  BY <1>2, <2>1, DestroyKept DEF FreeWaiter, nodeVars, graphVars, clientVars,
        workerVars, boundVars
<1> QED
    BY <1>1, <1>4, <1>5, <1>6, <1>7, <1>8, <1>9, <1>10, <1>11, <1>12, <1>13 DEF Structure

\* A graph goes with its nodes.
LEMMA clear_graphLife ==
    ASSUME LifeInv, NEW c \in Clients, NEW g \in Graphs, clear_graph(c, g)
    PROVE  LifeInv'
<1> USE DEF LifeInv
<1>0. status' \in [Nodes -> Statuses]
    BY DEF clear_graph, ClearOnce, Types, NodeTypes, Statuses, Ended
<1>1. Types'
    BY <1>0 DEF Types, NodeTypes, GraphTypes, ClientTypes, WorkerTypes, clear_graph,
       ClearOnce, nodeVars, graphVars, clientVars, workerVars, boundVars, ClientPoints,
       Early, Linking, Waiting
<1>2. StaysCommitted
    BY <1>0 DEF StaysCommitted, Committed, clear_graph, ClearOnce, nodeVars, graphVars,
       clientVars, workerVars, boundVars, Early, Types, NodeTypes, GraphTypes, ClientTypes,
       WorkerTypes
<1>3. StaysOwned
    BY <1>2, OwnedKept DEF clear_graph, ClearOnce, nodeVars, graphVars, clientVars,
       workerVars, boundVars
<1>4. Belongs'
    BY <1>0 DEF Structure, Belongs, clear_graph, ClearOnce, nodeVars, graphVars, clientVars,
       workerVars, boundVars, Types, NodeTypes, GraphTypes, ClientTypes, WorkerTypes,
       ClientPoints, Early, Linking, Waiting
<1>5. Distinct'
    BY <1>0 DEF Structure, Distinct, clear_graph, ClearOnce, nodeVars, graphVars,
       clientVars, workerVars, boundVars, Types, NodeTypes, GraphTypes, ClientTypes,
       WorkerTypes, ClientPoints, Early, Linking, Waiting
<1>6. Homed'
    BY <1>0 DEF Structure, Homed, clear_graph, ClearOnce, nodeVars, graphVars, clientVars,
       workerVars, boundVars, Types, NodeTypes, GraphTypes, ClientTypes, WorkerTypes,
       ClientPoints, Early, Linking, Waiting
<1>7. GraphLists'
    BY <1>0 DEF Structure, GraphLists, clear_graph, ClearOnce, nodeVars, graphVars,
       clientVars, workerVars, boundVars, Types, NodeTypes, GraphTypes, ClientTypes,
       WorkerTypes, ClientPoints, Early, Linking, Waiting
<1>8. InGraph'
    BY <1>0 DEF Structure, InGraph, clear_graph, ClearOnce, nodeVars, graphVars, clientVars,
       workerVars, boundVars, Types, NodeTypes, GraphTypes, ClientTypes, WorkerTypes,
       ClientPoints, Early, Linking, Waiting
<1>9. BitsOwned'
    <2>1. KeepsRegs  BY DEF KeepsRegs, clear_graph, ClearOnce, nodeVars, graphVars,
        clientVars, workerVars, boundVars, Types, ClientTypes
    <2> QED  BY <1>3, <2>1, BitsKept DEF clear_graph, ClearOnce, nodeVars, graphVars,
        clientVars, workerVars, boundVars
<1>10. Listed'
    BY <1>2, ListedKept DEF clear_graph, ClearOnce, nodeVars, graphVars, clientVars,
       workerVars, boundVars
<1>11. Told'
    BY <1>0 DEF Structure, Told, Belongs, clear_graph, ClearOnce, nodeVars, graphVars,
       clientVars, workerVars, boundVars, Types, NodeTypes, GraphTypes, ClientTypes,
       WorkerTypes, ClientPoints, Early, Linking, Waiting
<1>12. Tested'
    BY <1>0 DEF Structure, Tested, Belongs, IsFast, clear_graph, ClearOnce, nodeVars,
       graphVars, clientVars, workerVars, boundVars, Types, NodeTypes, GraphTypes,
       ClientTypes, WorkerTypes, ClientPoints, Early, Linking, Waiting
<1>13. Placement'
    <2>1. \A n \in Nodes : status'[n] = status[n]
              \/ (status[n] = "Recoverable" /\ status'[n] = "Destroy")
        BY <1>0 DEF clear_graph, ClearOnce, Types, NodeTypes
    <2> QED  BY <1>2, <2>1, DestroyKept DEF clear_graph, ClearOnce, nodeVars, graphVars,
        clientVars, workerVars, boundVars
<1> QED
    BY <1>1, <1>4, <1>5, <1>6, <1>7, <1>8, <1>9, <1>10, <1>11, <1>12, <1>13 DEF Structure

-----------------------------------------------------------------------------
(* The workers *)

\* A worker leaves alone what the clients build; it only copies a bitmap.
LEMMA StructureKept ==
    ASSUME Types, Structure,
           UNCHANGED <<clientVars, made, parent_graph, node_id, g_nodes,
                       fast_down_strams, down_streams, g_down_streams>>,
           \A r \in Nodes : fast_down_strams_bak'[r]
              \subseteq fast_down_strams_bak[r] \cup fast_down_strams[r]
    PROVE  StaysCommitted /\ Structure'
<1>1. StaysCommitted  BY DEF StaysCommitted, Committed, clientVars
<1>2. StaysOwned  BY <1>1, OwnedKept
<1>3. Belongs' /\ Distinct' /\ Homed' /\ Told'
    BY DEF Structure, Belongs, Distinct, Homed, Told, clientVars
<1>4. GraphLists' /\ InGraph'  BY DEF Structure, GraphLists, InGraph
<1>5. BitsOwned'
    <2>0. Bits \subseteq Nat /\ NodeBits \subseteq Bits /\ fast_node_max_num \notin NodeBits
        BY BoundAssumption DEF Bits, NodeBits
    <2>1. \A r \in Nodes : \A b \in fast_down_strams[r] : Owned(r, b)'
        BY <1>2, <2>0 DEF Structure, BitsOwned, StaysOwned, Types, NodeTypes
    <2>2. \A r \in Nodes : \A b \in fast_down_strams_bak[r] \ {fast_node_max_num} : Owned(r, b)'
        BY <1>2, <2>0 DEF Structure, BitsOwned, StaysOwned, Types, NodeTypes
    <2>3. \A r \in Nodes : \A b \in fast_down_strams_bak'[r] \ {fast_node_max_num} : Owned(r, b)'
        BY <2>1, <2>2
    <2>4. ASSUME NEW d \in Clients, c_pc[d] = "bit_store", NEW b \in reg[d]
          PROVE  Owned(Head(todo[d]), b)'
        <3>1. Head(todo[d]) \in Nodes
            BY <2>4, HeadOfTodo DEF Linking, Structure, Tested
        <3>2. b \in Nat /\ Owned(Head(todo[d]), b)
            BY <2>0, <2>4 DEF Structure, BitsOwned, Types, ClientTypes
        <3>3. Owned(Head(todo[d]), b)'
            <4>1. \A r \in Nodes : Owned(r, b) => Owned(r, b)'  BY <1>2, <3>2 DEF StaysOwned
            <4>2. todo' = todo  BY DEF clientVars
            <4> QED  BY <3>1, <3>2, <4>1, <4>2
        <3> QED  BY <3>3
    <2> QED  BY <2>1, <2>3, <2>4 DEF BitsOwned, clientVars
<1>6. Listed'  BY <1>1, ListedKept
<1>7. Tested'  BY DEF Structure, Tested, IsFast, clientVars
<1> QED  BY <1>1, <1>3, <1>4, <1>5, <1>6, <1>7 DEF Structure

\* A worker with a task has it to itself.
LEMMA OwnTask ==
    ASSUME Types, Placement, NEW w \in Workers, w_pc[w] # "idle"
    PROVE  /\ task[w] \in Nodes /\ OnePlace(task[w]) /\ Doing(w, task[w])
           /\ Committed(task[w]) /\ wait_count[task[w]] <= 0
           /\ ~Queued(task[w])
           /\ \A v \in Workers : ~Noted(v, task[w]) /\ next_task[v] # task[w]
           /\ \A v \in Workers \ {w} : ~Doing(v, task[w])
<1>1. task[w] \in Nodes /\ Doing(w, task[w])  BY DEF Types, WorkerTypes, Doing
<1>2. OnePlace(task[w])  BY <1>1 DEF Placement, Exclusive
<1>3. Placed(task[w])  BY <1>1 DEF Placed
<1>4. Committed(task[w]) /\ wait_count[task[w]] <= 0
    BY <1>1, <1>3 DEF Placement, Released
<1> QED  BY <1>1, <1>2, <1>4 DEF OnePlace

\* A step of one worker that goes on with its task.
StepsOn(w) ==
    /\ \E to \in WorkerPoints \ {"idle", "start"} : w_pc' = [w_pc EXCEPT ![w] = to]
    /\ w_pc[w] # "idle"
    /\ UNCHANGED <<task, notified_nodes, next_task, task_queue>>

\* A worker that goes on inside run_task keeps its node where it is.
LEMMA StepsOnKept ==
    ASSUME Types, Placement, StaysCommitted, NEW w \in Workers, StepsOn(w), UNCHANGED wait_count,
           \A n \in Nodes : n # task[w] => status'[n] = status[n],
           status'[task[w]] # "Initing",
           w_pc'[w] \in {"run", "finish"} => status'[task[w]] = "Running",
           w_pc'[w] \in Leaving => status'[task[w]] = "Finish"
    PROVE  Placement'
<1>1. PICK to \in WorkerPoints \ {"idle", "start"} : w_pc' = [w_pc EXCEPT ![w] = to]
    BY DEF StepsOn
<1>2. /\ \A v \in Workers, n \in Nodes : Noted(v, n)' <=> Noted(v, n)
      /\ \A n \in Nodes : Queued(n)' <=> Queued(n)
    BY DEF StepsOn, Noted, Queued
<1>3. \A v \in Workers, n \in Nodes : Doing(v, n)' <=> Doing(v, n)
    BY <1>1 DEF StepsOn, Doing, Types, WorkerTypes
<1>4. \A n \in Nodes : Placed(n)' <=> Placed(n)  BY <1>2, <1>3 DEF Placed, StepsOn
<1>o. /\ task[w] \in Nodes /\ Placed(task[w]) /\ Doing(w, task[w]) /\ ~Queued(task[w])
      /\ \A v \in Workers : ~Noted(v, task[w]) /\ next_task[v] # task[w]
      /\ \A v \in Workers \ {w} : ~Doing(v, task[w])
    BY OwnTask DEF StepsOn, Placed
<1>5. Untouched'  BY DEF Placement, Untouched, StaysCommitted
<1>6. Released'  BY <1>4, <1>o DEF Placement, Released, StaysCommitted
<1>7. Exclusive'
    <2> SUFFICES ASSUME NEW n \in Nodes PROVE OnePlace(n)'  BY DEF Exclusive
    <2>1. OnePlace(n)  BY DEF Placement, Exclusive
    <2> QED  BY <1>2, <1>3, <2>1 DEF OnePlace, StepsOn
<1>8. NotStarted'
    <2> SUFFICES ASSUME NEW n \in Nodes, status'[n] # "Initing"
                 PROVE  /\ ~Queued(n)'
                        /\ \A v \in Workers : ~Noted(v, n)' /\ next_task'[v] # n
                        /\ \A v \in Workers : Doing(v, n)' => w_pc'[v] # "start"
        BY DEF NotStarted
    <2>1. CASE n = task[w]
        <3>1. w_pc'[w] # "start"  BY <1>1 DEF Types, WorkerTypes
        <3> QED  BY <1>2, <1>3, <1>o, <2>1, <3>1 DEF StepsOn
    <2>2. CASE n # task[w]
        <3>1. /\ ~Queued(n)
              /\ \A v \in Workers : ~Noted(v, n) /\ next_task[v] # n
              /\ \A v \in Workers : Doing(v, n) => w_pc[v] # "start"
            BY <2>2 DEF Placement, NotStarted
        <3>2. \A v \in Workers : Doing(v, n) => w_pc'[v] = w_pc[v]
            BY <1>1, <2>2 DEF Doing, Types, WorkerTypes
        <3> QED  BY <1>2, <1>3, <3>1, <3>2 DEF StepsOn
    <2> QED  BY <2>1, <2>2
<1>9. Started'
    <2> SUFFICES ASSUME NEW v \in Workers
                 PROVE  /\ w_pc'[v] \in {"run", "finish"} => status'[task[v]] = "Running"
                        /\ w_pc'[v] \in Leaving => status'[task[v]] = "Finish"
        BY DEF Started, StepsOn
    <2>1. CASE v = w  BY <2>1
    <2>2. CASE v # w /\ w_pc[v] # "idle"
        <3>1. task[v] \in Nodes /\ task[v] # task[w] /\ w_pc'[v] = w_pc[v]
            BY <1>1, <1>o, <2>2 DEF Doing, Types, WorkerTypes
        <3> QED  BY <3>1 DEF Placement, Started
    <2>3. CASE v # w /\ w_pc[v] = "idle"
        BY <1>1, <2>3 DEF Types, WorkerTypes, Leaving
    <2> QED  BY <2>1, <2>2, <2>3
<1> QED  BY <1>5, <1>6, <1>7, <1>8, <1>9 DEF Placement

\* A worker takes a task.
LEMMA DequeueLife ==
    ASSUME LifeInv, NEW w \in Workers, NEW n \in Nodes, Dequeue(w, n)
    PROVE  LifeInv'
<1> USE DEF LifeInv
<1>0. /\ w_pc[w] = "idle" /\ w_pc' = [w_pc EXCEPT ![w] = "start"]
      /\ task' = [task EXCEPT ![w] = n]
      /\ task_queue' = [task_queue EXCEPT ![n] = @ - 1] /\ task_queue[n] > 0
      /\ UNCHANGED <<nodeVars, graphVars, sema, clientVars, notified_nodes, next_task, boundVars>>
    BY DEF Dequeue, WGo
<1>1. OnePlace(n) /\ task_queue \in [Nodes -> Nat]
    BY DEF Placement, Exclusive, Types, GraphTypes
<1>2. /\ task_queue[n] = 1 /\ task_queue' \in [Nodes -> Nat] /\ task_queue'[n] = 0
      /\ \A m \in Nodes \ {n} : task_queue'[m] = task_queue[m]
    BY <1>0, <1>1 DEF OnePlace
<1>3. Types'
    <2>1. NodeTypes' /\ ClientTypes'
        BY <1>0 DEF Types, NodeTypes, ClientTypes, nodeVars, clientVars, boundVars
    <2>2. GraphTypes'  BY <1>0, <1>2 DEF Types, GraphTypes, graphVars, boundVars
    <2>3. WorkerTypes'  BY <1>0 DEF Types, WorkerTypes, WorkerPoints
    <2> QED  BY <2>1, <2>2, <2>3 DEF Types
<1>4. StaysCommitted /\ Structure'
    BY <1>0, StructureKept DEF nodeVars, graphVars, boundVars
<1>5. /\ Queued(n) /\ ~Queued(n)' /\ \A m \in Nodes \ {n} : Queued(m)' <=> Queued(m)
      /\ \A v \in Workers, m \in Nodes : Noted(v, m)' <=> Noted(v, m)
      /\ \A v \in Workers \ {w}, m \in Nodes : Doing(v, m)' <=> Doing(v, m)
      /\ \A m \in Nodes : ~Doing(w, m) /\ (Doing(w, m)' <=> m = n)
    BY <1>0, <1>2 DEF Queued, Noted, Doing, Types, WorkerTypes
<1>6. \A v \in Workers : ~Noted(v, n) /\ next_task[v] # n /\ ~Doing(v, n)
    BY <1>1, <1>5 DEF OnePlace
<1>7. Untouched'  BY <1>0, <1>4 DEF Placement, Untouched, StaysCommitted, nodeVars
<1>8. Released'
    <2>1. \A m \in Nodes : Placed(m)' => Placed(m)  BY <1>0, <1>5 DEF Placed
    <2> QED  BY <1>0, <1>4, <2>1 DEF Placement, Released, StaysCommitted, nodeVars
<1>9. Exclusive'
    <2> SUFFICES ASSUME NEW m \in Nodes PROVE OnePlace(m)'  BY DEF Exclusive
    <2>1. OnePlace(m)  BY DEF Placement, Exclusive
    <2>2. CASE m = n  BY <1>0, <1>2, <1>5, <1>6, <2>1, <2>2 DEF OnePlace
    <2>3. CASE m # n  BY <1>0, <1>2, <1>5, <2>1, <2>3 DEF OnePlace
    <2> QED  BY <2>2, <2>3
<1>10. NotStarted'
    <2>1. status[n] = "Initing"  BY <1>5 DEF Placement, NotStarted
    <2>2. status' = status /\ next_task' = next_task  BY <1>0 DEF nodeVars
    <2> SUFFICES ASSUME NEW m \in Nodes, status[m] # "Initing"
                 PROVE  /\ ~Queued(m)'
                        /\ \A v \in Workers : ~Noted(v, m)' /\ next_task[v] # m
                        /\ \A v \in Workers : Doing(v, m)' => w_pc'[v] # "start"
        BY <2>2 DEF NotStarted
    <2>3. m # n  BY <2>1
    <2>4. /\ ~Queued(m)
          /\ \A v \in Workers : ~Noted(v, m) /\ next_task[v] # m
          /\ \A v \in Workers : Doing(v, m) => w_pc[v] # "start"
        BY DEF Placement, NotStarted
    <2>5. \A v \in Workers : Doing(v, m)' => v # w /\ w_pc'[v] = w_pc[v]
        BY <1>0, <1>5, <2>3 DEF Types, WorkerTypes
    <2> QED  BY <1>5, <2>3, <2>4, <2>5
<1>11. Started'
    BY <1>0 DEF Placement, Started, Types, WorkerTypes, Leaving, nodeVars
<1> QED  BY <1>3, <1>4, <1>7, <1>8, <1>9, <1>10, <1>11 DEF Placement

\* The status goes to Running.
LEMMA ResumeLife ==
    ASSUME LifeInv, NEW w \in Workers, Resume(w)
    PROVE  LifeInv'
<1> USE DEF LifeInv
<1>0. /\ w_pc[w] = "start" /\ w_pc' = [w_pc EXCEPT ![w] = "run"] /\ task[w] \in Nodes
      /\ status' = [status EXCEPT ![task[w]] = "Running"]
    BY DEF Resume, WGo, Types, WorkerTypes
<1>1. Types'
    <2>1. NodeTypes'  BY <1>0 DEF Types, NodeTypes, Resume, Statuses, boundVars
    <2>2. GraphTypes' /\ ClientTypes'
        BY DEF Types, GraphTypes, ClientTypes, Resume, graphVars, clientVars, boundVars
    <2>3. WorkerTypes'  BY <1>0 DEF Types, WorkerTypes, Resume, WorkerPoints
    <2> QED  BY <2>1, <2>2, <2>3 DEF Types
<1>2. StaysCommitted /\ Structure'  BY StructureKept DEF Resume, graphVars, boundVars
<1>3. StepsOn(w)  BY <1>0 DEF StepsOn, Resume, WorkerPoints
<1>4. /\ \A n \in Nodes : n # task[w] => status'[n] = status[n]
      /\ status'[task[w]] = "Running" /\ w_pc'[w] = "run"
    BY <1>0 DEF Types, NodeTypes, WorkerTypes
<1>5. Placement'
    BY <1>2, <1>3, <1>4, StepsOnKept DEF Resume, Leaving
<1> QED  BY <1>1, <1>2, <1>5

\* The task runs; a waiter wakes its client.
LEMMA RunLife ==
    ASSUME LifeInv, NEW w \in Workers, Run(w)
    PROVE  LifeInv'
<1> USE DEF LifeInv
<1>0. /\ w_pc[w] = "run" /\ w_pc' = [w_pc EXCEPT ![w] = "finish"] /\ task[w] \in Nodes
      /\ UNCHANGED <<nodeVars, graphVars, task_queue, clientVars, task, notified_nodes,
                     next_task, boundVars>>
    BY DEF Run, WGo, Types, WorkerTypes
<1>1. Types'
    <2>1. NodeTypes' /\ ClientTypes'
        BY <1>0 DEF Types, NodeTypes, ClientTypes, nodeVars, clientVars, boundVars
    <2>2. sema' \in [Clients -> BOOLEAN]
        <3>1. sema' = [c \in Clients |-> sema[c] \/ parent_graph[task[w]] = c]  BY DEF Run
        <3>2. \A c \in Clients : (sema[c] \/ parent_graph[task[w]] = c) \in BOOLEAN  OBVIOUS
        <3> QED  BY ONLY <3>1, <3>2
    <2>3. GraphTypes'  BY <1>0, <2>2 DEF Types, GraphTypes, graphVars, boundVars
    <2>4. WorkerTypes'  BY <1>0 DEF Types, WorkerTypes, WorkerPoints
    <2> QED  BY <2>1, <2>3, <2>4 DEF Types
<1>2. StaysCommitted /\ Structure'
    BY <1>0, StructureKept DEF nodeVars, graphVars, boundVars
<1>3. StepsOn(w)  BY <1>0 DEF StepsOn, WorkerPoints
<1>4. status' = status /\ status[task[w]] = "Running" /\ w_pc'[w] = "finish"
    BY <1>0 DEF Types, WorkerTypes, Placement, Started, nodeVars
<1>5. Placement'
    BY <1>0, <1>2, <1>3, <1>4, StepsOnKept DEF nodeVars, Leaving
<1> QED  BY <1>1, <1>2, <1>5

\* The status goes to Finish.
LEMMA FinishLife ==
    ASSUME LifeInv, NEW w \in Workers, Finish(w)
    PROVE  LifeInv'
<1> USE DEF LifeInv
<1>0. /\ w_pc[w] = "finish" /\ w_pc' = [w_pc EXCEPT ![w] = "take_bak"] /\ task[w] \in Nodes
      /\ status' = [status EXCEPT ![task[w]] = "Finish"]
    BY DEF Finish, WGo, Types, WorkerTypes
<1>1. Types'
    <2>1. NodeTypes'  BY <1>0 DEF Types, NodeTypes, Finish, Statuses, Ended, boundVars
    <2>2. GraphTypes' /\ ClientTypes'
        BY DEF Types, GraphTypes, ClientTypes, Finish, graphVars, clientVars, boundVars
    <2>3. WorkerTypes'  BY <1>0 DEF Types, WorkerTypes, Finish, WorkerPoints, Leaving
    <2> QED  BY <2>1, <2>2, <2>3 DEF Types
<1>2. StaysCommitted /\ Structure'  BY StructureKept DEF Finish, graphVars, boundVars
<1>3. StepsOn(w)  BY <1>0 DEF StepsOn, Finish, WorkerPoints, Leaving
<1>4. /\ \A n \in Nodes : n # task[w] => status'[n] = status[n]
      /\ status'[task[w]] = "Finish" /\ w_pc'[w] = "take_bak"
    BY <1>0 DEF Types, NodeTypes, WorkerTypes
<1>5. Placement'
    BY <1>2, <1>3, <1>4, StepsOnKept DEF Finish
<1> QED  BY <1>1, <1>2, <1>5

\* The bitmap is taken.
LEMMA TakeBakLife ==
    ASSUME LifeInv, NEW w \in Workers, TakeBak(w)
    PROVE  LifeInv'
<1> USE DEF LifeInv
<1>0. /\ w_pc[w] = "take_bak" /\ w_pc' = [w_pc EXCEPT ![w] = "fast"] /\ task[w] \in Nodes
      /\ fast_down_strams_bak' =
            [fast_down_strams_bak EXCEPT ![task[w]] = fast_down_strams[task[w]]]
    BY DEF TakeBak, WGo, Types, WorkerTypes
<1>1. Types'
    <2>1. NodeTypes'  BY <1>0 DEF Types, NodeTypes, TakeBak, NodeBits, boundVars
    <2>2. GraphTypes' /\ ClientTypes'
        BY DEF Types, GraphTypes, ClientTypes, TakeBak, graphVars, clientVars, boundVars
    <2>3. WorkerTypes'  BY <1>0 DEF Types, WorkerTypes, TakeBak, WorkerPoints, Leaving
    <2> QED  BY <2>1, <2>2, <2>3 DEF Types
<1>2. StaysCommitted /\ Structure'
    <2>1. \A r \in Nodes : fast_down_strams_bak'[r]
              \subseteq fast_down_strams_bak[r] \cup fast_down_strams[r]
        BY <1>0 DEF Types, NodeTypes
    <2> QED  BY <2>1, StructureKept DEF TakeBak, graphVars, boundVars
<1>3. StepsOn(w)  BY <1>0 DEF StepsOn, TakeBak, WorkerPoints, Leaving
<1>4. status' = status /\ status[task[w]] = "Finish" /\ w_pc'[w] = "fast"
    BY <1>0 DEF TakeBak, Types, WorkerTypes, Placement, Started, Leaving
<1>5. Placement'
    BY <1>2, <1>3, <1>4, StepsOnKept DEF TakeBak
<1> QED  BY <1>1, <1>2, <1>5

\* The node leaves its graph's count.
LEMMA LeaveGraphLife ==
    ASSUME LifeInv, NEW w \in Workers, LeaveGraph(w)
    PROVE  LifeInv'
<1> USE DEF LifeInv
<1>0. /\ w_pc[w] = "leave" /\ task[w] \in Nodes
      /\ g_wait_count' = [g_wait_count EXCEPT ![parent_graph[task[w]]] = @ - 1]
      /\ UNCHANGED <<nodeVars, g_nodes, g_down_streams, cleared, task_queue, sema,
                     clientVars, task, notified_nodes, next_task, boundVars>>
    BY DEF LeaveGraph, WGo, Types, WorkerTypes
<1>p. PICK to \in {"waiters", "pick"} : w_pc' = [w_pc EXCEPT ![w] = to]
    BY DEF LeaveGraph, WGo
<1>1. Types'
    <2>1. NodeTypes' /\ ClientTypes'
        BY <1>0 DEF Types, NodeTypes, ClientTypes, nodeVars, clientVars, boundVars
    <2>2. g_wait_count' \in [AllGraphs -> Int]
        <3> DEFINE g == parent_graph[task[w]]
        <3>1. g_wait_count \in [AllGraphs -> Int]  BY DEF Types, GraphTypes
        <3>2. g_wait_count' = [g_wait_count EXCEPT ![g] = g_wait_count[g] - 1]  BY <1>0
        <3>3. g \in AllGraphs => g_wait_count[g] - 1 \in Int  BY <3>1
        <3> HIDE DEF g
        <3> QED  BY ONLY <3>1, <3>2, <3>3
    <2>3. GraphTypes'  BY <1>0, <2>2 DEF Types, GraphTypes, boundVars
    <2>4. WorkerTypes'  BY <1>0, <1>p DEF Types, WorkerTypes, WorkerPoints, Leaving
    <2> QED  BY <2>1, <2>3, <2>4 DEF Types
<1>2. StaysCommitted /\ Structure'  BY <1>0, StructureKept DEF nodeVars, boundVars
<1>3. StepsOn(w)  BY <1>0, <1>p DEF StepsOn, WorkerPoints, Leaving
<1>4. /\ status' = status /\ status[task[w]] = "Finish" /\ w_pc'[w] = to
      /\ wait_count' = wait_count
    BY <1>0, <1>p DEF Types, WorkerTypes, Placement, Started, Leaving, nodeVars
<1>5. Placement'
    BY <1>2, <1>3, <1>4, StepsOnKept
<1> QED  BY <1>1, <1>2, <1>5

(* Notify *)

\* How often n is among the first k of ds.
Hits(ds, n, k) == Cardinality({i \in 1 .. k : ds[i] = n})

\* n occurs more often in a longer part of ds that ends with it.
LEMMA HitsGrow ==
    ASSUME NEW ds \in Seq(Nodes), NEW n, NEW j \in 0 .. Len(ds), NEW k \in 1 .. Len(ds),
           j < k, ds[k] = n
    PROVE  /\ Hits(ds, n, j) \in Nat /\ Hits(ds, n, k) \in Nat
           /\ Hits(ds, n, j) < Hits(ds, n, k)
<1> DEFINE A == {i \in 1 .. j : ds[i] = n}
           B == {i \in 1 .. k : ds[i] = n}
<1>1. j \in Nat /\ k \in Nat  OBVIOUS
<1>2. IsFiniteSet(1 .. k)  BY <1>1, FS_Interval
<1>3. B \subseteq 1 .. k /\ A \subseteq B /\ k \in B /\ k \notin A  BY <1>1
<1>4. IsFiniteSet(B) /\ IsFiniteSet(A)  BY <1>2, <1>3, FS_Subset
<1>5. Cardinality(A \cup {k}) = Cardinality(A) + 1  BY <1>3, <1>4, FS_AddElement
<1>6. A \cup {k} \subseteq B  BY <1>3
<1>7. Cardinality(A \cup {k}) <= Cardinality(B)  BY <1>4, <1>6, FS_Subset
<1>8. Cardinality(A) \in Nat /\ Cardinality(B) \in Nat  BY <1>4, FS_CardinalityType
<1>9. Cardinality(A) < Cardinality(B)  BY <1>5, <1>7, <1>8
<1> QED  BY <1>8, <1>9 DEF Hits

\* n occurs in a part of ds no more often than in all of it.
LEMMA HitsBound ==
    ASSUME NEW ds \in Seq(Nodes), NEW n, NEW k \in 0 .. Len(ds)
    PROVE  /\ Hits(ds, n, k) \in Nat /\ Hits(ds, n, Len(ds)) \in Nat
           /\ Hits(ds, n, k) <= Hits(ds, n, Len(ds))
           /\ Hits(ds, n, 0) = 0
           /\ (\A i \in DOMAIN ds : ds[i] # n) => Hits(ds, n, Len(ds)) = 0
<1> DEFINE A == {i \in 1 .. k : ds[i] = n}
           B == {i \in 1 .. Len(ds) : ds[i] = n}
<1>1. k \in Nat /\ Len(ds) \in Nat  OBVIOUS
<1>2. IsFiniteSet(1 .. Len(ds))  BY <1>1, FS_Interval
<1>3. B \subseteq 1 .. Len(ds) /\ A \subseteq B  BY <1>1
<1>4. IsFiniteSet(B) /\ IsFiniteSet(A)  BY <1>2, <1>3, FS_Subset
<1>5. Cardinality(A) <= Cardinality(B)  BY <1>3, <1>4, FS_Subset
<1>6. Cardinality(A) \in Nat /\ Cardinality(B) \in Nat  BY <1>4, FS_CardinalityType
<1>7. Cardinality({}) = 0  BY FS_EmptySet
<1>8. {i \in 1 .. 0 : ds[i] = n} = {}  OBVIOUS
<1>9. (\A i \in DOMAIN ds : ds[i] # n) => B = {}  OBVIOUS
<1> QED  BY <1>5, <1>6, <1>7, <1>8, <1>9 DEF Hits

\* A function on 1 .. m is a sequence.
LEMMA FunctionIsSeq ==
    ASSUME NEW S, NEW m \in Nat, NEW s \in [1 .. m -> S]
    PROVE  s \in Seq(S)
OBVIOUS

\* What Notify does: the nodes it notes are nodes of ds, each once, whose count
\* it has brought down to zero or below; it takes from the others.
Notes(w, ds, s) ==
    /\ s \in Seq(Nodes)
    /\ notified_nodes' = [notified_nodes EXCEPT ![w] = @ \o s]
    /\ \A i, j \in DOMAIN s : s[i] = s[j] => i = j
    /\ \A i \in DOMAIN s : /\ \E k \in DOMAIN ds : s[i] = ds[k]
                           /\ wait_count[s[i]] >= 1 /\ wait_count'[s[i]] <= 0

\* Notify takes from each count what ds asks for, and notes as Notes says.
LEMMA NotifyEffect ==
    ASSUME Types, NEW w \in Workers, NEW ds \in Seq(Nodes), Notify(w, ds)
    PROVE  /\ wait_count' \in [Nodes -> Int]
           /\ \A n \in Nodes : wait_count'[n] = wait_count[n] - Hits(ds, n, Len(ds))
           /\ \E s : Notes(w, ds, s)
<1> DEFINE zero == {k \in DOMAIN ds : wait_count[ds[k]] = Hits(ds, ds[k], k)}
           item(order) == [j \in DOMAIN order |-> ds[order[j]]]
<1>0. wait_count \in [Nodes -> Int]  BY DEF Types, NodeTypes
<1>1. \A n \in Nodes : Hits(ds, n, Len(ds)) \in Nat  BY HitsBound
<1>2. wait_count' = [n \in Nodes |-> wait_count[n] - Hits(ds, n, Len(ds))]
    BY DEF Notify, Hits
<1>3. /\ wait_count' \in [Nodes -> Int]
      /\ \A n \in Nodes : wait_count'[n] = wait_count[n] - Hits(ds, n, Len(ds))
    BY <1>0, <1>1, <1>2
<1>4. PICK order \in Ascending(zero) :
          notified_nodes' = [notified_nodes EXCEPT ![w] = @ \o item(order)]
    BY DEF Notify, Hits
<1>5. IsFiniteSet(zero)
    <2>1. IsFiniteSet(1 .. Len(ds))  BY FS_Interval
    <2> QED  BY <2>1, FS_Subset
<1>6. Cardinality(zero) \in Nat  BY <1>5, FS_CardinalityType
<1>7. /\ order \in [1 .. Cardinality(zero) -> zero]
      /\ \A i, j \in DOMAIN order : i < j => order[i] < order[j]
    BY DEF Ascending
<1> DEFINE s == item(order)
<1>8. /\ DOMAIN s = 1 .. Cardinality(zero) /\ DOMAIN s = DOMAIN order
      /\ \A i \in DOMAIN s : s[i] = ds[order[i]] /\ order[i] \in zero
    BY <1>7
<1>9. \A i \in DOMAIN s : s[i] \in Nodes  BY <1>8
<1>10. s \in Seq(Nodes)
    <2>1. s \in [1 .. Cardinality(zero) -> Nodes]  BY <1>8, <1>9
    <2> QED  BY <1>6, <2>1, FunctionIsSeq
<1> HIDE DEF s, item
<1>z. \A k \in zero : k \in 1 .. Len(ds) /\ wait_count[ds[k]] = Hits(ds, ds[k], k)
    OBVIOUS
<1> HIDE DEF zero
<1>11. ASSUME NEW i \in DOMAIN s, NEW j \in DOMAIN s, s[i] = s[j], i < j
       PROVE  FALSE
    <2>1. /\ order[i] < order[j] /\ order[i] \in 1 .. Len(ds) /\ order[j] \in 1 .. Len(ds)
          /\ ds[order[i]] = ds[order[j]]
          /\ wait_count[ds[order[i]]] = Hits(ds, ds[order[i]], order[i])
          /\ wait_count[ds[order[j]]] = Hits(ds, ds[order[j]], order[j])
        BY <1>7, <1>8, <1>11, <1>z
    <2>2. Hits(ds, ds[order[j]], order[i]) < Hits(ds, ds[order[j]], order[j])
          /\ Hits(ds, ds[order[j]], order[i]) \in Nat
        BY <2>1, HitsGrow
    <2> QED  BY <2>1, <2>2
<1>12. \A i, j \in DOMAIN s : s[i] = s[j] => i = j
    <2>1. \A i \in DOMAIN s : i \in Int  BY <1>8
    <2> QED  BY <1>11, <2>1
<1>13. ASSUME NEW i \in DOMAIN s
       PROVE  /\ \E k \in DOMAIN ds : s[i] = ds[k]
              /\ wait_count[s[i]] >= 1 /\ wait_count'[s[i]] <= 0
    <2> DEFINE k == order[i]
    <2>1. k \in 1 .. Len(ds) /\ s[i] = ds[k] /\ wait_count[ds[k]] = Hits(ds, ds[k], k)
        BY <1>8, <1>z
    <2> HIDE DEF k
    <2>2. Hits(ds, ds[k], 0) < Hits(ds, ds[k], k) /\ Hits(ds, ds[k], 0) = 0
        BY <2>1, HitsGrow, HitsBound
    <2>3. /\ Hits(ds, ds[k], k) <= Hits(ds, ds[k], Len(ds)) /\ Hits(ds, ds[k], k) \in Nat
          /\ Hits(ds, ds[k], Len(ds)) \in Nat
        BY <2>1, HitsBound
    <2>4. wait_count'[s[i]] = wait_count[s[i]] - Hits(ds, ds[k], Len(ds))
        BY <1>3, <2>1
    <2> QED  BY <2>1, <2>2, <2>3, <2>4
<1>14. notified_nodes' = [notified_nodes EXCEPT ![w] = @ \o s]  BY <1>4 DEF s
<1>15. Notes(w, ds, s)  BY <1>10, <1>12, <1>13, <1>14 DEF Notes
<1> QED  BY <1>3, <1>15

\* The items of two sequences put together.
LEMMA ConcatItem ==
    ASSUME NEW S, NEW s \in Seq(S), NEW t \in Seq(S)
    PROVE  /\ s \o t \in Seq(S)
           /\ \A i \in DOMAIN (s \o t) :
                 \/ i \in DOMAIN s /\ (s \o t)[i] = s[i]
                 \/ i \notin DOMAIN s /\ i - Len(s) \in DOMAIN t /\ (s \o t)[i] = t[i - Len(s)]
           /\ \A i \in DOMAIN s : i \in DOMAIN (s \o t) /\ (s \o t)[i] = s[i]
           /\ \A i \in DOMAIN t :
                 i + Len(s) \in DOMAIN (s \o t) /\ (s \o t)[i + Len(s)] = t[i]
OBVIOUS

\* The nodes a worker notes had no place before.
LEMMA NotifyKept ==
    ASSUME Types, Placement, StaysCommitted, NEW w \in Workers, NEW ds \in Seq(Nodes),
           \A i \in DOMAIN ds : Committed(ds[i]),
           Notify(w, ds), w_pc[w] \in Leaving,
           \E to \in Leaving : w_pc' = [w_pc EXCEPT ![w] = to],
           UNCHANGED <<status, task_queue, task, next_task>>
    PROVE  /\ wait_count' \in [Nodes -> Int] /\ notified_nodes' \in [Workers -> Seq(Nodes)]
           /\ Placement'
<1>1. /\ wait_count' \in [Nodes -> Int]
      /\ \A n \in Nodes : wait_count'[n] = wait_count[n] - Hits(ds, n, Len(ds))
    BY NotifyEffect
<1>2. PICK s : Notes(w, ds, s)  BY NotifyEffect
<1>3. PICK to \in Leaving : w_pc' = [w_pc EXCEPT ![w] = to]  OBVIOUS
<1>t. /\ wait_count \in [Nodes -> Int] /\ notified_nodes \in [Workers -> Seq(Nodes)]
      /\ w_pc \in [Workers -> WorkerPoints]
    BY DEF Types, NodeTypes, WorkerTypes
<1> DEFINE New(n) == \E i \in DOMAIN s : s[i] = n
           q == notified_nodes[w] \o s
<1>q. /\ notified_nodes[w] \in Seq(Nodes) /\ s \in Seq(Nodes) /\ q \in Seq(Nodes)
      /\ \A i \in DOMAIN q :
            \/ i \in DOMAIN notified_nodes[w] /\ q[i] = notified_nodes[w][i]
            \/ /\ i \notin DOMAIN notified_nodes[w]
               /\ i - Len(notified_nodes[w]) \in DOMAIN s
               /\ q[i] = s[i - Len(notified_nodes[w])]
      /\ \A i \in DOMAIN notified_nodes[w] : i \in DOMAIN q /\ q[i] = notified_nodes[w][i]
      /\ \A i \in DOMAIN s :
            i + Len(notified_nodes[w]) \in DOMAIN q /\ q[i + Len(notified_nodes[w])] = s[i]
    <2>1. notified_nodes[w] \in Seq(Nodes) /\ s \in Seq(Nodes)  BY <1>2, <1>t DEF Notes
    <2> QED  BY SMTT(60), <2>1, ConcatItem
<1>4. /\ notified_nodes' \in [Workers -> Seq(Nodes)] /\ notified_nodes'[w] = q
      /\ \A v \in Workers \ {w} : notified_nodes'[v] = notified_nodes[v]
    <2>1. notified_nodes' = [notified_nodes EXCEPT ![w] = q]  BY <1>2 DEF Notes
    <2> HIDE DEF q
    <2> QED  BY <1>t, <1>q, <2>1
<1>5. ASSUME NEW n \in Nodes, New(n)
      PROVE  Committed(n) /\ ~Placed(n) /\ status[n] = "Initing" /\ wait_count'[n] <= 0
    <2>1. /\ \E k \in DOMAIN ds : n = ds[k]
          /\ wait_count[n] >= 1 /\ wait_count'[n] <= 0
        BY <1>2, <1>5 DEF Notes
    <2>2. ~(wait_count[n] <= 0)  BY <1>t, <2>1
    <2> QED  BY <2>1, <2>2 DEF Placement, Released
<1>6. ASSUME NEW n \in Nodes
      PROVE  /\ Noted(w, n)' <=> Noted(w, n) \/ New(n)
             /\ \A v \in Workers \ {w} : Noted(v, n)' <=> Noted(v, n)
             /\ \A v \in Workers : Doing(v, n)' <=> Doing(v, n)
             /\ Queued(n)' <=> Queued(n)
    <2>1. Noted(w, n)' <=> \E i \in DOMAIN q : q[i] = n
        <3>1. Noted(w, n)' <=> \E i \in DOMAIN notified_nodes'[w] : notified_nodes'[w][i] = n
            BY DEF Noted
        <3> QED  BY <1>4, <3>1
    <2>2. (\E i \in DOMAIN q : q[i] = n) <=> Noted(w, n) \/ New(n)
        <3> HIDE DEF q
        <3> QED  BY <1>q DEF Noted
    <2>3. \A v \in Workers \ {w} : Noted(v, n)' <=> Noted(v, n)
        BY <1>4 DEF Noted
    <2>4. \A v \in Workers : Doing(v, n)' <=> Doing(v, n)
        BY <1>3, <1>t DEF Doing, Leaving
    <2>5. Queued(n)' <=> Queued(n)  BY DEF Queued
    <2> HIDE DEF New
    <2> QED  BY <2>1, <2>2, <2>3, <2>4, <2>5
<1>d. \A n \in Nodes : wait_count'[n] <= wait_count[n]
                       /\ ((\A i \in DOMAIN ds : ds[i] # n) => wait_count'[n] = wait_count[n])
    <2> TAKE n \in Nodes
    <2>1. /\ Hits(ds, n, Len(ds)) \in Nat
          /\ (\A i \in DOMAIN ds : ds[i] # n) => Hits(ds, n, Len(ds)) = 0
        BY HitsBound
    <2>2. wait_count'[n] = wait_count[n] - Hits(ds, n, Len(ds)) /\ wait_count[n] \in Int
        BY <1>1, <1>t
    <2> QED  BY <2>1, <2>2
<1>7. Untouched'
    <2> SUFFICES ASSUME NEW n \in Nodes, ~Committed(n)' PROVE wait_count'[n] = 0
        BY DEF Untouched
    <2>1. ~Committed(n)  BY DEF StaysCommitted
    <2>2. \A i \in DOMAIN ds : ds[i] # n  BY <2>1
    <2> QED  BY <1>d, <2>1, <2>2 DEF Placement, Untouched
<1>8. Released'
    <2> SUFFICES ASSUME NEW n \in Nodes, Placed(n)' \/ status'[n] # "Initing"
                 PROVE  Committed(n)' /\ wait_count'[n] <= 0
        BY DEF Released
    <2>1. CASE New(n)  BY <1>5, <2>1 DEF StaysCommitted
    <2>2. CASE ~New(n)
        <3>1. Placed(n) \/ status[n] # "Initing"
            BY <1>6, <2>2 DEF Placed
        <3>2. Committed(n) /\ wait_count[n] <= 0  BY <3>1 DEF Placement, Released
        <3> QED  BY <1>1, <1>d, <1>t, <3>2 DEF StaysCommitted
    <2> QED  BY <2>1, <2>2
<1>9. Exclusive'
    <2> SUFFICES ASSUME NEW n \in Nodes PROVE OnePlace(n)'  BY DEF Exclusive
    <2>1. OnePlace(n)  BY DEF Placement, Exclusive
    <2>2. \A i, j \in DOMAIN q : q[i] = n /\ q[j] = n => i = j
        <3> SUFFICES ASSUME NEW i \in DOMAIN q, NEW j \in DOMAIN q, q[i] = n, q[j] = n
                     PROVE  i = j
            OBVIOUS
        <3>1. i \in Int /\ j \in Int /\ Len(notified_nodes[w]) \in Int  BY <1>q
        <3>2. New(n) => ~Noted(w, n)  BY <1>5 DEF Placed
        <3>3. CASE New(n)
            <4>1. /\ i - Len(notified_nodes[w]) \in DOMAIN s /\ s[i - Len(notified_nodes[w])] = n
                  /\ j - Len(notified_nodes[w]) \in DOMAIN s /\ s[j - Len(notified_nodes[w])] = n
                <5> HIDE DEF q, New
                <5> QED  BY <1>q, <3>2, <3>3 DEF Noted
            <4>2. i - Len(notified_nodes[w]) = j - Len(notified_nodes[w])
                BY <1>2, <4>1 DEF Notes
            <4> QED  BY <3>1, <4>2
        <3>4. CASE ~New(n)
            <4>1. /\ i \in DOMAIN notified_nodes[w] /\ notified_nodes[w][i] = n
                  /\ j \in DOMAIN notified_nodes[w] /\ notified_nodes[w][j] = n
                <5> HIDE DEF q
                <5> QED  BY <1>q, <3>4
            <4> QED  BY <2>1, <4>1 DEF OnePlace
        <3> QED  BY <3>3, <3>4
    <2>3. \A v \in Workers : \A i, j \in DOMAIN notified_nodes'[v] :
              notified_nodes'[v][i] = n /\ notified_nodes'[v][j] = n => i = j
        <3> SUFFICES ASSUME NEW v \in Workers
                     PROVE  \A i, j \in DOMAIN notified_nodes'[v] :
                         notified_nodes'[v][i] = n /\ notified_nodes'[v][j] = n => i = j
            OBVIOUS
        <3>1. CASE v = w  BY <1>4, <2>2, <3>1
        <3>2. CASE v # w  BY <1>4, <2>1, <3>2 DEF OnePlace
        <3> QED  BY <3>1, <3>2
    <2>4. CASE New(n)
        <3>1. /\ ~Queued(n)
              /\ \A v \in Workers : ~Noted(v, n) /\ next_task[v] # n /\ ~Doing(v, n)
            BY <1>5, <2>4 DEF Placed
        <3> HIDE DEF New
        <3> QED  BY <1>6, <2>1, <2>3, <3>1 DEF OnePlace
    <2>5. CASE ~New(n)
        <3> HIDE DEF New
        <3> QED  BY <1>6, <2>1, <2>3, <2>5 DEF OnePlace
    <2> QED  BY <2>4, <2>5
<1>10. NotStarted'
    <2> SUFFICES ASSUME NEW n \in Nodes, status[n] # "Initing"
                 PROVE  /\ ~Queued(n)'
                        /\ \A v \in Workers : ~Noted(v, n)' /\ next_task[v] # n
                        /\ \A v \in Workers : Doing(v, n)' => w_pc'[v] # "start"
        BY DEF NotStarted
    <2>1. ~New(n)  BY <1>5
    <2>2. /\ ~Queued(n)
          /\ \A v \in Workers : ~Noted(v, n) /\ next_task[v] # n
          /\ \A v \in Workers : Doing(v, n) => w_pc[v] # "start"
        BY DEF Placement, NotStarted
    <2>3. \A v \in Workers : w_pc[v] # "start" => w_pc'[v] # "start"
        BY <1>3, <1>t DEF Leaving
    <2> HIDE DEF New
    <2> QED  BY <1>6, <2>1, <2>2, <2>3
<1>11. Started'
    <2> SUFFICES ASSUME NEW v \in Workers
                 PROVE  /\ w_pc'[v] \in {"run", "finish"} => status[task[v]] = "Running"
                        /\ w_pc'[v] \in Leaving => status[task[v]] = "Finish"
        BY DEF Started
    <2>1. CASE v = w
        BY <1>3, <1>t, <2>1 DEF Placement, Started, Leaving
    <2>2. CASE v # w  BY <1>3, <1>t, <2>2 DEF Placement, Started
    <2> QED  BY <2>1, <2>2
<1> QED  BY <1>1, <1>4, <1>7, <1>8, <1>9, <1>10, <1>11 DEF Placement

\* The frame of the three steps that notify.
LEMMA NotifyLife ==
    ASSUME LifeInv, NEW w \in Workers, NEW ds \in Seq(Nodes),
           \A i \in DOMAIN ds : Committed(ds[i]),
           Notify(w, ds), w_pc[w] \in Leaving,
           \E to \in Leaving : w_pc' = [w_pc EXCEPT ![w] = to],
           UNCHANGED <<status, parent_graph, node_id, fast_down_strams, fast_down_strams_bak,
                       down_streams, graphVars, task_queue, sema, clientVars, task, next_task,
                       boundVars>>
    PROVE  LifeInv'
<1> USE DEF LifeInv
<1>1. StaysCommitted /\ Structure'  BY StructureKept DEF graphVars, boundVars
<1>2. /\ wait_count' \in [Nodes -> Int] /\ notified_nodes' \in [Workers -> Seq(Nodes)]
      /\ Placement'
    BY <1>1, NotifyKept
<1>3. PICK to \in Leaving : w_pc' = [w_pc EXCEPT ![w] = to]  OBVIOUS
<1>4. Types'
    <2>1. NodeTypes'  BY <1>2 DEF Types, NodeTypes, boundVars
    <2>2. GraphTypes' /\ ClientTypes'
        BY DEF Types, GraphTypes, ClientTypes, graphVars, clientVars, boundVars
    <2>3. WorkerTypes'  BY <1>2, <1>3 DEF Types, WorkerTypes, WorkerPoints, Leaving
    <2> QED  BY <2>1, <2>2, <2>3 DEF Types
<1> QED  BY <1>1, <1>2, <1>4

\* The nodes of the bits a worker took.
LEMMA BitNodes ==
    ASSUME LifeInv, NEW r \in Nodes, NEW ids \in bit_map_idx(fast_down_strams_bak[r])
    PROVE  LET ds == [i \in DOMAIN ids |-> get_node(r, ids[i])] IN
           /\ ds \in Seq(Nodes)
           /\ \A i \in DOMAIN ds : /\ ids[i] \in fast_down_strams_bak[r] \ {fast_node_max_num}
                                   /\ ds[i] = get_node(r, ids[i]) /\ Committed(ds[i])
           /\ \A i, j \in DOMAIN ds : i < j => ids[i] < ids[j]
<1> USE DEF LifeInv
<1> DEFINE B == {bit \in fast_down_strams_bak[r] : bit < fast_node_max_num}
           ds == [i \in DOMAIN ids |-> get_node(r, ids[i])]
<1>1. fast_down_strams_bak[r] \subseteq Bits /\ Bits = 0 .. fast_node_max_num
      /\ fast_node_max_num \in Nat
    BY BoundAssumption DEF Types, NodeTypes, Bits
<1>2. IsFiniteSet(B)
    <2>1. IsFiniteSet(0 .. fast_node_max_num)  BY <1>1, FS_Interval
    <2>2. B \subseteq 0 .. fast_node_max_num  BY <1>1
    <2> QED  BY <2>1, <2>2, FS_Subset
<1>3. Cardinality(B) \in Nat  BY <1>2, FS_CardinalityType
<1>4. /\ ids \in [1 .. Cardinality(B) -> B]
      /\ \A i, j \in DOMAIN ids : i < j => ids[i] < ids[j]
    BY DEF bit_map_idx, Ascending
<1>5. \A b \in B : b \in fast_down_strams_bak[r] \ {fast_node_max_num} /\ b \in Nat
    BY <1>1
<1>6. \A b \in B : get_node(r, b) \in Nodes /\ Committed(get_node(r, b))
    <2> TAKE b \in B
    <2>1. Owned(r, b)  BY <1>5 DEF Structure, BitsOwned
    <2>2. /\ b + 1 \in DOMAIN g_nodes[parent_graph[r]] /\ Committed(get_node(r, b))
          /\ g_nodes[parent_graph[r]] \in Seq(Nodes)
        BY <2>1 DEF Owned, Types, GraphTypes, AllGraphs
    <2> QED  BY <2>2 DEF get_node
<1> HIDE DEF B
<1>7. \A i \in DOMAIN ids : ids[i] \in B  BY <1>4
<1>8. ds \in [1 .. Cardinality(B) -> Nodes]  BY <1>4, <1>6, <1>7
<1>9. ds \in Seq(Nodes)
    <2> HIDE DEF ds
    <2> QED  BY <1>3, <1>8, FunctionIsSeq
<1> QED  BY <1>4, <1>5, <1>6, <1>7, <1>9

\* Node::finish releases the nodes of the bitmap (node.cpp:136-145).
LEMMA NotifyFastLife ==
    ASSUME LifeInv, NEW w \in Workers, NotifyFast(w)
    PROVE  LifeInv'
<1>1. task[w] \in Nodes /\ w_pc[w] = "fast"
    BY DEF LifeInv, NotifyFast, WGo, Types, WorkerTypes
<1>2. PICK ids \in bit_map_idx(fast_down_strams_bak[task[w]]) :
          Notify(w, [i \in DOMAIN ids |-> get_node(task[w], ids[i])])
    BY DEF NotifyFast
<1> DEFINE ds == [i \in DOMAIN ids |-> get_node(task[w], ids[i])]
<1>3. ds \in Seq(Nodes) /\ \A i \in DOMAIN ds : Committed(ds[i])
    BY <1>1, BitNodes
<1>4. Notify(w, ds)  BY <1>2
<1> HIDE DEF ds
<1> QED  BY <1>1, <1>3, <1>4, NotifyLife DEF NotifyFast, WGo, Leaving

\* Node::finish releases the nodes of down_streams (node.cpp:147-154).
LEMMA NotifyDownLife ==
    ASSUME LifeInv, NEW w \in Workers, NotifyDown(w)
    PROVE  LifeInv'
<1>1. task[w] \in Nodes /\ w_pc[w] = "down"
    BY DEF LifeInv, NotifyDown, WGo, Types, WorkerTypes
<1>2. /\ down_streams[task[w]] \in Seq(Nodes)
      /\ \A i \in DOMAIN down_streams[task[w]] : Committed(down_streams[task[w]][i])
    BY <1>1 DEF LifeInv, Types, NodeTypes, Structure, Listed
<1> QED  BY <1>1, <1>2, NotifyLife DEF NotifyDown, WGo, Leaving

\* A committed node has a graph.
LEMMA HasGraph ==
    ASSUME LifeInv, NEW n \in Nodes, Committed(n)
    PROVE  parent_graph[n] \in AllGraphs
<1>1. n \in 1 .. made /\ \A c \in Clients : new_node[c] = n => c_pc[c] # "register"
    BY DEF Committed, Early
<1>2. parent_graph[n] # nullptr  BY <1>1 DEF LifeInv, Structure, Homed
<1> QED  BY <1>2 DEF LifeInv, Types, NodeTypes

\* Graph::finish releases the waiters (graph.cpp:55-61).
LEMMA NotifyWaitersLife ==
    ASSUME LifeInv, NEW w \in Workers, NotifyWaiters(w)
    PROVE  LifeInv'
<1> DEFINE g == parent_graph[task[w]]
<1>1. task[w] \in Nodes /\ w_pc[w] = "waiters"
    BY DEF LifeInv, NotifyWaiters, WGo, Types, WorkerTypes
<1>2. g \in AllGraphs
    <2>1. Committed(task[w])  BY <1>1, OwnTask DEF LifeInv
    <2> QED  BY <1>1, <2>1, HasGraph
<1>3. Notify(w, g_down_streams[g])  BY DEF NotifyWaiters
<1> HIDE DEF g
<1>4. /\ g_down_streams[g] \in Seq(Nodes)
      /\ \A i \in DOMAIN g_down_streams[g] : Committed(g_down_streams[g][i])
    BY <1>2 DEF LifeInv, Types, GraphTypes, Structure, Listed
<1> QED  BY <1>1, <1>3, <1>4, NotifyLife DEF NotifyWaiters, WGo, Leaving

\* The worker keeps one node and queues the others.
LEMMA PickNextLife ==
    ASSUME LifeInv, NEW w \in Workers, PickNext(w)
    PROVE  LifeInv'
<1> USE DEF LifeInv
<1> DEFINE ns == notified_nodes[w]
           others(n) == {i \in DOMAIN ns : ns[i] = n /\ i # Kept(ns)}
           kept == IF ns = <<>> THEN nullptr ELSE ns[Kept(ns)]
<1>0. /\ w_pc[w] = "pick" /\ w_pc' = [w_pc EXCEPT ![w] = "recover"] /\ task[w] \in Nodes
      /\ next_task' = [next_task EXCEPT ![w] = kept]
      /\ task_queue' = [n \in Nodes |-> task_queue[n] + Cardinality(others(n))]
      /\ notified_nodes' = [notified_nodes EXCEPT ![w] = <<>>]
      /\ UNCHANGED <<nodeVars, graphVars, sema, clientVars, task, boundVars>>
    BY DEF PickNext, WGo, Types, WorkerTypes, graphVars
<1>t. /\ ns \in Seq(Nodes) /\ Len(ns) \in Nat /\ DOMAIN ns = 1 .. Len(ns)
      /\ task_queue \in [Nodes -> Nat] /\ next_task \in [Workers -> Nodes \cup {nullptr}]
      /\ notified_nodes \in [Workers -> Seq(Nodes)] /\ w_pc \in [Workers -> WorkerPoints]
    BY DEF Types, GraphTypes, WorkerTypes
<1>k. /\ ns # <<>> => Kept(ns) \in DOMAIN ns /\ kept = ns[Kept(ns)] /\ kept \in Nodes
      /\ ns = <<>> => kept = nullptr
    <2>1. ns # <<>> => Len(ns) # 0  BY <1>t
    <2> QED  BY <1>t, <2>1 DEF Kept
<1>n. ASSUME NEW n \in Nodes
      PROVE  /\ Cardinality(others(n)) \in {0, 1}
             /\ Cardinality(others(n)) # 0 => Noted(w, n) /\ kept # n
             /\ Noted(w, n) => (Cardinality(others(n)) # 0 \/ kept = n)
             /\ kept = n => Noted(w, n)
    <2>1. \A i, j \in DOMAIN ns : ns[i] = n /\ ns[j] = n => i = j
        BY DEF Placement, Exclusive, OnePlace
    <2>2. Cardinality({}) = 0  BY FS_EmptySet
    <2>3. kept = n => Noted(w, n)
        <3>1. nullptr \notin Nodes  BY DEF nullptr, Nodes
        <3> QED  BY <1>k, <3>1 DEF Noted
    <2>4. CASE \E i \in others(n) : TRUE
        <3>1. PICK i \in others(n) : TRUE  BY <2>4
        <3>2. others(n) = {i}  BY <2>1, <3>1
        <3>3. Cardinality(others(n)) = 1  BY <3>2, FS_Singleton
        <3>4. Noted(w, n)  BY <3>1 DEF Noted
        <3>5. kept # n
            <4>1. ns # <<>>  BY <1>t, <3>1
            <4> QED  BY <1>k, <2>1, <3>1, <4>1
        <3> QED  BY <2>3, <3>3, <3>4, <3>5
    <2>5. CASE others(n) = {}
        <3>1. Noted(w, n) => kept = n
            <4> SUFFICES ASSUME NEW i \in DOMAIN ns, ns[i] = n PROVE kept = n  BY DEF Noted
            <4>1. ns # <<>> /\ i = Kept(ns)  BY <1>t, <2>5
            <4> QED  BY <1>k, <4>1
        <3> QED  BY <2>2, <2>3, <2>5, <3>1
    <2> QED  BY <2>4, <2>5
<1> DEFINE more(n) == Cardinality(others(n))
<1>m. \A n \in Nodes : /\ more(n) \in {0, 1} /\ (more(n) # 0 => Noted(w, n) /\ kept # n)
                       /\ (Noted(w, n) => (more(n) # 0 \/ kept = n))
                       /\ (kept = n => Noted(w, n))
                       /\ task_queue'[n] = task_queue[n] + more(n)
    BY <1>0, <1>n
<1>q. task_queue' \in [Nodes -> Nat]
    <2>1. task_queue' = [n \in Nodes |-> task_queue[n] + more(n)]  BY <1>0
    <2> HIDE DEF more
    <2>2. \A n \in Nodes : task_queue[n] + more(n) \in Nat  BY <1>t, <1>m
    <2> QED  BY <2>1, <2>2
<1> HIDE DEF more, kept, ns
<1>1. Types'
    <2>1. NodeTypes' /\ ClientTypes'
        BY <1>0 DEF Types, NodeTypes, ClientTypes, nodeVars, clientVars, boundVars
    <2>2. GraphTypes'  BY <1>0, <1>q DEF Types, GraphTypes, graphVars, boundVars
    <2>3. WorkerTypes'
        <3>1. next_task' \in [Workers -> Nodes \cup {nullptr}]  BY <1>0, <1>k, <1>t
        <3>2. notified_nodes' \in [Workers -> Seq(Nodes)]  BY <1>0, <1>t
        <3> QED  BY <1>0, <3>1, <3>2 DEF Types, WorkerTypes, WorkerPoints, Leaving
    <2> QED  BY <2>1, <2>2, <2>3 DEF Types
<1>2. StaysCommitted /\ Structure'
    BY <1>0, StructureKept DEF nodeVars, graphVars, boundVars
<1>3. /\ \A v \in Workers, n \in Nodes : Doing(v, n)' <=> Doing(v, n)
      /\ \A n \in Nodes : ~Noted(w, n)'
      /\ \A v \in Workers \ {w}, n \in Nodes : Noted(v, n)' <=> Noted(v, n)
      /\ next_task'[w] = kept /\ \A v \in Workers \ {w} : next_task'[v] = next_task[v]
      /\ \A n \in Nodes : Queued(n)' <=> (Queued(n) \/ more(n) # 0)
    <2>1. \A v \in Workers, n \in Nodes : Doing(v, n)' <=> Doing(v, n)
        BY <1>0, <1>t DEF Doing
    <2>2. /\ \A n \in Nodes : ~Noted(w, n)'
          /\ \A v \in Workers \ {w}, n \in Nodes : Noted(v, n)' <=> Noted(v, n)
        BY <1>0, <1>t DEF Noted
    <2>3. next_task'[w] = kept /\ \A v \in Workers \ {w} : next_task'[v] = next_task[v]
        BY <1>0, <1>t
    <2>4. \A n \in Nodes : Queued(n)' <=> (Queued(n) \/ more(n) # 0)
        BY <1>t, <1>m DEF Queued
    <2> QED  BY <2>1, <2>2, <2>3, <2>4
<1>4. \A n \in Nodes : Placed(n)' => Placed(n)
    BY <1>3, <1>m DEF Placed
<1>5. Untouched'  BY <1>0, <1>2 DEF Placement, Untouched, StaysCommitted, nodeVars
<1>6. Released'  BY <1>0, <1>2, <1>4 DEF Placement, Released, StaysCommitted, nodeVars
<1>7. Exclusive'
    <2> SUFFICES ASSUME NEW n \in Nodes PROVE OnePlace(n)'  BY DEF Exclusive
    <2>1. OnePlace(n)  BY DEF Placement, Exclusive
    <2>2. task_queue'[n] \in {0, 1}
        <3>1. more(n) # 0 => task_queue[n] = 0  BY <1>m, <2>1 DEF OnePlace, Queued
        <3> QED  BY <1>m, <2>1, <3>1 DEF OnePlace
    <2>3. \A v \in Workers : \A i, j \in DOMAIN notified_nodes'[v] :
              notified_nodes'[v][i] = n /\ notified_nodes'[v][j] = n => i = j
        BY <1>0, <1>t, <2>1 DEF OnePlace
    <2>4. more(n) # 0 \/ next_task'[w] = n => Noted(w, n)  BY <1>m, <1>3
    <2>5. Queued(n)' => \A v \in Workers : ~Noted(v, n)' /\ next_task'[v] # n /\ ~Doing(v, n)'
        <3>1. CASE Queued(n)  BY <1>3, <2>1, <2>4, <3>1 DEF OnePlace
        <3>2. CASE more(n) # 0  BY <1>3, <1>m, <2>1, <2>4, <3>2 DEF OnePlace
        <3> QED  BY <1>3, <3>1, <3>2
    <2>6. ASSUME NEW u \in Workers, NEW v \in Workers
          PROVE  /\ Noted(u, n)' => /\ next_task'[v] # n /\ ~Doing(v, n)'
                                    /\ (Noted(v, n)' => u = v)
                 /\ next_task'[u] = n => ~Doing(v, n)' /\ (next_task'[v] = n => u = v)
                 /\ Doing(u, n)' /\ Doing(v, n)' => u = v
        BY <1>3, <2>1, <2>4 DEF OnePlace
    <2> QED  BY <2>2, <2>3, <2>5, <2>6 DEF OnePlace
<1>8. NotStarted'
    <2> SUFFICES ASSUME NEW n \in Nodes, status[n] # "Initing"
                 PROVE  /\ ~Queued(n)'
                        /\ \A v \in Workers : ~Noted(v, n)' /\ next_task'[v] # n
                        /\ \A v \in Workers : Doing(v, n)' => w_pc'[v] # "start"
        BY <1>0 DEF NotStarted, nodeVars
    <2>1. /\ ~Queued(n)
          /\ \A v \in Workers : ~Noted(v, n) /\ next_task[v] # n
          /\ \A v \in Workers : Doing(v, n) => w_pc[v] # "start"
        BY DEF Placement, NotStarted
    <2>2. \A v \in Workers : w_pc[v] # "start" => w_pc'[v] # "start"  BY <1>0, <1>t
    <2> QED  BY <1>3, <1>m, <2>1, <2>2
<1>9. Started'
    BY <1>0, <1>t DEF Placement, Started, Leaving, nodeVars
<1> QED  BY <1>1, <1>2, <1>5, <1>6, <1>7, <1>8, <1>9 DEF Placement

\* The worker lets its task go and takes the node it has kept.
LEMMA RecoverLife ==
    ASSUME LifeInv, NEW w \in Workers, Recover(w)
    PROVE  LifeInv'
<1> USE DEF LifeInv
<1>0. /\ w_pc[w] = "recover" /\ task[w] \in Nodes
      /\ status' = [status EXCEPT ![task[w]] = "Recoverable"]
      /\ task' = [task EXCEPT ![w] = next_task[w]]
      /\ next_task' = [next_task EXCEPT ![w] = nullptr]
      /\ w_pc' = [w_pc EXCEPT ![w] = IF next_task[w] = nullptr THEN "idle" ELSE "start"]
      /\ UNCHANGED <<wait_count, parent_graph, node_id, fast_down_strams,
                     fast_down_strams_bak, down_streams, graphVars, task_queue, sema,
                     clientVars, notified_nodes, boundVars>>
    BY DEF Recover, WGo, Types, WorkerTypes
<1>t. /\ next_task \in [Workers -> Nodes \cup {nullptr}] /\ nullptr \notin Nodes
      /\ w_pc \in [Workers -> WorkerPoints] /\ task \in [Workers -> Nodes \cup {nullptr}]
      /\ status \in [Nodes -> Statuses]
    BY DEF Types, NodeTypes, WorkerTypes, nullptr, Nodes
<1>1. Types'
    <2>1. NodeTypes'  BY <1>0 DEF Types, NodeTypes, Statuses, Ended, boundVars
    <2>2. GraphTypes' /\ ClientTypes'
        BY <1>0 DEF Types, GraphTypes, ClientTypes, graphVars, clientVars, boundVars
    <2>3. WorkerTypes'
        <3>1. next_task' \in [Workers -> Nodes \cup {nullptr}]  BY <1>0, <1>t
        <3>2. task' \in [Workers -> Nodes \cup {nullptr}]  BY <1>0, <1>t
        <3>3. w_pc' \in [Workers -> WorkerPoints]  BY <1>0, <1>t DEF WorkerPoints
        <3>4. \A v \in Workers : w_pc'[v] # "idle" => task'[v] \in Nodes
            BY <1>0, <1>t DEF Types, WorkerTypes
        <3> QED  BY <1>0, <3>1, <3>2, <3>3, <3>4 DEF Types, WorkerTypes
    <2> QED  BY <2>1, <2>2, <2>3 DEF Types
<1>2. StaysCommitted /\ Structure'
    BY <1>0, StructureKept DEF graphVars, boundVars
<1>3. /\ \A n \in Nodes : Doing(w, n)' <=> next_task[w] = n
      /\ \A v \in Workers \ {w}, n \in Nodes : Doing(v, n)' <=> Doing(v, n)
      /\ \A v \in Workers, n \in Nodes : Noted(v, n)' <=> Noted(v, n)
      /\ \A n \in Nodes : next_task'[w] # n
      /\ \A v \in Workers \ {w} : next_task'[v] = next_task[v]
      /\ \A n \in Nodes : Queued(n)' <=> Queued(n)
    BY <1>0, <1>t DEF Doing, Noted, Queued
<1>o. /\ Placed(task[w]) /\ Doing(w, task[w]) /\ ~Queued(task[w])
      /\ \A v \in Workers : ~Noted(v, task[w]) /\ next_task[v] # task[w]
      /\ \A v \in Workers \ {w} : ~Doing(v, task[w])
    BY <1>0, OwnTask DEF Placed
<1>4. \A n \in Nodes : Placed(n)' => Placed(n)
    BY <1>3 DEF Placed
<1>5. Untouched'  BY <1>0, <1>2 DEF Placement, Untouched, StaysCommitted
<1>6. Released'
    BY <1>0, <1>2, <1>4, <1>o, <1>t DEF Placement, Released, StaysCommitted
<1>7. Exclusive'
    <2> SUFFICES ASSUME NEW n \in Nodes PROVE OnePlace(n)'  BY DEF Exclusive
    <2>1. OnePlace(n)  BY DEF Placement, Exclusive
    <2> QED  BY <1>0, <1>3, <2>1 DEF OnePlace
<1>8. NotStarted'
    <2> SUFFICES ASSUME NEW n \in Nodes, status'[n] # "Initing"
                 PROVE  /\ ~Queued(n)'
                        /\ \A v \in Workers : ~Noted(v, n)' /\ next_task'[v] # n
                        /\ \A v \in Workers : Doing(v, n)' => w_pc'[v] # "start"
        BY DEF NotStarted
    <2>1. CASE n = task[w]  BY <1>3, <1>o, <2>1
    <2>2. CASE n # task[w]
        <3>1. /\ ~Queued(n)
              /\ \A v \in Workers : ~Noted(v, n) /\ next_task[v] # n
              /\ \A v \in Workers : Doing(v, n) => w_pc[v] # "start"
            BY <1>0, <1>t, <2>2 DEF Placement, NotStarted
        <3>2. \A v \in Workers \ {w} : w_pc'[v] = w_pc[v]  BY <1>0, <1>t
        <3> QED  BY <1>3, <3>1, <3>2
    <2> QED  BY <2>1, <2>2
<1>9. Started'
    <2> SUFFICES ASSUME NEW v \in Workers
                 PROVE  /\ w_pc'[v] \in {"run", "finish"} => status'[task'[v]] = "Running"
                        /\ w_pc'[v] \in Leaving => status'[task'[v]] = "Finish"
        BY DEF Started
    <2>1. CASE v = w  BY <1>0, <1>t, <2>1 DEF Leaving
    <2>2. CASE v # w /\ w_pc[v] # "idle"
        <3>1. task[v] # task[w] /\ task'[v] = task[v] /\ w_pc'[v] = w_pc[v] /\ task[v] \in Nodes
            BY <1>0, <1>o, <1>t, <2>2 DEF Doing, Types, WorkerTypes
        <3> QED  BY <1>0, <1>t, <3>1 DEF Placement, Started
    <2>3. CASE v # w /\ w_pc[v] = "idle"  BY <1>0, <1>t, <2>3 DEF Leaving
    <2> QED  BY <2>1, <2>2, <2>3
<1> QED  BY <1>1, <1>2, <1>5, <1>6, <1>7, <1>8, <1>9 DEF Placement

-----------------------------------------------------------------------------
(* The invariant *)

\* The invariant holds at the start.
LEMMA InitLife ==
    ASSUME Init
    PROVE  LifeInv
<1> USE DEF Init, Node, Graph
<1>0. nullptr = 0 /\ nullptr \notin Nodes /\ \A n \in Nodes : n > 0  BY DEF nullptr, Nodes
<1>1. Types
    <2>1. NodeTypes
        BY BoundAssumption DEF NodeTypes, Statuses, Bits, NodeBits, fast_down_strams_bak_init
    <2>2. GraphTypes  BY BoundAssumption DEF GraphTypes
    <2>3. ClientTypes  BY DEF ClientTypes, ClientPoints, Linking
    <2>4. WorkerTypes  BY DEF WorkerTypes, WorkerPoints
    <2> QED  BY <2>1, <2>2, <2>3, <2>4 DEF Types
<1>2. \A n \in Nodes : parent_graph[n] = nullptr  OBVIOUS
<1>3. Belongs /\ Distinct /\ Told /\ Tested
    BY DEF Belongs, Distinct, Told, Tested, Linking, Waiting
<1>4. Homed  BY <1>0 DEF Homed, Nodes
<1>5. GraphLists  BY DEF GraphLists, AllGraphs
<1>6. InGraph  BY <1>2, NameAssumption DEF InGraph, AllGraphs
<1>7. BitsOwned  BY DEF BitsOwned, fast_down_strams_bak_init
<1>8. Listed  BY DEF Listed, AllGraphs
<1>9. \A n \in Nodes : ~Placed(n) /\ status[n] = "Initing" /\ wait_count[n] = 0
    BY <1>0 DEF Placed, Queued, Noted, Doing
<1>10. Placement
    <2>1. Untouched /\ Released  BY <1>9 DEF Untouched, Released
    <2>2. Exclusive
        BY <1>9 DEF Exclusive, OnePlace, Placed, Queued
    <2>3. NotStarted  BY <1>9 DEF NotStarted
    <2>4. Started  BY DEF Started, Leaving
    <2> QED  BY <2>1, <2>2, <2>3, <2>4 DEF Placement
<1> QED  BY <1>1, <1>3, <1>4, <1>5, <1>6, <1>7, <1>8, <1>10 DEF LifeInv, Structure

\* A step that changes nothing keeps it.
LEMMA StutterLife ==
    ASSUME LifeInv, UNCHANGED vars
    PROVE  LifeInv'
<1> USE DEF LifeInv, vars, nodeVars, graphVars, clientVars, workerVars, boundVars
<1>1. Types'  BY DEF Types, NodeTypes, GraphTypes, ClientTypes, WorkerTypes
<1>2. StaysCommitted /\ Structure'  BY StructureKept
<1>3. Placement'  BY <1>2, PlacementKept
<1> QED  BY <1>1, <1>2, <1>3

\* Every step keeps it.
LEMMA NextLife ==
    ASSUME LifeInv, [Next]_vars
    PROVE  LifeInv'
<1>1. ASSUME NEW c \in Clients, StartCreate(c) PROVE LifeInv'
    BY <1>1, CountNodeLife DEF StartCreate
<1>2. ASSUME NEW c \in Clients, create_edges(c) PROVE LifeInv'
    BY <1>2, RegisterLife, ReadyAtOnceLife, AddWaitCountLife, SkipEdgeLife, TryEdgeLife,
       BitLoadLife, BitStoreLife, ReadBakLife, PushDownstreamLife
       DEF create_edges
<1>3. ASSUME NEW c \in Clients, NEW g \in Graphs, StartWait(c, g) \/ clear_graph(c, g)
      PROVE  LifeInv'
    BY <1>3, StartWaitLife, clear_graphLife
<1>4. ASSUME NEW c \in Clients, block_thread_for_group(c) PROVE LifeInv'
    BY <1>4, WaitTestLife, WaitLockLife, SemaWaitLife, FreeWaiterLife
       DEF block_thread_for_group
<1>5. ASSUME NEW w \in Workers, do_schedule(w) PROVE LifeInv'
    BY <1>5, DequeueLife, ResumeLife, RunLife, FinishLife, TakeBakLife, NotifyFastLife,
       NotifyDownLife, LeaveGraphLife, NotifyWaitersLife, PickNextLife, RecoverLife
       DEF do_schedule, run_task
<1>6. ASSUME UNCHANGED vars PROVE LifeInv'  BY <1>6, StutterLife
<1> QED  BY <1>1, <1>2, <1>3, <1>4, <1>5, <1>6 DEF Next

\* Where the nodes are, in every reachable state of FlowGraph: what add_new_task,
\* the workers and finish() (schedule.cpp:165-228, node.cpp:120-157,
\* graph.cpp:22-80) do to a node happens to one that nobody else has.
THEOREM LifeInvariant == Spec => []LifeInv
<1>1. Init => LifeInv  BY InitLife
<1>2. LifeInv /\ [Next]_vars => LifeInv'  BY NextLife
<1> QED  BY <1>1, <1>2, PTL DEF Spec

-----------------------------------------------------------------------------
(* The count of a graph *)

\* A node is out of its graph when it has finished and its worker has taken
\* it out of the graph's count.
Inside == {"take_bak", "fast", "down", "leave"}
Out(n) == status[n] \in Ended /\ \A w \in Workers : ~(w_pc[w] \in Inside /\ task[w] = n)

\* It is in it from the beginning of the call that creates it.
Enters(n, g) == \E c \in Clients : c_pc[c] = "register" /\ new_node[c] = n /\ target[c] = g
Members(g) == {n \in 1 .. made : (parent_graph[n] = g \/ Enters(n, g)) /\ ~Out(n)}

Counted == \A g \in AllGraphs : g_wait_count[g] = Cardinality(Members(g))

\* The graph of a wait holds the waiter and nobody else.
OwnWaiter == \A c \in Clients : \A n \in Members(c) : c_pc[c] \in Waiting /\ n = new_node[c]

CountInv == LifeInv /\ Counted /\ OwnWaiter

\* Some of the created nodes.
LEMMA MembersFinite ==
    ASSUME LifeInv, NEW g
    PROVE  /\ IsFiniteSet(Members(g)) /\ Cardinality(Members(g)) \in Nat
           /\ Members(g) \subseteq 1 .. made
<1>1. made \in Nat  BY BoundAssumption DEF LifeInv, Types, GraphTypes
<1>2. IsFiniteSet(1 .. made)  BY <1>1, FS_Interval
<1>3. Members(g) \subseteq 1 .. made  BY DEF Members
<1> QED  BY <1>2, <1>3, FS_Subset, FS_CardinalityType

\* A step after which everybody is where he was.
LEMMA SameMembers ==
    ASSUME CountInv, made' = made, g_wait_count' = g_wait_count,
           \A n \in 1 .. made : Out(n)' <=> Out(n),
           \A n \in 1 .. made : \A g \in AllGraphs :
               (parent_graph[n] = g \/ Enters(n, g))' <=> (parent_graph[n] = g \/ Enters(n, g)),
           \A c \in Clients : c_pc[c] \in Waiting =>
               c_pc'[c] \in Waiting /\ new_node'[c] = new_node[c]
    PROVE  Counted' /\ OwnWaiter'
<1>1. \A g \in AllGraphs : Members(g)' = Members(g)  BY DEF Members
<1>2. Counted'  BY <1>1 DEF CountInv, Counted
<1>3. OwnWaiter'  BY <1>1 DEF CountInv, OwnWaiter, AllGraphs
<1> QED  BY <1>2, <1>3

\* A step of a client that is not about to register a node.
LEMMA ClientCount ==
    ASSUME CountInv, NEW c \in Clients,
           c_pc[c] \notin {"register"}, c_pc'[c] \notin {"register"},
           c_pc[c] \in Waiting => c_pc'[c] \in Waiting,
           \A d \in Clients : d # c => c_pc'[d] = c_pc[d],
           UNCHANGED <<new_node, target, parent_graph, made, status, g_wait_count, w_pc, task>>
    PROVE  Counted' /\ OwnWaiter'
<1>1. \A n, g : Enters(n, g)' <=> Enters(n, g)  BY DEF Enters
<1>2. \A n : Out(n)' <=> Out(n)  BY DEF Out
<1>3. \A d \in Clients : c_pc[d] \in Waiting =>
          c_pc'[d] \in Waiting /\ new_node'[d] = new_node[d]
    OBVIOUS
<1> QED  BY <1>1, <1>2, <1>3, SameMembers

\* A step of a worker that takes nobody out.
LEMMA WorkerCount ==
    ASSUME CountInv, UNCHANGED <<clientVars, parent_graph, made, g_wait_count>>,
           \A n \in 1 .. made : Out(n)' <=> Out(n)
    PROVE  Counted' /\ OwnWaiter'
<1>1. \A n, g : Enters(n, g)' <=> Enters(n, g)  BY DEF Enters, clientVars
<1>2. c_pc' = c_pc /\ new_node' = new_node  BY DEF clientVars
<1> QED  BY <1>1, <1>2, SameMembers

LEMMA RequestSteps ==
    ASSUME CountInv, NEW c \in Clients,
           \/ ReadyAtOnce(c) \/ AddWaitCount(c) \/ SkipEdge(c) \/ TryEdge(c) \/ BitLoad(c)
           \/ BitStore(c) \/ ReadBak(c) \/ PushDownstream(c)
           \/ WaitTest(c) \/ WaitLock(c) \/ SemaWait(c)
    PROVE  Counted' /\ OwnWaiter'
<1> USE DEF nodeVars, graphVars, workerVars, boundVars, CGo
<1>1. UNCHANGED <<new_node, target, parent_graph, made, status, g_wait_count, w_pc, task>>
    BY DEF ReadyAtOnce, AddWaitCount, SkipEdge, TryEdge, BitLoad, BitStore, ReadBak,
       PushDownstream, WaitTest, WaitLock, SemaWait
<1>2. PICK to : /\ c_pc' = [c_pc EXCEPT ![c] = to] /\ c_pc[c] # "register" /\ to # "register"
                /\ c_pc[c] \in Waiting => to \in Waiting
    BY DEF ReadyAtOnce, AddWaitCount, SkipEdge, TryEdge, BitLoad, BitStore, ReadBak,
       PushDownstream, WaitTest, WaitLock, SemaWait, NextEdge, Waiting
<1>3. c_pc'[c] = to /\ \A d \in Clients : d # c => c_pc'[d] = c_pc[d]
    BY <1>2 DEF CountInv, LifeInv, Types, ClientTypes
<1> QED  BY <1>1, <1>2, <1>3, ClientCount

\* The node goes from its client's hands into the graph.
LEMMA RegisterCount ==
    ASSUME CountInv, NEW c \in Clients, Register(c)
    PROVE  Counted' /\ OwnWaiter'
<1>0. PICK n, g : n = new_node[c] /\ g = target[c]  OBVIOUS
<1>1. /\ c_pc[c] = "register" /\ \E to \in {"ready", "count"} : c_pc' = [c_pc EXCEPT ![c] = to]
      /\ parent_graph' = [parent_graph EXCEPT ![n] = g]
      /\ UNCHANGED <<new_node, target, made, status, g_wait_count, w_pc, task>>
    BY <1>0 DEF Register, CGo, workerVars, boundVars
<1>2. /\ n \in 1 .. made /\ n \in Nodes /\ parent_graph[n] = nullptr
      /\ nullptr \notin AllGraphs
      /\ \A d \in Clients : c_pc[d] = "register" /\ new_node[d] = n => d = c
    BY <1>0, <1>1, NameAssumption, BoundAssumption
       DEF CountInv, LifeInv, Structure, Belongs, Distinct, Types, ClientTypes, GraphTypes,
       Nodes
<1>3. /\ parent_graph'[n] = g /\ \A m \in Nodes : m # n => parent_graph'[m] = parent_graph[m]
      /\ c_pc'[c] \in {"ready", "count"} /\ \A d \in Clients : d # c => c_pc'[d] = c_pc[d]
    BY <1>1, <1>2 DEF CountInv, LifeInv, Types, ClientTypes, NodeTypes
<1>4. 1 .. made \subseteq Nodes  BY BoundAssumption DEF CountInv, LifeInv, Types,
    GraphTypes, Nodes
<1>5. ASSUME NEW m \in 1 .. made, NEW h \in AllGraphs
      PROVE  (parent_graph[m] = h \/ Enters(m, h))' <=> (parent_graph[m] = h \/ Enters(m, h))
    <2>1. CASE m = n
        <3>1. ~Enters(n, h)' /\ (Enters(n, h) <=> h = g)
            BY <1>0, <1>1, <1>2, <1>3 DEF Enters
        <3> QED  BY <1>2, <1>3, <2>1, <3>1
    <2>2. CASE m # n
        <3>1. Enters(m, h)' <=> Enters(m, h)  BY <1>0, <1>1, <1>3, <2>2 DEF Enters
        <3> QED  BY <1>3, <1>4, <2>2, <3>1
    <2> QED  BY <2>1, <2>2
<1>6. \A m : Out(m)' <=> Out(m)  BY <1>1 DEF Out
<1>7. \A d \in Clients : c_pc[d] \in Waiting =>
          c_pc'[d] \in Waiting /\ new_node'[d] = new_node[d]
    BY <1>1, <1>3 DEF Waiting
<1> QED  BY <1>1, <1>5, <1>6, <1>7, SameMembers

\* The waiter has finished when its client frees it: the count is zero.
LEMMA FreeWaiterCount ==
    ASSUME CountInv, NEW c \in Clients, FreeWaiter(c)
    PROVE  Counted' /\ OwnWaiter'
<1> DEFINE n == new_node[c]
<1>1. /\ c_pc[c] = "free" /\ c_pc' = [c_pc EXCEPT ![c] = "idle"]
      /\ status[n] = "Recoverable" /\ status' = [status EXCEPT ![n] = "Destroy"]
      /\ UNCHANGED <<new_node, target, parent_graph, made, g_wait_count, w_pc, task>>
    BY DEF FreeWaiter, CGo, nodeVars, graphVars, workerVars, boundVars
<1>2. \A m \in Nodes : status'[m] \in Ended <=> status[m] \in Ended
    BY <1>1 DEF CountInv, LifeInv, Types, NodeTypes, Ended
<1>3. 1 .. made \subseteq Nodes  BY BoundAssumption DEF CountInv, LifeInv, Types,
    GraphTypes, Nodes
<1>4. \A m \in 1 .. made : Out(m)' <=> Out(m)  BY <1>1, <1>2, <1>3 DEF Out
<1>5. c_pc'[c] = "idle" /\ \A d \in Clients : d # c => c_pc'[d] = c_pc[d]
    BY <1>1 DEF CountInv, LifeInv, Types, ClientTypes
<1>6. \A m, g : Enters(m, g)' <=> Enters(m, g)  BY <1>1, <1>5 DEF Enters
<1>7. \A g : Members(g)' = Members(g)  BY <1>1, <1>4, <1>6 DEF Members
<1>8. Out(n)
    <2>1. \A w \in Workers : w_pc[w] \in Inside /\ task[w] = n => status[n] = "Finish"
        BY DEF CountInv, LifeInv, Placement, Started, Leaving, Inside
    <2> QED  BY <1>1, <2>1 DEF Out, Ended
<1>9. Members(c) = {}
    <2>1. \A m \in Members(c) : m = n  BY DEF CountInv, OwnWaiter
    <2>2. n \notin Members(c)  BY <1>8 DEF Members
    <2> QED  BY <2>1, <2>2
<1>10. Counted'  BY <1>1, <1>7 DEF CountInv, Counted
<1>11. OwnWaiter'
    <2> SUFFICES ASSUME NEW d \in Clients, NEW m \in Members(d)
                 PROVE  c_pc'[d] \in Waiting /\ m = new_node[d]
        BY <1>1, <1>7 DEF OwnWaiter
    <2>1. d # c  BY <1>9
    <2> QED  BY <1>5, <2>1 DEF CountInv, OwnWaiter
<1> QED  BY <1>10, <1>11

LEMMA clear_graphCount ==
    ASSUME CountInv, NEW c \in Clients, NEW g \in Graphs, clear_graph(c, g)
    PROVE  Counted' /\ OwnWaiter'
<1>1. /\ \A n \in ToSet(g_nodes[g]) : status[n] = "Recoverable"
      /\ status' = [n \in Nodes |-> IF n \in ToSet(g_nodes[g]) THEN "Destroy" ELSE status[n]]
      /\ UNCHANGED <<clientVars, parent_graph, made, g_wait_count, w_pc, task>>
    BY DEF clear_graph, ClearOnce, workerVars, boundVars
<1>2. ASSUME NEW n \in Nodes PROVE status'[n] \in Ended <=> status[n] \in Ended
    <2>1. CASE n \in ToSet(g_nodes[g])  BY <1>1, <2>1 DEF Ended
    <2>2. CASE n \notin ToSet(g_nodes[g])  BY <1>1, <2>2
    <2> QED  BY <2>1, <2>2
<1>3. 1 .. made \subseteq Nodes  BY BoundAssumption DEF CountInv, LifeInv, Types,
    GraphTypes, Nodes
<1>4. \A n \in 1 .. made : Out(n)' <=> Out(n)  BY <1>1, <1>2, <1>3 DEF Out
<1> QED  BY <1>1, <1>4, WorkerCount

\* The node that comes next is nowhere.
LEMMA NextIsNew ==
    ASSUME CountInv, made < MaxNodes
    PROVE  /\ made \in Nat /\ made + 1 \in Nodes /\ parent_graph[made + 1] = nullptr
           /\ status[made + 1] = "Initing" /\ nullptr \notin AllGraphs
<1>1. made \in Nat /\ made + 1 \in Nodes /\ made + 1 \notin 1 .. made
    BY BoundAssumption DEF CountInv, LifeInv, Types, GraphTypes, Nodes
<1>2. parent_graph[made + 1] = nullptr
    BY <1>1 DEF CountInv, LifeInv, Structure, Homed
<1>3. status[made + 1] = "Initing"
    <2>1. ~Committed(made + 1)  BY <1>1 DEF Committed
    <2> QED  BY <1>1, <2>1 DEF CountInv, LifeInv, Placement, Released
<1> QED  BY <1>1, <1>2, <1>3, NameAssumption

\* One more.
LEMMA CountNodeCount ==
    ASSUME CountInv, NEW c \in Clients, NEW g \in Graphs, NEW reqs, made < MaxNodes,
           CountNode(c, g, reqs)
    PROVE  Counted' /\ OwnWaiter'
<1> DEFINE n == made + 1
<1>1. /\ c_pc[c] = "idle" /\ c_pc' = [c_pc EXCEPT ![c] = "register"] /\ made' = n
      /\ new_node' = [new_node EXCEPT ![c] = n] /\ target' = [target EXCEPT ![c] = g]
      /\ g_wait_count' = [g_wait_count EXCEPT ![g] = @ + 1]
      /\ UNCHANGED <<parent_graph, status, w_pc, task>>
    BY DEF CountNode, CGo, nodeVars, workerVars
<1>2. /\ made \in Nat /\ n \in Nodes /\ parent_graph[n] = nullptr
      /\ status[n] = "Initing" /\ nullptr \notin AllGraphs
    BY NextIsNew
<1> HIDE DEF n
<1>3. 1 .. made' = (1 .. made) \cup {n} /\ n \notin 1 .. made  BY <1>1, <1>2 DEF n
<1>4. /\ c_pc'[c] = "register" /\ new_node'[c] = n /\ target'[c] = g
      /\ \A d \in Clients : d # c => /\ c_pc'[d] = c_pc[d] /\ new_node'[d] = new_node[d]
                                     /\ target'[d] = target[d]
    BY <1>1 DEF CountInv, LifeInv, Types, ClientTypes
<1>5. \A m, h : Enters(m, h)' <=> Enters(m, h) \/ (m = n /\ h = g)
    BY <1>1, <1>4 DEF Enters
<1>6. \A m : Out(m)' <=> Out(m)  BY <1>1 DEF Out
<1>7. ~Out(n)  BY <1>2 DEF Out, Ended
<1>8. \A h : ~Enters(n, h)
    <2>1. \A d \in Clients : c_pc[d] = "register" => new_node[d] # n
        BY <1>3 DEF CountInv, LifeInv, Types, ClientTypes
    <2> QED  BY <2>1 DEF Enters
<1>9. /\ Members(g)' = Members(g) \cup {n} /\ n \notin Members(g)
      /\ \A h \in AllGraphs : h # g => Members(h)' = Members(h)
    BY <1>1, <1>2, <1>3, <1>5, <1>6, <1>7, <1>8 DEF Members
<1>10. Counted'
    <2>1. Cardinality(Members(g) \cup {n}) = Cardinality(Members(g)) + 1
        BY <1>9, MembersFinite, FS_AddElement DEF CountInv
    <2>2. g \in AllGraphs /\ g_wait_count[g] = Cardinality(Members(g))
        BY DEF AllGraphs, CountInv, Counted
    <2>3. /\ g_wait_count'[g] = g_wait_count[g] + 1
          /\ \A h \in AllGraphs : h # g => g_wait_count'[h] = g_wait_count[h]
        BY <1>1, <2>2 DEF CountInv, LifeInv, Types, GraphTypes
    <2> QED  BY <1>9, <2>1, <2>2, <2>3 DEF CountInv, Counted
<1>11. OwnWaiter'
    <2> SUFFICES ASSUME NEW d \in Clients, NEW m \in Members(d)'
                 PROVE  c_pc'[d] \in Waiting /\ m = new_node'[d]
        BY DEF OwnWaiter
    <2>1. d \in AllGraphs /\ d # g  BY NameAssumption DEF AllGraphs
    <2>2. m \in Members(d)  BY <1>9, <2>1
    <2>3. c_pc[d] \in Waiting /\ m = new_node[d]  BY <2>2 DEF CountInv, OwnWaiter
    <2>4. d # c  BY <1>1, <2>3 DEF Waiting
    <2> QED  BY <1>4, <2>3, <2>4
<1> QED  BY <1>10, <1>11

\* The client's last waiter is out: its graph starts with the new one.
LEMMA StartWaitCount ==
    ASSUME CountInv, NEW c \in Clients, NEW g \in Graphs, StartWait(c, g)
    PROVE  Counted' /\ OwnWaiter'
<1>0. PICK n : n = made + 1  OBVIOUS
<1>1. /\ c_pc[c] = "idle" /\ c_pc' = [c_pc EXCEPT ![c] = "wait_test"] /\ made' = n
      /\ made < MaxNodes
      /\ new_node' = [new_node EXCEPT ![c] = n] /\ target' = [target EXCEPT ![c] = g]
      /\ parent_graph' = [parent_graph EXCEPT ![n] = c]
      /\ g_wait_count' = [g_wait_count EXCEPT ![c] = 1]
      /\ UNCHANGED <<status, w_pc, task>>
    BY <1>0 DEF StartWait, RegisterWaiter, CGo, workerVars
<1>2. /\ made \in Nat /\ n \in Nodes /\ parent_graph[n] = nullptr
      /\ status[n] = "Initing" /\ nullptr \notin AllGraphs /\ c \in AllGraphs
    BY <1>0, <1>1, NextIsNew DEF AllGraphs
<1>3. 1 .. made' = (1 .. made) \cup {n} /\ n \notin 1 .. made  BY <1>0, <1>1, <1>2
<1>4. /\ c_pc'[c] = "wait_test" /\ new_node'[c] = n
      /\ \A d \in Clients : d # c => /\ c_pc'[d] = c_pc[d] /\ new_node'[d] = new_node[d]
                                     /\ target'[d] = target[d]
      /\ parent_graph'[n] = c /\ \A m \in Nodes : m # n => parent_graph'[m] = parent_graph[m]
    BY <1>1, <1>2 DEF CountInv, LifeInv, Types, ClientTypes, NodeTypes
<1>5. \A m, h : Enters(m, h)' <=> Enters(m, h)  BY <1>1, <1>4 DEF Enters
<1>6. \A m : Out(m)' <=> Out(m)  BY <1>1 DEF Out
<1>7. ~Out(n)  BY <1>2 DEF Out, Ended
<1>8. \A h : ~Enters(n, h)
    <2>1. \A d \in Clients : c_pc[d] = "register" => new_node[d] # n
        BY <1>3 DEF CountInv, LifeInv, Types, ClientTypes
    <2> QED  BY <2>1 DEF Enters
<1>9. 1 .. made \subseteq Nodes
    BY BoundAssumption DEF CountInv, LifeInv, Types, GraphTypes, Nodes
<1>10. Members(c) = {}  BY <1>1 DEF CountInv, OwnWaiter, Waiting
<1>11. /\ Members(c)' = Members(c) \cup {n}
       /\ \A h \in AllGraphs : h # c => Members(h)' = Members(h)
    BY <1>1, <1>2, <1>3, <1>4, <1>5, <1>6, <1>7, <1>8, <1>9 DEF Members
<1>12. Counted'
    <2>1. Cardinality({n}) = 1  BY FS_Singleton
    <2>2. Members(c)' = {n}  BY <1>10, <1>11
    <2>3. g_wait_count'[c] = 1 /\ \A h \in AllGraphs : h # c => g_wait_count'[h] = g_wait_count[h]
        BY <1>1, <1>2 DEF CountInv, LifeInv, Types, GraphTypes
    <2> QED  BY <1>11, <2>1, <2>2, <2>3 DEF CountInv, Counted
<1>13. OwnWaiter'
    <2> SUFFICES ASSUME NEW d \in Clients, NEW m \in Members(d)'
                 PROVE  c_pc'[d] \in Waiting /\ m = new_node'[d]
        BY DEF OwnWaiter
    <2>1. CASE d = c  BY <1>4, <1>10, <1>11, <2>1 DEF Waiting
    <2>2. CASE d # c
        <3>1. m \in Members(d)  BY <1>11, <2>2 DEF AllGraphs
        <3> QED  BY <1>4, <2>2, <3>1 DEF CountInv, OwnWaiter
    <2> QED  BY <2>1, <2>2
<1> QED  BY <1>12, <1>13

\* The nodes between finish() and the count stay the same.
LEMMA RunSteps ==
    ASSUME CountInv, NEW w \in Workers,
           \/ \E n \in Nodes : Dequeue(w, n)
           \/ Resume(w) \/ Run(w) \/ Finish(w) \/ TakeBak(w) \/ NotifyFast(w)
           \/ NotifyDown(w) \/ NotifyWaiters(w) \/ PickNext(w) \/ Recover(w)
    PROVE  Counted' /\ OwnWaiter'
<1> USE DEF nodeVars, graphVars, boundVars, WGo
<1>1. UNCHANGED <<clientVars, parent_graph, made, g_wait_count>>
    BY DEF Dequeue, Resume, Run, Finish, TakeBak, NotifyFast, NotifyDown, NotifyWaiters,
       PickNext, Recover
<1>2. 1 .. made \subseteq Nodes
    BY BoundAssumption DEF CountInv, LifeInv, Types, GraphTypes, Nodes
<1>3. w_pc \in [Workers -> WorkerPoints] /\ task \in [Workers -> Nodes \cup {nullptr}]
      /\ status \in [Nodes -> Statuses]
      /\ (w_pc[w] # "idle" => task[w] \in Nodes)
    BY DEF CountInv, LifeInv, Types, WorkerTypes, NodeTypes
<1>4. ASSUME TakeBak(w) \/ NotifyFast(w) \/ NotifyDown(w)
      PROVE  \A n \in 1 .. made : Out(n)' <=> Out(n)
    <2>1. UNCHANGED <<status, task>> /\ w_pc[w] \in Inside
          /\ \E to \in Inside : w_pc' = [w_pc EXCEPT ![w] = to]
        BY <1>4 DEF TakeBak, NotifyFast, NotifyDown, Inside
    <2>2. \A v \in Workers : w_pc'[v] \in Inside <=> w_pc[v] \in Inside  BY <1>3, <2>1
    <2> QED  BY <2>1, <2>2 DEF Out
<1>5. ASSUME Run(w) \/ NotifyWaiters(w) \/ PickNext(w)
      PROVE  \A n \in 1 .. made : Out(n)' <=> Out(n)
    <2>1. UNCHANGED <<status, task>> /\ w_pc[w] \notin Inside
          /\ \E to : to \notin Inside /\ w_pc' = [w_pc EXCEPT ![w] = to]
        BY <1>5 DEF Run, NotifyWaiters, PickNext, Inside
    <2>2. \A v \in Workers : w_pc'[v] \in Inside <=> w_pc[v] \in Inside  BY <1>3, <2>1
    <2> QED  BY <2>1, <2>2 DEF Out
<1>6. ASSUME \/ \E n \in Nodes : Dequeue(w, n)
             \/ Resume(w) \/ Recover(w)
      PROVE  \A n \in 1 .. made : Out(n)' <=> Out(n)
    <2>1. /\ w_pc[w] \notin Inside
          /\ \E to : to \notin Inside /\ w_pc' = [w_pc EXCEPT ![w] = to]
        BY <1>6 DEF Dequeue, Resume, Recover, Inside
    <2>2. \A v \in Workers : v # w => task'[v] = task[v]
        BY <1>3, <1>6 DEF Dequeue, Resume, Recover
    <2>3. \A n : \A v \in Workers :
              (w_pc'[v] \in Inside /\ task'[v] = n) <=> (w_pc[v] \in Inside /\ task[v] = n)
        BY <1>3, <2>1, <2>2
    <2>4. ASSUME NEW n \in Nodes PROVE status'[n] \in Ended <=> status[n] \in Ended
        <3>1. CASE \E m \in Nodes : Dequeue(w, m)  BY <3>1 DEF Dequeue
        <3>2. CASE Resume(w)
            <4>1. status[task[w]] = "Initing"
                BY <1>3, <3>2 DEF Resume, CountInv, LifeInv, Placement, NotStarted, Doing
            <4> QED  BY <1>3, <3>2, <4>1 DEF Resume, Ended
        <3>3. CASE Recover(w)
            <4>1. status[task[w]] = "Finish"
                BY <3>3 DEF Recover, CountInv, LifeInv, Placement, Started, Leaving
            <4> QED  BY <1>3, <3>3, <4>1 DEF Recover, Ended
        <3> QED  BY <1>6, <3>1, <3>2, <3>3
    <2> QED  BY <1>2, <2>3, <2>4 DEF Out
<1>7. ASSUME Finish(w)
      PROVE  \A n \in 1 .. made : Out(n)' <=> Out(n)
    <2>1. /\ w_pc[w] = "finish" /\ w_pc' = [w_pc EXCEPT ![w] = "take_bak"]
          /\ status' = [status EXCEPT ![task[w]] = "Finish"] /\ task' = task
        BY <1>7 DEF Finish
    <2>2. status[task[w]] = "Running"
        BY <2>1 DEF CountInv, LifeInv, Placement, Started
    <2>3. ~Out(task[w]) /\ ~\A v \in Workers : ~(w_pc'[v] \in Inside /\ task[v] = task[w])
        BY <1>3, <2>1, <2>2 DEF Out, Ended, Inside
    <2>4. ASSUME NEW n \in Nodes, n # task[w] PROVE Out(n)' <=> Out(n)
        <3>1. status'[n] = status[n]  BY <1>3, <2>1, <2>4
        <3>2. \A v \in Workers : v # w => w_pc'[v] = w_pc[v]  BY <1>3, <2>1
        <3> QED  BY <2>1, <2>4, <3>1, <3>2 DEF Out
    <2>5. ASSUME NEW n, n = task[w] PROVE Out(n)' <=> Out(n)
        BY <2>1, <2>3, <2>5 DEF Out
    <2> QED  BY <1>2, <2>4, <2>5
<1> QED  BY <1>1, <1>4, <1>5, <1>6, <1>7, WorkerCount

\* One less.
LEMMA LeaveGraphCount ==
    ASSUME CountInv, NEW w \in Workers, LeaveGraph(w)
    PROVE  Counted' /\ OwnWaiter'
<1>0. PICK n, g : n = task[w] /\ g = parent_graph[n]  OBVIOUS
<1>1. /\ w_pc[w] = "leave"
      /\ \E to \in {"waiters", "pick"} : w_pc' = [w_pc EXCEPT ![w] = to]
      /\ g_wait_count' = [g_wait_count EXCEPT ![g] = @ - 1]
      /\ UNCHANGED <<nodeVars, clientVars, task, made>>
    BY <1>0 DEF LeaveGraph, WGo, boundVars
<1>2. /\ n \in Nodes /\ Committed(n) /\ \A v \in Workers \ {w} : ~Doing(v, n)
    BY <1>0, <1>1, OwnTask DEF CountInv, LifeInv
<1>3. n \in 1 .. made /\ g \in AllGraphs
    BY <1>0, <1>2, HasGraph DEF Committed, CountInv
<1>4. status[n] = "Finish"
    BY <1>0, <1>1 DEF CountInv, LifeInv, Placement, Started, Leaving
<1>5. w_pc'[w] \notin Inside /\ \A v \in Workers : v # w => w_pc'[v] = w_pc[v]
    BY <1>1 DEF CountInv, LifeInv, Types, WorkerTypes, Inside
<1>6. status' = status /\ parent_graph' = parent_graph /\ task' = task  BY <1>1 DEF nodeVars
<1>7. ~Out(n)  BY <1>0, <1>1 DEF Out, Inside
<1>8. Out(n)'
    <2>1. \A v \in Workers : v # w => ~(w_pc[v] \in Inside /\ task[v] = n)
        BY <1>2 DEF Doing, Inside
    <2> QED  BY <1>4, <1>5, <1>6, <2>1 DEF Out, Ended
<1>9. \A m : m # n => (Out(m)' <=> Out(m))  BY <1>0, <1>5, <1>6 DEF Out
<1>10. \A m, h : Enters(m, h)' <=> Enters(m, h)  BY <1>1 DEF Enters, clientVars
<1>11. \A h : ~Enters(n, h)  BY <1>2 DEF Enters, Committed, Early
<1>12. n \in Members(g) /\ \A h \in AllGraphs : h # g => n \notin Members(h)
    BY <1>0, <1>3, <1>7, <1>11 DEF Members
<1>13. \A h : Members(h)' = Members(h) \ {n}
    BY <1>1, <1>6, <1>8, <1>9, <1>10 DEF Members
<1>14. Counted'
    <2>1. Cardinality(Members(g) \ {n}) = Cardinality(Members(g)) - 1
        BY <1>12, MembersFinite, FS_RemoveElement DEF CountInv
    <2>2. \A h \in AllGraphs : h # g => Members(h) \ {n} = Members(h)  BY <1>12
    <2>3. /\ g_wait_count'[g] = g_wait_count[g] - 1
          /\ \A h \in AllGraphs : h # g => g_wait_count'[h] = g_wait_count[h]
        BY <1>1, <1>3 DEF CountInv, LifeInv, Types, GraphTypes
    <2>4. \A h \in AllGraphs : g_wait_count[h] = Cardinality(Members(h))
        BY DEF CountInv, Counted
    <2>5. ASSUME NEW h \in AllGraphs PROVE g_wait_count'[h] = Cardinality(Members(h)')
        <3>1. CASE h = g  BY <1>13, <2>1, <2>3, <2>4, <2>5, <3>1
        <3>2. CASE h # g  BY <1>13, <2>2, <2>3, <2>4, <2>5, <3>2
        <3> QED  BY <3>1, <3>2
    <2> QED  BY <2>5 DEF Counted
<1>15. OwnWaiter'
    BY <1>1, <1>13 DEF CountInv, OwnWaiter, clientVars
<1> QED  BY <1>14, <1>15

LEMMA InitCount == Init => CountInv
<1> SUFFICES ASSUME Init PROVE CountInv  OBVIOUS
<1>1. 1 .. made = {}  BY DEF Init
<1>2. \A g : Members(g) = {}  BY <1>1 DEF Members
<1>3. Counted  BY <1>2, FS_EmptySet DEF Counted, Init, Graph
<1>4. OwnWaiter  BY <1>2 DEF OwnWaiter
<1> QED  BY <1>3, <1>4, InitLife DEF CountInv

LEMMA NextCount == CountInv /\ [Next]_vars => CountInv'
<1> SUFFICES ASSUME CountInv, [Next]_vars PROVE Counted' /\ OwnWaiter'
    BY NextLife DEF CountInv
<1>1. ASSUME NEW c \in Clients, StartCreate(c) PROVE Counted' /\ OwnWaiter'
    BY <1>1, CountNodeCount DEF StartCreate
<1>2. ASSUME NEW c \in Clients, create_edges(c) PROVE Counted' /\ OwnWaiter'
    BY <1>2, RegisterCount, RequestSteps DEF create_edges
<1>3. ASSUME NEW c \in Clients, NEW g \in Graphs, StartWait(c, g) \/ clear_graph(c, g)
      PROVE  Counted' /\ OwnWaiter'
    BY <1>3, StartWaitCount, clear_graphCount
<1>4. ASSUME NEW c \in Clients, block_thread_for_group(c) PROVE Counted' /\ OwnWaiter'
    BY <1>4, RequestSteps, FreeWaiterCount DEF block_thread_for_group
<1>5. ASSUME NEW w \in Workers, do_schedule(w) PROVE Counted' /\ OwnWaiter'
    BY <1>5, RunSteps, LeaveGraphCount DEF do_schedule, run_task
<1>6. CASE UNCHANGED vars
    BY <1>6, WorkerCount DEF vars, nodeVars, graphVars, boundVars, workerVars, Out
<1> QED  BY <1>1, <1>2, <1>3, <1>4, <1>5, <1>6 DEF Next

\* The count of a graph is the number of its nodes that have been created and
\* not left it, so a wait that sees zero (graph.cpp:277-283) sees a graph whose
\* nodes have all finished (graph.cpp:46-61).
THEOREM CountIsExact == Spec => [](Counted /\ OwnWaiter)
<1>1. CountInv => Counted /\ OwnWaiter  BY DEF CountInv
<1> QED  BY <1>1, InitCount, NextCount, PTL DEF Spec

\* The variables keep their types; the count of a graph never goes below zero
\* (graph.cpp:54).
THEOREM TypeCorrect == Spec => []TypeOK
<1>1. CountInv => TypeOK
    <2> SUFFICES ASSUME CountInv PROVE TypeOK  OBVIOUS
    <2>1. g_wait_count \in [AllGraphs -> Nat]
        <3>1. \A g \in AllGraphs : g_wait_count[g] \in Nat
            BY MembersFinite DEF CountInv, Counted
        <3> QED  BY <3>1 DEF CountInv, LifeInv, Types, GraphTypes
    <2>2. \A n \in Nodes : ToSet(down_streams[n]) \subseteq Nodes
        BY DEF CountInv, LifeInv, Types, NodeTypes, ToSet
    <2>3. \A g \in AllGraphs : ToSet(g_nodes[g]) \cup ToSet(g_down_streams[g]) \subseteq Nodes
        BY DEF CountInv, LifeInv, Types, GraphTypes, ToSet
    <2> QED
        BY <2>1, <2>2, <2>3
           DEF TypeOK, CountInv, LifeInv, Types, NodeTypes, GraphTypes, WorkerTypes, NodeBits
<1> QED  BY <1>1, InitCount, NextCount, PTL DEF Spec
=============================================================================
