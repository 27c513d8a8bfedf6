-------------------------- MODULE LimitGraphProofs --------------------------
(***************************************************************************)
(* The limit of a graph, for any number of graphs, threads and nodes.      *)
(*                                                                         *)
(* A node is released once, when the last node it waits for has finished,  *)
(* and is in one place at a time from then on (PlaceInv).  The nodes of a  *)
(* graph that are let in or held back are m_count + parallel (CountInv);   *)
(* a node of another limit graph that runs on without having been counted  *)
(* makes them more, never less.                                            *)
(***************************************************************************)
EXTENDS LimitGraph, FiniteSetTheorems, TLAPS

\* A thread in a call of ready(), with or without the node it is called for.
Asking == {"ready", "hold", "look", "claim", "thrown"}
Calling == {"ready", "hold", "look", "claim", "put", "thrown"}
Points == {"idle"} \cup Calling \cup WorkerPC

Types ==
    /\ parent_graph \in [Nodes -> Graphs \cup {nullptr}]
    /\ status \in [Nodes -> {"Initing", "Running", "Finish", "Recoverable"}]
    /\ wait_count \in [Nodes -> Int]
    /\ down_streams \in [Nodes -> Seq(Nodes)]
    /\ g_wait_count \in [Graphs -> Int]
    /\ m_count \in [Limited -> Int]
    /\ limit_queue \in [Limited -> Seq(Nodes)]
    /\ task_queue \in [Nodes -> Nat]
    /\ pc \in [Threads -> Points]
    /\ todo \in [Threads -> Seq(Nodes)]
    /\ then \in [Workers -> {"return", "offer", "pass"}]
    /\ task \in [Workers -> Nodes \cup {nullptr}]
    /\ temp_node \in [Workers -> Nodes \cup {nullptr}]
    /\ next_task \in [Workers -> Nodes \cup {nullptr}]

-----------------------------------------------------------------------------
(* The threads *)

\* Where a worker is, or goes when it is done with its calls of ready().
Stage(w) == IF pc[w] \in Calling THEN then[w] ELSE pc[w]

Stuck(t) == pc[t] \in {"hold", "look", "claim", "thrown"}

CallOK(t) ==
    /\ pc[t] \in Asking => todo[t] # <<>>
    /\ pc[t] \notin Calling => todo[t] = <<>>
    /\ Stuck(t) => limit_graph(Head(todo[t]))
    /\ t \in Clients => pc[t] \in {"idle"} \cup Calling

\* What finish() keeps while it is at a stage, and the status of its node.
LocalOK(w) ==
    /\ task[w] = nullptr <=> Stage(w) = "idle"
    /\ next_task[w] # nullptr => Stage(w) \in {"get", "return"}
    /\ temp_node[w] # nullptr =>
          Stage(w) \in {"pass", "offer", "take", "get"} /\ temp_node[w] \in ToSet(down_streams[task[w]])
    /\ Stage(w) \in {"pass", "take"} => limit_graph(task[w])
    /\ Stage(w) = "offer" => temp_node[w] # nullptr /\ limit_graph(temp_node[w])
    /\ Stage(w) = "pass" /\ temp_node[w] # nullptr =>
          parent_graph[temp_node[w]] # parent_graph[task[w]]
    /\ Stage(w) = "run" => status[task[w]] = "Initing"
    /\ Stage(w) = "finish" => status[task[w]] = "Running"
    /\ Stage(w) \in {"pass", "offer", "take", "get", "return"} => status[task[w]] = "Finish"

Calls == \A t \in Threads : CallOK(t)
Locals == \A w \in Workers : LocalOK(w)

-----------------------------------------------------------------------------
(* The nodes *)

\* Nodes are numbered as they are created.
Numbered == Made = 1 .. Cardinality(Made)

NoRepeat(s) == \A i, j \in DOMAIN s : s[i] = s[j] => i = j

\* The edges of a node: to created nodes, one to each.
Edges == \A r \in Nodes :
    /\ NoRepeat(down_streams[r])
    /\ ToSet(down_streams[r]) \subseteq Made
    /\ r \notin Made => status[r] = "Initing"

\* What a node waits for.
Open(d) == {r \in Nodes \ Ended : d \in ToSet(down_streams[r])}
WaitExact == \A d \in Nodes : wait_count[d] = Cardinality(Open(d))

\* The nodes of a graph that have not finished.
Unfinished(g) == {n \in Nodes \ Ended : parent_graph[n] = g}
GraphExact == \A g \in Graphs : g_wait_count[g] = Cardinality(Unfinished(g))

(* Where a node can be *)
Queued(n) == task_queue[n] # 0
InRing(g, n) == n \in ToSet(limit_queue[g])
Listed(t, n) == n \in ToSet(todo[t])

Kinds == {"queue", "ring", "todo", "temp", "next", "task"}
Owners == Threads \cup Limited \cup {nullptr}

Has(k, x, n) ==
    \/ k = "queue" /\ x = nullptr /\ Queued(n)
    \/ k = "ring" /\ x \in Limited /\ InRing(x, n)
    \/ k = "todo" /\ x \in Threads /\ Listed(x, n)
    \/ k = "temp" /\ x \in Workers /\ temp_node[x] = n
    \/ k = "next" /\ x \in Workers /\ next_task[x] = n
    \/ k = "task" /\ x \in Workers /\ task[x] = n

Exclusive == \A n \in Nodes : \A k, l \in Kinds : \A x, y \in Owners :
    Has(k, x, n) /\ Has(l, y, n) => k = l /\ x = y
Once ==
    /\ \A n \in Nodes : task_queue[n] \in {0, 1}
    /\ \A t \in Threads : NoRepeat(todo[t])
    /\ \A g \in Limited : NoRepeat(limit_queue[g])

\* A node that is somewhere waits for nothing, and has not run unless it is a task.
Released == \A n \in Nodes : \A k \in Kinds : \A x \in Owners : Has(k, x, n) =>
    /\ n \in Made /\ wait_count[n] = 0
    /\ k # "task" => status[n] = "Initing"
    /\ k = "ring" => parent_graph[n] = x
Started == \A n \in Nodes : status[n] # "Initing" => wait_count[n] = 0

PlaceInv ==
    /\ Types
    /\ Calls /\ Locals
    /\ Numbered /\ Edges /\ WaitExact /\ GraphExact
    /\ Exclusive /\ Once /\ Released /\ Started

-----------------------------------------------------------------------------
(* The places of a graph *)

Ring(n) == \E g \in Limited : InRing(g, n)
HeadOf(t, n) == Stuck(t) /\ Head(todo[t]) = n

\* The thread holds the node back; it has let it in; it is to take another for it.
Held(n) == Ring(n) \/ \E t \in Threads : HeadOf(t, n)
Lets(t, n) ==
    \/ HeadOf(t, n)
    \/ /\ t \in Workers
       /\ \/ next_task[t] = n
          \/ task[t] = n /\ Stage(t) \in {"run", "finish", "pass"}
LetIn(n) == Queued(n) \/ Ring(n) \/ \E t \in Threads : Lets(t, n)
TakesFor(t, n) == t \in Workers /\ task[t] = n /\ pc[t] = "take"
Taken(n) == \E t \in Threads : TakesFor(t, n)

Of(g) == {n \in Nodes : parent_graph[n] = g}
LetNodes == {n \in Nodes : LetIn(n)}
HeldNodes == {n \in Nodes : Held(n)}
Takers == {n \in Nodes : Taken(n)}
CountedOf(g) == LetNodes \cap Of(g)
HeldOf(g) == HeldNodes \cap Of(g)
TakersOf(g) == Takers \cap Of(g)

Positive(m) == IF m > 0 THEN m ELSE 0
HeldOK(g) ==
    Cardinality(HeldOf(g)) = Positive(m_count[g]) + Cardinality(TakersOf(g))

NoneUncounted == \A g \in Limited : m_count[g] + parallel <= Cardinality(CountedOf(g))
HeldExact == \A g \in Limited : HeldOK(g)

\* The nodes that have been let in or held back, now or before, and how many
\* have been held back.
Come(g) == {n \in Of(g) : LetIn(n) \/ status[n] # "Initing"}
Brought(g) == read[g] + Cardinality(HeldOf(g))

\* Whoever was held back came when all the places were taken.
Enough(g) == Brought(g) = 0 \/ Cardinality(Come(g)) >= Brought(g) + parallel

\* As many nodes had a position in the ring as it has slots.
ThrownFull == \A t \in Threads : pc[t] = "thrown" => write_ahead(holds(t)) >= queue_size

ReadTypes == read \in [Limited -> Nat] /\ read_ \in [Threads -> Nat]

CountInv ==
    /\ PlaceInv
    /\ NoneUncounted /\ HeldExact
    /\ ReadTypes /\ (\A g \in Limited : Enough(g)) /\ ThrownFull

\* No node of a limit graph waits for a node of another.
NoLimitedEdges == \A r \in Nodes : \A d \in ToSet(down_streams[r]) :
    limit_graph(r) /\ limit_graph(d) => parent_graph[r] = parent_graph[d]

CountExact == \A g \in Limited : m_count[g] + parallel = Cardinality(CountedOf(g))

-----------------------------------------------------------------------------
(* Sequences *)

LEMMA EmptySeq ==
    ASSUME NEW S, NEW s \in Seq(S)
    PROVE  s = <<>> <=> Len(s) = 0
OBVIOUS

\* A sequence without its first item.
LEMMA TailSet ==
    ASSUME NEW S, NEW s \in Seq(S), s # <<>>
    PROVE  /\ Head(s) \in ToSet(s) /\ Head(s) \in S /\ Tail(s) \in Seq(S)
           /\ ToSet(Tail(s)) \subseteq ToSet(s)
           /\ NoRepeat(s) => /\ NoRepeat(Tail(s))
                             /\ ToSet(Tail(s)) = ToSet(s) \ {Head(s)}
           /\ Len(s) = 1 <=> Tail(s) = <<>>
<1>1. /\ Len(s) \in Nat \ {0} /\ Tail(s) \in Seq(S) /\ Len(Tail(s)) = Len(s) - 1
      /\ Head(s) = s[1] /\ DOMAIN s = 1 .. Len(s) /\ DOMAIN Tail(s) = 1 .. Len(s) - 1
      /\ \A i \in 1 .. Len(s) - 1 : Tail(s)[i] = s[i + 1]
    OBVIOUS
<1>2. \A i \in 1 .. Len(s) : s[i] \in S  OBVIOUS
<1>3. Head(s) \in ToSet(s) /\ Head(s) \in S  BY <1>1, <1>2 DEF ToSet
<1>4. ToSet(Tail(s)) \subseteq ToSet(s)
    <2> SUFFICES ASSUME NEW i \in 1 .. Len(s) - 1 PROVE Tail(s)[i] \in ToSet(s)
        BY <1>1 DEF ToSet
    <2>1. i + 1 \in 1 .. Len(s) /\ Tail(s)[i] = s[i + 1]  BY <1>1
    <2> QED  BY <1>1, <2>1 DEF ToSet
<1>5. ASSUME NoRepeat(s) PROVE NoRepeat(Tail(s)) /\ ToSet(Tail(s)) = ToSet(s) \ {Head(s)}
    <2>1. ASSUME NEW i \in 1 .. Len(s) - 1, NEW j \in 1 .. Len(s) - 1, Tail(s)[i] = Tail(s)[j]
          PROVE  i = j
        <3>1. i + 1 \in 1 .. Len(s) /\ j + 1 \in 1 .. Len(s) /\ s[i + 1] = s[j + 1]
            BY <1>1, <2>1
        <3>2. i + 1 = j + 1  BY <1>1, <1>5, <3>1 DEF NoRepeat
        <3> QED  BY <3>2
    <2>2. \A i \in 1 .. Len(s) - 1 : Tail(s)[i] # Head(s)
        <3> TAKE i \in 1 .. Len(s) - 1
        <3>1. i + 1 \in 1 .. Len(s) /\ 1 \in 1 .. Len(s) /\ i + 1 # 1 /\ Tail(s)[i] = s[i + 1]
            BY <1>1
        <3> QED  BY <1>1, <1>5, <3>1 DEF NoRepeat
    <2>3. \A i \in 1 .. Len(s) : s[i] # Head(s) => \E j \in 1 .. Len(s) - 1 : Tail(s)[j] = s[i]
        <3> TAKE i \in 1 .. Len(s)
        <3>1. i # 1 => i - 1 \in 1 .. Len(s) - 1 /\ Tail(s)[i - 1] = s[i]  BY <1>1
        <3> QED  BY <1>1, <3>1
    <2>4. NoRepeat(Tail(s))  BY <1>1, <2>1 DEF NoRepeat
    <2>5. \A i \in 1 .. Len(s) - 1 : Tail(s)[i] \in ToSet(s) \ {Head(s)}
        BY <1>1, <1>4, <2>2 DEF ToSet
    <2>6. ToSet(Tail(s)) = {Tail(s)[i] : i \in 1 .. Len(s) - 1}  BY <1>1 DEF ToSet
    <2>7. ToSet(s) = {s[i] : i \in 1 .. Len(s)}  BY <1>1 DEF ToSet
    <2> QED  BY <2>3, <2>4, <2>5, <2>6, <2>7
<1>6. Len(s) = 1 <=> Tail(s) = <<>>
    <2>1. Tail(s) = <<>> <=> Len(Tail(s)) = 0  BY <1>1, EmptySeq
    <2> QED  BY <1>1, <2>1
<1> QED  BY <1>1, <1>3, <1>4, <1>5, <1>6

\* A sequence with one item more.
LEMMA AppendSet ==
    ASSUME NEW S, NEW s \in Seq(S), NEW e \in S
    PROVE  /\ Append(s, e) \in Seq(S) /\ Append(s, e) # <<>>
           /\ ToSet(Append(s, e)) = ToSet(s) \cup {e}
           /\ NoRepeat(s) /\ e \notin ToSet(s) => NoRepeat(Append(s, e))
<1>1. /\ Append(s, e) \in Seq(S) /\ Len(s) \in Nat /\ Len(Append(s, e)) = Len(s) + 1
      /\ DOMAIN Append(s, e) = 1 .. Len(s) + 1 /\ DOMAIN s = 1 .. Len(s)
      /\ Append(s, e)[Len(s) + 1] = e /\ \A i \in 1 .. Len(s) : Append(s, e)[i] = s[i]
    OBVIOUS
<1>2. ToSet(Append(s, e)) = ToSet(s) \cup {e}
    <2>1. \A i \in 1 .. Len(s) + 1 : i \in 1 .. Len(s) \/ i = Len(s) + 1  BY <1>1
    <2>2. \A i \in 1 .. Len(s) : i \in 1 .. Len(s) + 1  BY <1>1
    <2>3. Len(s) + 1 \in 1 .. Len(s) + 1  BY <1>1
    <2> QED  BY <1>1, <2>1, <2>2, <2>3 DEF ToSet
<1>3. ASSUME NoRepeat(s), e \notin ToSet(s) PROVE NoRepeat(Append(s, e))
    <2>1. \A i \in 1 .. Len(s) : s[i] # e  BY <1>1, <1>3 DEF ToSet
    <2>2. \A i \in 1 .. Len(s) + 1 : i \in 1 .. Len(s) \/ i = Len(s) + 1  BY <1>1
    <2> QED  BY <1>1, <1>3, <2>1, <2>2 DEF NoRepeat
<1>4. Append(s, e) # <<>>  BY <1>1
<1> QED  BY <1>1, <1>2, <1>3, <1>4

\* The two shortest.
LEMMA ShortSets ==
    /\ \A S : <<>> \in Seq(S)
    /\ ToSet(<<>>) = {} /\ NoRepeat(<<>>)
    /\ \A n : ToSet(<<n>>) = {n} /\ NoRepeat(<<n>>) /\ Head(<<n>>) = n /\ <<n>> # <<>>
    /\ \A S : \A n \in S : <<n>> \in Seq(S)
BY DEF ToSet, NoRepeat

-----------------------------------------------------------------------------
(* Places *)

LEMMA NodeFacts == IsFiniteSet(Nodes) /\ nullptr \notin Nodes
BY BoundAssumption, FS_Interval DEF Nodes, nullptr

\* The node is at no new place after the step.
Stays(n) == \A k \in Kinds : \A x \in Owners : Has(k, x, n)' => Has(k, x, n)

\* The node is at this place or nowhere after the step.
Lands(n, k, x) == \A l \in Kinds : \A y \in Owners : Has(l, y, n)' => l = k /\ y = x

\* It may be there.
Fits(n, k, x) ==
    /\ n \in Made /\ wait_count[n] = 0
    /\ k # "task" => status[n] = "Initing"
    /\ k = "ring" => parent_graph[n] = x

\* Every node stays, or goes to one place.
LEMMA PlacesKept ==
    ASSUME Exclusive, Released, UNCHANGED nodeVars,
           \A n \in Nodes : Stays(n) \/ \E k, x : Lands(n, k, x) /\ Fits(n, k, x)
    PROVE  Exclusive' /\ Released'
<1>1. Exclusive'
    <2> SUFFICES ASSUME NEW n \in Nodes,
                        NEW k \in Kinds, NEW l \in Kinds, NEW x \in Owners, NEW y \in Owners,
                        Has(k, x, n)', Has(l, y, n)'
                 PROVE  k = l /\ x = y
        BY DEF Exclusive
    <2>1. CASE Stays(n)  BY <2>1 DEF Stays, Exclusive
    <2>2. CASE \E j, z : Lands(n, j, z)  BY <2>2 DEF Lands
    <2> QED  BY <2>1, <2>2
<1>2. Released'
    <2> SUFFICES ASSUME NEW n \in Nodes, NEW k \in Kinds, NEW x \in Owners, Has(k, x, n)'
                 PROVE  Fits(n, k, x)'
        BY DEF Released, Fits
    <2>1. Fits(n, k, x)
        <3>1. CASE Stays(n)  BY <3>1 DEF Stays, Released, Fits
        <3>2. CASE \E j, z : Lands(n, j, z) /\ Fits(n, j, z)  BY <3>2 DEF Lands
        <3> QED  BY <3>1, <3>2
    <2> QED  BY <2>1 DEF Fits, Made, nodeVars
<1> QED  BY <1>1, <1>2

\* One node goes from a place to another, nothing else moves.
Moves(h, k, x, l, y) ==
    /\ \A n \in Nodes \ {h} : Stays(n)
    /\ \A j \in Kinds : \A z \in Owners : Has(j, z, h)' =>
          (Has(j, z, h) /\ ~(j = k /\ z = x)) \/ (j = l /\ z = y)

LEMMA MoveKept ==
    ASSUME Exclusive, Released, UNCHANGED nodeVars, NEW h \in Nodes,
           NEW k \in Kinds, NEW x \in Owners, Has(k, x, h),
           NEW l, NEW y, Moves(h, k, x, l, y), Fits(h, l, y)
    PROVE  Exclusive' /\ Released'
<1>1. Lands(h, l, y)
    <2> SUFFICES ASSUME NEW j \in Kinds, NEW z \in Owners, Has(j, z, h)' PROVE j = l /\ z = y
        BY DEF Lands
    <2>1. Has(j, z, h) => j = k /\ z = x  BY DEF Exclusive
    <2> QED  BY <2>1 DEF Moves
<1>2. \A n \in Nodes : Stays(n) \/ \E j, z : Lands(n, j, z) /\ Fits(n, j, z)
    BY <1>1 DEF Moves
<1> QED  BY <1>2, PlacesKept

\* What holds for a node at a place.
LEMMA AtPlace ==
    ASSUME Released, NEW n \in Nodes, NEW k \in Kinds, NEW x \in Owners, Has(k, x, n)
    PROVE  Fits(n, k, x)
BY DEF Released, Fits

\* Nothing a node waits for is changed.
LEMMA GraphsKept ==
    ASSUME PlaceInv, UNCHANGED <<parent_graph, wait_count, down_streams, g_wait_count>>,
           Ended' = Ended,
           \A n \in Nodes : status'[n] # status[n] => n \in Made /\ wait_count[n] = 0
    PROVE  Numbered' /\ Edges' /\ WaitExact' /\ GraphExact' /\ Started'
<1>1. Made' = Made  BY DEF Made
<1>2. Numbered'  BY <1>1 DEF PlaceInv, Numbered
<1>3. Edges'  BY <1>1 DEF PlaceInv, Edges
<1>4. WaitExact'  BY DEF PlaceInv, WaitExact, Open
<1>5. GraphExact'  BY DEF PlaceInv, GraphExact, Unfinished
<1>6. Started'  BY DEF PlaceInv, Started
<1> QED  BY <1>2, <1>3, <1>4, <1>5, <1>6

LEMMA NodesKept ==
    ASSUME PlaceInv, UNCHANGED <<nodeVars, g_wait_count>>
    PROVE  Numbered' /\ Edges' /\ WaitExact' /\ GraphExact' /\ Started'
<1>1. Ended' = Ended  BY DEF Ended, nodeVars
<1> QED  BY <1>1, GraphsKept DEF nodeVars

\* The locals of the other threads.
Alone(t) == \A u \in Threads \ {t} :
    /\ pc'[u] = pc[u] /\ todo'[u] = todo[u]
    /\ u \in Workers => then'[u] = then[u] /\ task'[u] = task[u]
                        /\ temp_node'[u] = temp_node[u] /\ next_task'[u] = next_task[u]

\* A thread keeps to what is said of it as long as the others leave its task.
LEMMA ThreadsKept ==
    ASSUME PlaceInv, NEW t \in Threads, Alone(t), UNCHANGED <<parent_graph, down_streams>>,
           \A n \in Nodes : status'[n] # status[n] => t \in Workers /\ n = task[t],
           CallOK(t)', t \in Workers => LocalOK(t)'
    PROVE  Calls' /\ Locals'
<1>1. Calls'
    <2> SUFFICES ASSUME NEW u \in Threads, u # t PROVE CallOK(u)'  BY DEF Calls
    <2> QED  BY DEF PlaceInv, Calls, CallOK, Alone, Stuck, limit_graph
<1>2. Locals'
    <2> SUFFICES ASSUME NEW v \in Workers, v # t PROVE LocalOK(v)'  BY DEF Locals
    <2>1. LocalOK(v)  BY DEF PlaceInv, Locals
    <2>2. v \in Threads /\ pc'[v] = pc[v] /\ todo'[v] = todo[v] /\ then'[v] = then[v]
          /\ task'[v] = task[v] /\ temp_node'[v] = temp_node[v] /\ next_task'[v] = next_task[v]
        BY DEF Alone, Threads
    <2>3. Stage(v)' = Stage(v)  BY <2>2 DEF Stage
    <2>4. task[v] # nullptr => status'[task[v]] = status[task[v]]
        <3>1. ASSUME task[v] # nullptr, task[v] = task[t], t \in Workers PROVE FALSE
            <4>1. task[v] \in Nodes /\ Has("task", v, task[v]) /\ Has("task", t, task[v])
                BY <3>1 DEF PlaceInv, Types, Has
            <4> QED  BY <2>2, <4>1 DEF PlaceInv, Exclusive, Kinds, Owners
        <3> QED  BY <3>1 DEF PlaceInv, Types
    <2>5. Stage(v) # "idle" => task[v] # nullptr  BY <2>1 DEF LocalOK
    <2> QED  BY <2>1, <2>2, <2>3, <2>4, <2>5 DEF LocalOK, limit_graph
<1> QED  BY <1>1, <1>2

-----------------------------------------------------------------------------
(* Calls of ready() *)

\* The list of a thread in a call.
LEMMA InCall ==
    ASSUME PlaceInv, NEW t \in Threads, pc[t] \in Asking
    PROVE  /\ todo[t] \in Seq(Nodes) /\ todo[t] # <<>> /\ NoRepeat(todo[t])
           /\ Head(todo[t]) \in Nodes /\ Has("todo", t, Head(todo[t]))
           /\ Fits(Head(todo[t]), "todo", t)
           /\ parent_graph[Head(todo[t])] \in Graphs
           /\ Tail(todo[t]) \in Seq(Nodes) /\ NoRepeat(Tail(todo[t]))
           /\ ToSet(Tail(todo[t])) = ToSet(todo[t]) \ {Head(todo[t])}
<1>1. todo[t] \in Seq(Nodes) /\ todo[t] # <<>> /\ NoRepeat(todo[t])
    BY DEF PlaceInv, Types, Calls, CallOK, Once
<1>2. /\ Head(todo[t]) \in ToSet(todo[t]) /\ Head(todo[t]) \in Nodes
      /\ Tail(todo[t]) \in Seq(Nodes) /\ NoRepeat(Tail(todo[t]))
      /\ ToSet(Tail(todo[t])) = ToSet(todo[t]) \ {Head(todo[t])}
    BY <1>1, TailSet
<1>3. Has("todo", t, Head(todo[t]))  BY <1>2 DEF Has, Listed
<1>4. Fits(Head(todo[t]), "todo", t)
    BY <1>2, <1>3, AtPlace DEF PlaceInv, Kinds, Owners
<1>5. parent_graph[Head(todo[t])] \in Graphs  BY <1>4 DEF Fits, Made, PlaceInv, Types
<1> QED  BY <1>1, <1>2, <1>3, <1>4, <1>5

\* A step of a call that keeps the worker on its way.
LEMMA CallerKept ==
    ASSUME PlaceInv, NEW t \in Threads, pc[t] \in Calling, UNCHANGED <<nodeVars, workerVars>>,
           \A u \in Threads \ {t} : todo'[u] = todo[u],
           NEW to, pc' = [pc EXCEPT ![t] = to],
           \/ /\ to \in {"hold", "look", "claim", "thrown"} /\ pc[t] \in Asking
              /\ todo'[t] = todo[t] /\ limit_graph(Head(todo[t]))
           \/ to = "put"
           \/ to = After(t, todo'[t])
    PROVE  /\ Calls' /\ Locals' /\ to \in Points /\ pc'[t] = to
           /\ \A u \in Threads \ {t} : pc'[u] = pc[u]
           /\ \A w \in Workers : Stage(w)' = Stage(w)
<1>1. /\ pc \in [Threads -> Points] /\ then \in [Workers -> {"return", "offer", "pass"}]
      /\ t \notin Clients => t \in Workers
    BY DEF PlaceInv, Types, Threads
<1>2. pc'[t] = to /\ \A u \in Threads \ {t} : pc'[u] = pc[u]  BY <1>1
<1>3. to = After(t, todo'[t]) =>
          \/ to = "ready" /\ todo'[t] # <<>>
          \/ t \in Clients /\ to = "idle" /\ todo'[t] = <<>>
          \/ t \in Workers /\ t \notin Clients /\ to = then[t] /\ todo'[t] = <<>>
    BY <1>1 DEF After
<1>4. to \in Points  BY <1>1, <1>3 DEF Points, Calling, WorkerPC
<1>5. \A w \in Workers : Stage(w)' = Stage(w)
    <2> TAKE w \in Workers
    <2>1. CASE w # t  BY <1>2, <2>1 DEF Stage, workerVars, Threads
    <2>2. CASE w = t
        <3>1. t \notin Clients  BY <2>2, ThreadAssumption
        <3>2. to \in Calling \/ to = then[t]  BY <1>3, <3>1 DEF Calling
        <3> QED  BY <1>1, <1>2, <2>2, <3>2 DEF Stage, workerVars, Calling
    <2> QED  BY <2>1, <2>2
<1>6. CallOK(t)'
    <2>1. CASE /\ to \in {"hold", "look", "claim", "thrown"} /\ pc[t] \in Asking
               /\ todo'[t] = todo[t] /\ limit_graph(Head(todo[t]))
        BY <1>2, <2>1, InCall DEF CallOK, Calling, Asking, Stuck, limit_graph, nodeVars
    <2>2. CASE to = "put"
        BY <1>2, <2>2 DEF CallOK, Calling, Asking, Stuck
    <2>3. CASE to = After(t, todo'[t])
        <3>1. t \in Clients => t \notin Workers  BY ThreadAssumption
        <3> QED  BY <1>1, <1>2, <1>3, <2>3, <3>1 DEF CallOK, Calling, Asking, Stuck
    <2> QED  BY <2>1, <2>2, <2>3
<1>7. t \in Workers => LocalOK(t)'
    <2> SUFFICES ASSUME t \in Workers PROVE LocalOK(t)'  OBVIOUS
    <2>1. LocalOK(t) /\ Stage(t)' = Stage(t)  BY <1>5 DEF PlaceInv, Locals
    <2> QED  BY <2>1 DEF LocalOK, limit_graph, nodeVars, workerVars
<1>8. Alone(t)  BY <1>2 DEF Alone, workerVars
<1>9. Calls' /\ Locals'  BY <1>6, <1>7, <1>8, ThreadsKept DEF nodeVars
<1> QED  BY <1>2, <1>4, <1>5, <1>9

\* Graph::ready (graph.cpp:46-51).
LEMMA ReadyPlace ==
    ASSUME PlaceInv, NEW t \in Threads, ready(t)
    PROVE  PlaceInv'
<1>1. pc[t] = "ready" /\ pc[t] \in Calling /\ pc[t] \in Asking
    BY DEF ready, At, Calling, Asking, Go
<1>0. PICK h \in Nodes : h = Head(todo[t])  BY <1>1, InCall
<1>2. /\ todo[t] \in Seq(Nodes) /\ h \in Nodes /\ Has("todo", t, h) /\ Fits(h, "todo", t)
      /\ Tail(todo[t]) \in Seq(Nodes) /\ NoRepeat(Tail(todo[t]))
      /\ ToSet(Tail(todo[t])) = ToSet(todo[t]) \ {h}
    BY <1>1, <1>0, InCall
<1>3. UNCHANGED <<nodeVars, g_wait_count, limit_queue, workerVars>>  BY DEF ready, ringVars
<1>4. Numbered' /\ Edges' /\ WaitExact' /\ GraphExact' /\ Started'  BY <1>3, NodesKept
<1>5. m_count' \in [Limited -> Int]
    BY DEF ready, CountIn, PlaceInv, Types
<1>6. CASE Go(t, "ready", "hold") /\ limit_graph(h) /\ UNCHANGED <<task_queue, todo>>
    <2>1. pc' = [pc EXCEPT ![t] = "hold"]  BY <1>6 DEF Go
    <2>2. Calls' /\ Locals' /\ pc' \in [Threads -> Points]
        <3>1. Calls' /\ Locals'  BY <1>1, <1>3, <1>6, <1>0, <2>1, CallerKept
        <3> QED  BY <2>1, <3>1 DEF PlaceInv, Types, Points, Calling
    <2>3. Types'  BY <1>3, <1>5, <1>6, <2>2 DEF PlaceInv, Types, nodeVars, workerVars
    <2>4. \A n \in Nodes : Stays(n)
        BY <1>3, <1>6 DEF Stays, Has, Queued, InRing, Listed, workerVars
    <2>5. Exclusive' /\ Released'  BY <1>3, <2>4, PlacesKept DEF PlaceInv
    <2>6. Once'  BY <1>3, <1>6 DEF PlaceInv, Once
    <2> QED  BY <1>4, <2>2, <2>3, <2>5, <2>6 DEF PlaceInv
<1>7. CASE /\ Go(t, "ready", After(t, Tail(todo[t])))
           /\ add_new_task(h) /\ todo' = [todo EXCEPT ![t] = Tail(@)]
    <2>1. pc' = [pc EXCEPT ![t] = After(t, Tail(todo[t]))]  BY <1>7 DEF Go
    <2>2. /\ todo' \in [Threads -> Seq(Nodes)] /\ todo'[t] = Tail(todo[t])
          /\ \A u \in Threads \ {t} : todo'[u] = todo[u]
        BY <1>2, <1>7 DEF PlaceInv, Types
    <2>3. Calls' /\ Locals' /\ After(t, Tail(todo[t])) \in Points
        BY <1>1, <1>3, <2>1, <2>2, CallerKept
    <2>4. pc' \in [Threads -> Points]  BY <2>1, <2>3 DEF PlaceInv, Types
    <2>5. /\ task_queue[h] = 0
          /\ task_queue' \in [Nodes -> Nat] /\ task_queue'[h] = 1
          /\ \A n \in Nodes \ {h} : task_queue'[n] = task_queue[n]
        <3>1. ~Queued(h)
            <4>1. ~Has("queue", nullptr, h)
                BY <1>2 DEF PlaceInv, Exclusive, Kinds, Owners
            <4> QED  BY <4>1 DEF Has
        <3> QED  BY <1>2, <1>7, <3>1 DEF PlaceInv, Types, add_new_task, Queued
    <2>6. Types'  BY <1>3, <1>5, <2>2, <2>4, <2>5 DEF PlaceInv, Types, nodeVars, workerVars
    <2>7. \A u \in Threads, n \in Nodes :
             Listed(u, n)' <=> Listed(u, n) /\ ~(u = t /\ n = h)
        BY <1>2, <2>2 DEF Listed
    <2>8. \A n \in Nodes : Queued(n)' <=> Queued(n) \/ n = h  BY <2>5 DEF Queued
    <2>9. Moves(h, "todo", t, "queue", nullptr)
        <3>1. \A n \in Nodes : \A k \in Kinds : \A x \in Owners : Has(k, x, n)' =>
                 (Has(k, x, n) /\ ~(n = h /\ k = "todo" /\ x = t))
                     \/ (n = h /\ k = "queue" /\ x = nullptr)
            BY <1>2, <1>3, <2>7, <2>8 DEF Has, InRing, workerVars
        <3> QED  BY <3>1 DEF Moves, Stays
    <2>10. Fits(h, "queue", nullptr)  BY <1>2 DEF Fits
    <2>11. Exclusive' /\ Released'
        BY <1>2, <1>3, <2>9, <2>10, MoveKept DEF PlaceInv, Kinds, Owners
    <2>12. Once'
        <3>1. \A n \in Nodes : task_queue'[n] \in {0, 1}  BY <2>5 DEF PlaceInv, Once
        <3>2. \A u \in Threads : NoRepeat(todo[u])'
            BY <1>2, <2>2 DEF PlaceInv, Once, NoRepeat
        <3> QED  BY <1>3, <3>1, <3>2 DEF PlaceInv, Once
    <2> QED  BY <1>4, <2>3, <2>6, <2>11, <2>12 DEF PlaceInv
<1> QED  BY <1>0, <1>6, <1>7 DEF ready, limit_graph

\* The held node gets a position in the ring (free_lock.cpp:113-116).
LEMMA HoldPlace ==
    ASSUME PlaceInv, NEW t \in Threads, Hold(t)
    PROVE  PlaceInv'
<1>1. pc[t] = "claim" /\ pc[t] \in Calling /\ pc[t] \in Asking /\ Stuck(t)
    BY DEF Hold, At, Calling, Asking, Go, Stuck
<1>2. PICK h \in Nodes : h = Head(todo[t])  BY <1>1, InCall
<1>3. /\ todo[t] \in Seq(Nodes) /\ Has("todo", t, h) /\ Fits(h, "todo", t)
      /\ Tail(todo[t]) \in Seq(Nodes) /\ NoRepeat(Tail(todo[t]))
      /\ ToSet(Tail(todo[t])) = ToSet(todo[t]) \ {h}
    BY <1>1, <1>2, InCall
<1>4. PICK g \in Limited : g = parent_graph[h]
    BY <1>1, <1>2 DEF PlaceInv, Calls, CallOK, limit_graph
<1>5. /\ UNCHANGED <<nodeVars, g_wait_count, m_count, task_queue, workerVars>>
      /\ pc' = [pc EXCEPT ![t] = "put"]
      /\ limit_queue' = [limit_queue EXCEPT ![g] = Append(@, h)]
      /\ todo' = [todo EXCEPT ![t] = Tail(@)]
    BY <1>2, <1>4 DEF Hold, Go, holds
<1>6. Numbered' /\ Edges' /\ WaitExact' /\ GraphExact' /\ Started'  BY <1>5, NodesKept
<1>7. /\ todo' \in [Threads -> Seq(Nodes)] /\ todo'[t] = Tail(todo[t])
      /\ \A u \in Threads \ {t} : todo'[u] = todo[u]
    BY <1>3, <1>5 DEF PlaceInv, Types
<1>8. Calls' /\ Locals' /\ "put" \in Points  BY <1>1, <1>5, <1>7, CallerKept
<1>9. pc' \in [Threads -> Points]  BY <1>5, <1>8 DEF PlaceInv, Types
<1>10. ~InRing(g, h)
    <2>1. ~Has("ring", g, h)  BY <1>3 DEF PlaceInv, Exclusive, Kinds, Owners
    <2> QED  BY <2>1 DEF Has
<1>11. /\ limit_queue[g] \in Seq(Nodes) /\ Append(limit_queue[g], h) \in Seq(Nodes)
       /\ ToSet(Append(limit_queue[g], h)) = ToSet(limit_queue[g]) \cup {h}
       /\ NoRepeat(Append(limit_queue[g], h))
    <2>1. limit_queue[g] \in Seq(Nodes) /\ NoRepeat(limit_queue[g])
        BY DEF PlaceInv, Types, Once
    <2> QED  BY <1>10, <2>1, AppendSet DEF InRing
<1>12. /\ limit_queue' \in [Limited -> Seq(Nodes)]
       /\ limit_queue'[g] = Append(limit_queue[g], h)
       /\ \A f \in Limited \ {g} : limit_queue'[f] = limit_queue[f]
    BY <1>5, <1>11 DEF PlaceInv, Types
<1>13. Types'  BY <1>5, <1>7, <1>9, <1>12 DEF PlaceInv, Types, nodeVars, workerVars
<1>14. \A u \in Threads, n \in Nodes : Listed(u, n)' <=> Listed(u, n) /\ ~(u = t /\ n = h)
    BY <1>3, <1>7 DEF Listed
<1>15. \A f \in Limited, n \in Nodes : InRing(f, n)' <=> InRing(f, n) \/ (f = g /\ n = h)
    BY <1>11, <1>12 DEF InRing
<1>16. Moves(h, "todo", t, "ring", g)
    <2>1. \A n \in Nodes : \A k \in Kinds : \A x \in Owners : Has(k, x, n)' =>
             (Has(k, x, n) /\ ~(n = h /\ k = "todo" /\ x = t))
                 \/ (n = h /\ k = "ring" /\ x = g)
        BY <1>5, <1>14, <1>15 DEF Has, Queued, workerVars
    <2> QED  BY <2>1 DEF Moves, Stays
<1>17. Fits(h, "ring", g)  BY <1>3, <1>4 DEF Fits
<1>18. Exclusive' /\ Released'
    BY <1>3, <1>5, <1>16, <1>17, MoveKept DEF PlaceInv, Kinds, Owners
<1>19. Once'
    <2>1. \A u \in Threads : NoRepeat(todo[u])'
        BY <1>3, <1>7 DEF PlaceInv, Once, NoRepeat
    <2>2. \A f \in Limited : NoRepeat(limit_queue[f])'
        BY <1>11, <1>12 DEF PlaceInv, Once, NoRepeat
    <2> QED  BY <1>5, <2>1, <2>2 DEF PlaceInv, Once
<1> QED  BY <1>6, <1>8, <1>13, <1>18, <1>19 DEF PlaceInv

\* A thread that only goes on inside LimitQueue::try_enqueue.
Looks(t) ==
    /\ \/ /\ pc[t] \in {"hold", "look", "claim"}
          /\ \E to \in {"look", "claim", "thrown"} : pc' = [pc EXCEPT ![t] = to]
       \/ pc[t] = "put" /\ pc' = [pc EXCEPT ![t] = After(t, todo[t])]
    /\ UNCHANGED <<nodeVars, g_wait_count, m_count, limit_queue, read, task_queue, todo,
                   workerVars>>

LEMMA LooksOn ==
    ASSUME NEW t \in Threads, HoldRead(t) \/ HoldLook(t) \/ HoldThrows(t) \/ Put(t)
    PROVE  Looks(t)
<1>1. CASE HoldRead(t)  BY <1>1 DEF Looks, HoldRead, Go, At
<1>2. CASE HoldLook(t)  BY <1>2 DEF Looks, HoldLook, Go, At, queueVars, ringVars
<1>3. CASE HoldThrows(t)  BY <1>3 DEF Looks, HoldThrows, Go, At, queueVars, ringVars
<1>4. CASE Put(t)  BY <1>4 DEF Looks, Put, Go, At, queueVars, ringVars
<1> QED  BY <1>1, <1>2, <1>3, <1>4

LEMMA LooksFacts ==
    ASSUME PlaceInv, NEW t \in Threads, Looks(t)
    PROVE  /\ Calls' /\ Locals' /\ pc' \in [Threads -> Points]
           /\ \A u \in Threads \ {t} : pc'[u] = pc[u]
           /\ \A w \in Workers : Stage(w)' = Stage(w)
           /\ Stuck(t)' <=> Stuck(t)
           /\ pc[t] # "take" /\ pc'[t] # "take"
<1>1. UNCHANGED <<nodeVars, workerVars, todo>>  BY DEF Looks
<1>2. CASE /\ pc[t] \in {"hold", "look", "claim"}
           /\ \E to \in {"look", "claim", "thrown"} : pc' = [pc EXCEPT ![t] = to]
    <2>1. PICK to \in {"look", "claim", "thrown"} : pc' = [pc EXCEPT ![t] = to]  BY <1>2
    <2>2. pc[t] \in Calling /\ pc[t] \in Asking /\ Stuck(t)  BY <1>2 DEF Calling, Asking, Stuck
    <2>3. limit_graph(Head(todo[t]))  BY <2>2 DEF PlaceInv, Calls, CallOK
    <2>4. /\ Calls' /\ Locals' /\ to \in Points /\ pc'[t] = to
          /\ \A u \in Threads \ {t} : pc'[u] = pc[u]
          /\ \A w \in Workers : Stage(w)' = Stage(w)
        BY <1>1, <2>1, <2>2, <2>3, CallerKept
    <2> QED  BY <1>2, <2>1, <2>2, <2>4 DEF PlaceInv, Types, Stuck
<1>3. CASE pc[t] = "put" /\ pc' = [pc EXCEPT ![t] = After(t, todo[t])]
    <2>1. PICK to : to = After(t, todo'[t]) /\ pc' = [pc EXCEPT ![t] = to]  BY <1>1, <1>3
    <2>2. pc[t] \in Calling  BY <1>3 DEF Calling
    <2>3. /\ Calls' /\ Locals' /\ to \in Points /\ pc'[t] = to
          /\ \A u \in Threads \ {t} : pc'[u] = pc[u]
          /\ \A w \in Workers : Stage(w)' = Stage(w)
        BY <1>1, <2>1, <2>2, CallerKept
    <2>4. pc'[t] \notin {"hold", "look", "claim", "thrown", "take"}
        BY <1>1, <2>1, <2>3 DEF After, PlaceInv, Types, Threads
    <2> QED  BY <1>3, <2>1, <2>3, <2>4 DEF PlaceInv, Types, Stuck
<1> QED  BY <1>2, <1>3 DEF Looks

LEMMA LooksPlace ==
    ASSUME PlaceInv, NEW t \in Threads, Looks(t)
    PROVE  PlaceInv'
<1>1. UNCHANGED <<nodeVars, g_wait_count, m_count, limit_queue, task_queue, todo, workerVars>>
    BY DEF Looks
<1>2. Numbered' /\ Edges' /\ WaitExact' /\ GraphExact' /\ Started'  BY <1>1, NodesKept
<1>3. Calls' /\ Locals' /\ pc' \in [Threads -> Points]  BY LooksFacts
<1>4. Types'  BY <1>1, <1>3 DEF PlaceInv, Types, nodeVars, workerVars
<1>5. \A n \in Nodes : Stays(n)
    BY <1>1 DEF Stays, Has, Queued, InRing, Listed, workerVars
<1>6. Exclusive' /\ Released'  BY <1>1, <1>5, PlacesKept DEF PlaceInv
<1>7. Once'  BY <1>1 DEF PlaceInv, Once
<1> QED  BY <1>2, <1>3, <1>4, <1>6, <1>7 DEF PlaceInv

-----------------------------------------------------------------------------
(* Steps of a worker *)

\* A worker outside of ready() has nothing to call it for.
LEMMA WorkerAt ==
    ASSUME PlaceInv, NEW w \in Workers, pc[w] \notin Calling
    PROVE  /\ w \in Threads /\ w \notin Clients /\ todo[w] = <<>>
           /\ Stage(w) = pc[w] /\ LocalOK(w)
           /\ pc[w] # "idle" => /\ task[w] \in Nodes /\ Has("task", w, task[w])
                                /\ Fits(task[w], "task", w)
<1>1. w \in Threads /\ w \notin Clients  BY ThreadAssumption DEF Threads
<1>2. todo[w] = <<>> /\ Stage(w) = pc[w] /\ LocalOK(w)
    BY <1>1 DEF PlaceInv, Calls, CallOK, Locals, Stage
<1>3. ASSUME pc[w] # "idle" PROVE task[w] \in Nodes /\ Has("task", w, task[w])
    BY <1>2, <1>3 DEF LocalOK, PlaceInv, Types, Has
<1>4. ASSUME pc[w] # "idle" PROVE Fits(task[w], "task", w)
    BY <1>1, <1>3, <1>4, AtPlace DEF PlaceInv, Kinds, Owners
<1> QED  BY <1>1, <1>2, <1>3, <1>4

\* Schedule::do_schedule takes a node from the queue (schedule.cpp:230-239).
LEMMA DequeuePlace ==
    ASSUME PlaceInv, NEW w \in Workers, NEW n \in Nodes, Dequeue(w, n)
    PROVE  PlaceInv'
<1>1. /\ pc[w] = "idle" /\ pc[w] \notin Calling /\ pc' = [pc EXCEPT ![w] = "run"]
      /\ task_queue[n] > 0 /\ task_queue' = [task_queue EXCEPT ![n] = @ - 1]
      /\ task' = [task EXCEPT ![w] = n]
      /\ UNCHANGED <<nodeVars, g_wait_count, queueVars, todo, then, temp_node, next_task>>
    BY DEF Dequeue, Go, At, Calling
<1>2. w \in Threads /\ w \notin Clients /\ todo[w] = <<>> /\ Stage(w) = "idle" /\ LocalOK(w)
    BY <1>1, WorkerAt
<1>3. Numbered' /\ Edges' /\ WaitExact' /\ GraphExact' /\ Started'  BY <1>1, NodesKept
<1>4. Has("queue", nullptr, n) /\ task_queue[n] = 1
    BY <1>1 DEF Has, Queued, PlaceInv, Types, Once
<1>5. Fits(n, "queue", nullptr)  BY <1>4, AtPlace DEF PlaceInv, Kinds, Owners
<1>6. /\ task_queue' \in [Nodes -> Nat] /\ task_queue'[n] = 0
      /\ \A m \in Nodes \ {n} : task_queue'[m] = task_queue[m]
    BY <1>1, <1>4 DEF PlaceInv, Types
<1>7. /\ task' \in [Workers -> Nodes \cup {nullptr}] /\ task'[w] = n
      /\ \A v \in Workers \ {w} : task'[v] = task[v]
    BY <1>1 DEF PlaceInv, Types
<1>8. /\ pc' \in [Threads -> Points] /\ pc'[w] = "run"
      /\ \A u \in Threads \ {w} : pc'[u] = pc[u]
    BY <1>1, <1>2 DEF PlaceInv, Types, Points, WorkerPC
<1>9. Types'  BY <1>1, <1>6, <1>7, <1>8 DEF PlaceInv, Types, nodeVars, queueVars, ringVars
<1>10. Calls' /\ Locals'
    <2>1. Alone(w)  BY <1>1, <1>7, <1>8 DEF Alone
    <2>2. CallOK(w)'  BY <1>1, <1>2, <1>8 DEF CallOK, Calling, Asking, Stuck
    <2>3. Stage(w)' = "run"  BY <1>8 DEF Stage, Calling
    <2>4. next_task'[w] = nullptr /\ temp_node'[w] = nullptr
        BY <1>1, <1>2 DEF LocalOK, PlaceInv, Types
    <2>5. status'[n] = "Initing" /\ n # nullptr  BY <1>1, <1>5, NodeFacts DEF Fits, nodeVars
    <2>6. LocalOK(w)'  BY <1>7, <2>3, <2>4, <2>5 DEF LocalOK
    <2> QED  BY <1>1, <1>2, <2>1, <2>2, <2>6, ThreadsKept DEF nodeVars
<1>11. Moves(n, "queue", nullptr, "task", w)
    <2>1. \A m \in Nodes : Queued(m)' <=> Queued(m) /\ m # n
        BY <1>4, <1>6 DEF Queued
    <2>2. \A m \in Nodes : \A k \in Kinds : \A x \in Owners : Has(k, x, m)' =>
             (Has(k, x, m) /\ ~(m = n /\ k = "queue" /\ x = nullptr))
                 \/ (m = n /\ k = "task" /\ x = w)
        BY <1>1, <1>7, <2>1 DEF Has, InRing, Listed, queueVars, ringVars
    <2> QED  BY <2>2 DEF Moves, Stays
<1>12. Fits(n, "task", w)  BY <1>5 DEF Fits
<1>13. Exclusive' /\ Released'
    BY <1>1, <1>4, <1>11, <1>12, MoveKept DEF PlaceInv, Kinds, Owners
<1>14. Once'  BY <1>1, <1>4, <1>6 DEF PlaceInv, Once, queueVars, ringVars
<1> QED  BY <1>3, <1>9, <1>10, <1>13, <1>14 DEF PlaceInv

\* run_task: the node runs (schedule.cpp:204-216).
LEMMA ResumePlace ==
    ASSUME PlaceInv, NEW w \in Workers, Resume(w)
    PROVE  PlaceInv'
<1>1. pc[w] = "run" /\ pc[w] \notin Calling  BY DEF Resume, Go, At, Calling
<1>2. PICK n \in Nodes : n = task[w]  BY <1>1, WorkerAt
<1>3. /\ w \in Threads /\ w \notin Clients /\ todo[w] = <<>> /\ Stage(w) = "run" /\ LocalOK(w)
      /\ Has("task", w, n) /\ Fits(n, "task", w)
    BY <1>1, <1>2, WorkerAt
<1>4. /\ pc' = [pc EXCEPT ![w] = "finish"] /\ status' = [status EXCEPT ![n] = "Running"]
      /\ UNCHANGED <<parent_graph, wait_count, down_streams, g_wait_count, queueVars,
                     task_queue, todo, workerVars>>
    BY <1>2 DEF Resume, Go
<1>5. /\ status' \in [Nodes -> {"Initing", "Running", "Finish", "Recoverable"}]
      /\ status[n] = "Initing" /\ status'[n] = "Running"
      /\ \A m \in Nodes \ {n} : status'[m] = status[m]
    BY <1>2, <1>3, <1>4 DEF PlaceInv, Types, LocalOK
<1>6. Numbered' /\ Edges' /\ WaitExact' /\ GraphExact' /\ Started'
    <2>1. Ended' = Ended  BY <1>5 DEF Ended
    <2>2. \A m \in Nodes : status'[m] # status[m] => m \in Made /\ wait_count[m] = 0
        BY <1>3, <1>5 DEF Fits
    <2> QED  BY <1>4, <2>1, <2>2, GraphsKept
<1>7. /\ pc' \in [Threads -> Points] /\ pc'[w] = "finish"
      /\ \A u \in Threads \ {w} : pc'[u] = pc[u]
    BY <1>3, <1>4 DEF PlaceInv, Types, Points, WorkerPC
<1>8. Types'  BY <1>4, <1>5, <1>7 DEF PlaceInv, Types, queueVars, ringVars, workerVars
<1>9. Calls' /\ Locals'
    <2>1. Alone(w)  BY <1>4, <1>7 DEF Alone, workerVars
    <2>2. CallOK(w)'  BY <1>3, <1>4, <1>7 DEF CallOK, Calling, Asking, Stuck
    <2>3. Stage(w)' = "finish"  BY <1>7 DEF Stage, Calling
    <2>4. LocalOK(w)'
        BY <1>2, <1>3, <1>4, <1>5, <2>3, NodeFacts DEF LocalOK, workerVars
    <2>5. \A m \in Nodes : status'[m] # status[m] => w \in Workers /\ m = task[w]
        BY <1>2, <1>5
    <2> QED  BY <1>3, <1>4, <2>1, <2>2, <2>4, <2>5, ThreadsKept
<1>10. \A m \in Nodes : \A k \in Kinds : \A x \in Owners : Has(k, x, m)' <=> Has(k, x, m)
    BY <1>4 DEF Has, Queued, InRing, Listed, queueVars, ringVars, workerVars
<1>11. Exclusive'  BY <1>10 DEF PlaceInv, Exclusive
<1>12. Released'
    <2> SUFFICES ASSUME NEW m \in Nodes, NEW k \in Kinds, NEW x \in Owners, Has(k, x, m)
                 PROVE  Fits(m, k, x)'
        BY <1>10 DEF Released, Fits
    <2>1. Fits(m, k, x)  BY AtPlace DEF PlaceInv
    <2>2. m = n => k = "task"  BY <1>3 DEF PlaceInv, Exclusive, Kinds, Owners
    <2> QED  BY <1>4, <1>5, <2>1, <2>2 DEF Fits, Made
<1>13. Once'  BY <1>4 DEF PlaceInv, Once, queueVars, ringVars
<1> QED  BY <1>6, <1>8, <1>9, <1>11, <1>12, <1>13 DEF PlaceInv

\* run_task goes on with the node that finish() returned (schedule.cpp:217-227).
LEMMA ReturnPlace ==
    ASSUME PlaceInv, NEW w \in Workers, Return(w)
    PROVE  PlaceInv'
<1>1. pc[w] = "return" /\ pc[w] \notin Calling  BY DEF Return, Go, At, Calling
<1>2. PICK r \in Nodes : r = task[w]  BY <1>1, WorkerAt
<1>3. /\ w \in Threads /\ w \notin Clients /\ todo[w] = <<>> /\ Stage(w) = "return" /\ LocalOK(w)
      /\ Has("task", w, r) /\ Fits(r, "task", w)
    BY <1>1, <1>2, WorkerAt
<1>4. PICK x \in Nodes \cup {nullptr} : x = next_task[w]  BY DEF PlaceInv, Types
<1>5. PICK to \in {"idle", "run"} : to = IF x = nullptr THEN "idle" ELSE "run"  OBVIOUS
<1>6. /\ pc' = [pc EXCEPT ![w] = to] /\ status' = [status EXCEPT ![r] = "Recoverable"]
      /\ task' = [task EXCEPT ![w] = x] /\ next_task' = [next_task EXCEPT ![w] = nullptr]
      /\ UNCHANGED <<parent_graph, wait_count, down_streams, g_wait_count, queueVars,
                     task_queue, todo, then, temp_node>>
    BY <1>2, <1>4, <1>5 DEF Return, Go
<1>7. /\ status' \in [Nodes -> {"Initing", "Running", "Finish", "Recoverable"}]
      /\ status[r] = "Finish" /\ status'[r] = "Recoverable"
      /\ \A m \in Nodes \ {r} : status'[m] = status[m]
    BY <1>2, <1>3, <1>6 DEF PlaceInv, Types, LocalOK
<1>8. x # nullptr => x \in Nodes /\ x # r /\ Has("next", w, x) /\ Fits(x, "next", w)
    <2>1. x # nullptr => x \in Nodes /\ Has("next", w, x)  BY <1>4 DEF Has
    <2>2. x # nullptr => x # r  BY <1>3, <2>1 DEF PlaceInv, Exclusive, Kinds, Owners
    <2> QED  BY <1>3, <2>1, <2>2, AtPlace DEF PlaceInv, Kinds, Owners
<1>9. Numbered' /\ Edges' /\ WaitExact' /\ GraphExact' /\ Started'
    <2>1. Ended' = Ended  BY <1>7 DEF Ended
    <2>2. \A m \in Nodes : status'[m] # status[m] => m \in Made /\ wait_count[m] = 0
        BY <1>3, <1>7 DEF Fits
    <2> QED  BY <1>6, <2>1, <2>2, GraphsKept
<1>10. /\ pc' \in [Threads -> Points] /\ pc'[w] = to
       /\ \A u \in Threads \ {w} : pc'[u] = pc[u]
    BY <1>3, <1>6 DEF PlaceInv, Types, Points, WorkerPC
<1>11. /\ task' \in [Workers -> Nodes \cup {nullptr}] /\ task'[w] = x
       /\ next_task' \in [Workers -> Nodes \cup {nullptr}] /\ next_task'[w] = nullptr
       /\ \A v \in Workers \ {w} : task'[v] = task[v] /\ next_task'[v] = next_task[v]
    BY <1>6 DEF PlaceInv, Types
<1>12. Types'  BY <1>6, <1>7, <1>10, <1>11 DEF PlaceInv, Types, queueVars, ringVars
<1>13. Calls' /\ Locals'
    <2>1. Alone(w)  BY <1>6, <1>10, <1>11 DEF Alone
    <2>2. CallOK(w)'  BY <1>3, <1>5, <1>6, <1>10 DEF CallOK, Calling, Asking, Stuck
    <2>3. Stage(w)' = to  BY <1>5, <1>10 DEF Stage, Calling
    <2>4. temp_node'[w] = nullptr  BY <1>3, <1>6 DEF LocalOK
    <2>5. x # nullptr => status'[x] = "Initing"  BY <1>7, <1>8 DEF Fits
    <2>6. LocalOK(w)'  BY <1>5, <1>8, <1>11, <2>3, <2>4, <2>5 DEF LocalOK
    <2>7. \A m \in Nodes : status'[m] # status[m] => w \in Workers /\ m = task[w]
        BY <1>2, <1>7
    <2> QED  BY <1>3, <1>6, <2>1, <2>2, <2>6, <2>7, ThreadsKept
<1>14. \A m \in Nodes : \A k \in Kinds : \A y \in Owners : Has(k, y, m)' =>
           \/ Has(k, y, m) /\ ~(k = "task" /\ y = w) /\ ~(k = "next" /\ y = w)
           \/ k = "task" /\ y = w /\ m = x
    BY <1>6, <1>11, NodeFacts DEF Has, Queued, InRing, Listed, queueVars, ringVars
<1>15. Exclusive'
    <2> SUFFICES ASSUME NEW m \in Nodes,
                        NEW k \in Kinds, NEW l \in Kinds, NEW y \in Owners, NEW z \in Owners,
                        Has(k, y, m)', Has(l, z, m)'
                 PROVE  k = l /\ y = z
        BY DEF Exclusive
    <2>1. CASE m = x
        <3>1. \A j \in Kinds : \A u \in Owners : Has(j, u, m) => j = "next" /\ u = w
            BY <1>3, <1>8, <2>1, NodeFacts DEF PlaceInv, Exclusive, Kinds, Owners
        <3> QED  BY <1>14, <3>1
    <2>2. CASE m # x  BY <1>14, <2>2 DEF PlaceInv, Exclusive
    <2> QED  BY <2>1, <2>2
<1>16. Released'
    <2> SUFFICES ASSUME NEW m \in Nodes, NEW k \in Kinds, NEW y \in Owners, Has(k, y, m)'
                 PROVE  Fits(m, k, y)'
        BY DEF Released, Fits
    <2>1. CASE k = "task" /\ y = w /\ m = x
        BY <1>6, <1>8, <2>1, NodeFacts DEF Fits, Made
    <2>2. CASE Has(k, y, m) /\ ~(k = "task" /\ y = w)
        <3>1. Fits(m, k, y)  BY <2>2, AtPlace DEF PlaceInv
        <3>2. m # r  BY <1>3, <2>2 DEF PlaceInv, Exclusive, Kinds, Owners
        <3> QED  BY <1>6, <1>7, <3>1, <3>2 DEF Fits, Made
    <2> QED  BY <1>14, <2>1, <2>2
<1>17. Once'  BY <1>6 DEF PlaceInv, Once, queueVars, ringVars
<1> QED  BY <1>9, <1>12, <1>13, <1>15, <1>16, <1>17 DEF PlaceInv

\* temp_node runs next, or is held back (graph.cpp:92-98).
LEMMA OfferPlace ==
    ASSUME PlaceInv, NEW w \in Workers, Offer(w)
    PROVE  PlaceInv'
<1>1. pc[w] = "offer" /\ pc[w] \notin Calling  BY DEF Offer, At, Calling
<1>2. /\ w \in Threads /\ w \notin Clients /\ todo[w] = <<>> /\ Stage(w) = "offer" /\ LocalOK(w)
      /\ task[w] \in Nodes
    BY <1>1, WorkerAt
<1>3. PICK z \in Nodes : z = temp_node[w] /\ limit_graph(z)
    BY <1>2 DEF LocalOK, PlaceInv, Types
<1>4. Has("temp", w, z) /\ Fits(z, "temp", w)
    BY <1>2, <1>3, AtPlace DEF Has, PlaceInv, Kinds, Owners
<1>5. /\ UNCHANGED <<nodeVars, g_wait_count, limit_queue, task_queue, task>>
      /\ temp_node' = [temp_node EXCEPT ![w] = nullptr]
      /\ then' = [then EXCEPT ![w] = "return"]
      /\ m_count' \in [Limited -> Int]
    <2>1. m_count \in [Limited -> Int]  BY DEF PlaceInv, Types
    <2>2. PICK g \in Limited : m_count' = [m_count EXCEPT ![g] = @ + 1]
        BY <1>3 DEF Offer, CountIn, limit_graph
    <2>3. m_count' \in [Limited -> Int]  BY <2>1, <2>2
    <2> QED  BY <2>3 DEF Offer, ringVars
<1>6. \/ /\ pc' = [pc EXCEPT ![w] = "return"] /\ next_task' = [next_task EXCEPT ![w] = z]
         /\ UNCHANGED todo
      \/ /\ pc' = [pc EXCEPT ![w] = "hold"] /\ todo' = [todo EXCEPT ![w] = <<z>>]
         /\ UNCHANGED next_task
    BY <1>3 DEF Offer, Go
<1>7. Numbered' /\ Edges' /\ WaitExact' /\ GraphExact' /\ Started'  BY <1>5, NodesKept
<1>8. /\ temp_node' \in [Workers -> Nodes \cup {nullptr}] /\ temp_node'[w] = nullptr
      /\ \A v \in Workers \ {w} : temp_node'[v] = temp_node[v]
      /\ then' \in [Workers -> {"return", "offer", "pass"}] /\ then'[w] = "return"
      /\ \A v \in Workers \ {w} : then'[v] = then[v]
    BY <1>5 DEF PlaceInv, Types
<1>9. next_task[w] = nullptr  BY <1>2 DEF LocalOK
<1>10. status[task[w]] = "Finish" /\ status'[task[w]] = "Finish" /\ task'[w] = task[w]
    BY <1>2, <1>5 DEF LocalOK, nodeVars
<1>11. CASE pc' = [pc EXCEPT ![w] = "return"] /\ next_task' = [next_task EXCEPT ![w] = z]
            /\ UNCHANGED todo
    <2>1. /\ pc' \in [Threads -> Points] /\ pc'[w] = "return"
          /\ \A u \in Threads \ {w} : pc'[u] = pc[u]
        BY <1>2, <1>11 DEF PlaceInv, Types, Points, WorkerPC
    <2>2. /\ next_task' \in [Workers -> Nodes \cup {nullptr}] /\ next_task'[w] = z
          /\ \A v \in Workers \ {w} : next_task'[v] = next_task[v]
        BY <1>11 DEF PlaceInv, Types
    <2>3. Types'  BY <1>5, <1>8, <1>11, <2>1, <2>2 DEF PlaceInv, Types, nodeVars
    <2>4. Calls' /\ Locals'
        <3>1. Alone(w)  BY <1>5, <1>8, <1>11, <2>1, <2>2 DEF Alone
        <3>2. CallOK(w)'  BY <1>2, <1>11, <2>1 DEF CallOK, Calling, Asking, Stuck
        <3>3. Stage(w)' = "return"  BY <2>1 DEF Stage, Calling
        <3>4. LocalOK(w)'  BY <1>2, <1>8, <1>10, <3>3, NodeFacts DEF LocalOK
        <3> QED  BY <1>2, <1>5, <3>1, <3>2, <3>4, ThreadsKept DEF nodeVars
    <2>5. Moves(z, "temp", w, "next", w)
        <3>1. \A m \in Nodes : \A k \in Kinds : \A x \in Owners : Has(k, x, m)' =>
                 (Has(k, x, m) /\ ~(m = z /\ k = "temp" /\ x = w))
                     \/ (m = z /\ k = "next" /\ x = w)
            BY <1>5, <1>8, <1>11, <2>2, NodeFacts DEF Has, Queued, InRing, Listed
        <3> QED  BY <3>1 DEF Moves, Stays
    <2>6. Fits(z, "next", w)  BY <1>4 DEF Fits
    <2>7. Exclusive' /\ Released'
        BY <1>2, <1>4, <1>5, <2>5, <2>6, MoveKept DEF PlaceInv, Kinds, Owners
    <2>8. Once'  BY <1>5, <1>11 DEF PlaceInv, Once
    <2> QED  BY <1>7, <2>3, <2>4, <2>7, <2>8 DEF PlaceInv
<1>12. CASE pc' = [pc EXCEPT ![w] = "hold"] /\ todo' = [todo EXCEPT ![w] = <<z>>]
            /\ UNCHANGED next_task
    <2>1. /\ pc' \in [Threads -> Points] /\ pc'[w] = "hold"
          /\ \A u \in Threads \ {w} : pc'[u] = pc[u]
        BY <1>2, <1>12 DEF PlaceInv, Types, Points, Calling
    <2>2. <<z>> \in Seq(Nodes) /\ ToSet(<<z>>) = {z} /\ NoRepeat(<<z>>) /\ Head(<<z>>) = z
          /\ <<z>> # <<>>
        BY ShortSets
    <2>3. /\ todo' \in [Threads -> Seq(Nodes)] /\ todo'[w] = <<z>>
          /\ \A u \in Threads \ {w} : todo'[u] = todo[u]
        BY <1>2, <1>12, <2>2 DEF PlaceInv, Types
    <2>4. Types'  BY <1>5, <1>8, <1>12, <2>1, <2>3 DEF PlaceInv, Types, nodeVars
    <2>5. Calls' /\ Locals'
        <3>1. Alone(w)  BY <1>5, <1>8, <1>12, <2>1, <2>3 DEF Alone
        <3>2. CallOK(w)'
            BY <1>2, <1>3, <1>5, <2>1, <2>2, <2>3
               DEF CallOK, Calling, Asking, Stuck, limit_graph, nodeVars
        <3>3. Stage(w)' = "return"  BY <1>8, <2>1 DEF Stage, Calling
        <3>4. LocalOK(w)'
            BY <1>2, <1>8, <1>9, <1>10, <1>12, <3>3, NodeFacts DEF LocalOK
        <3> QED  BY <1>2, <1>5, <3>1, <3>2, <3>4, ThreadsKept DEF nodeVars
    <2>6. \A u \in Threads, m \in Nodes :
             Listed(u, m)' <=> IF u = w THEN m = z ELSE Listed(u, m)
        BY <2>2, <2>3 DEF Listed
    <2>7. Moves(z, "temp", w, "todo", w)
        <3>1. \A m \in Nodes : \A k \in Kinds : \A x \in Owners : Has(k, x, m)' =>
                 (Has(k, x, m) /\ ~(m = z /\ k = "temp" /\ x = w))
                     \/ (m = z /\ k = "todo" /\ x = w)
            BY <1>5, <1>8, <1>12, <2>6, NodeFacts DEF Has, Queued, InRing
        <3> QED  BY <3>1 DEF Moves, Stays
    <2>8. Fits(z, "todo", w)  BY <1>4 DEF Fits
    <2>9. Exclusive' /\ Released'
        BY <1>2, <1>4, <1>5, <2>7, <2>8, MoveKept DEF PlaceInv, Kinds, Owners
    <2>10. Once'
        <3>1. \A u \in Threads : NoRepeat(todo[u])'
            BY <2>2, <2>3 DEF PlaceInv, Once, NoRepeat
        <3> QED  BY <1>5, <3>1 DEF PlaceInv, Once
    <2> QED  BY <1>7, <2>4, <2>5, <2>9, <2>10 DEF PlaceInv
<1> QED  BY <1>6, <1>11, <1>12

\* SelfQueue::try_dequeue takes the count down (graph.cpp:31-33).
LEMMA PassPlace ==
    ASSUME PlaceInv, NEW w \in Workers, Pass(w)
    PROVE  PlaceInv'
<1>1. pc[w] = "pass" /\ pc[w] \notin Calling  BY DEF Pass, At, Calling
<1>2. /\ w \in Threads /\ w \notin Clients /\ todo[w] = <<>> /\ Stage(w) = "pass" /\ LocalOK(w)
      /\ task[w] \in Nodes
    BY <1>1, WorkerAt
<1>3. PICK z \in Nodes \cup {nullptr} : z = temp_node[w]  BY DEF PlaceInv, Types
<1>4. /\ UNCHANGED <<nodeVars, g_wait_count, limit_queue, task_queue, todo, then, task>>
      /\ m_count' \in [Limited -> Int]
    <2>1. m_count \in [Limited -> Int]  BY DEF PlaceInv, Types
    <2>2. PICK g \in Limited : m_count' = [m_count EXCEPT ![g] = @ - 1]
        BY <1>2 DEF Pass, LocalOK, limit_graph
    <2>3. m_count' \in [Limited -> Int]  BY <2>1, <2>2
    <2> QED  BY <2>3 DEF Pass, ringVars
<1>5. \/ pc' = [pc EXCEPT ![w] = "take"] /\ UNCHANGED <<next_task, temp_node>>
      \/ /\ pc' = [pc EXCEPT ![w] = "return"]
         /\ next_task' = [next_task EXCEPT ![w] = z]
         /\ temp_node' = [temp_node EXCEPT ![w] = nullptr]
    BY <1>3 DEF Pass, Go
<1>6. Numbered' /\ Edges' /\ WaitExact' /\ GraphExact' /\ Started'  BY <1>4, NodesKept
<1>7. status[task[w]] = "Finish" /\ status'[task[w]] = "Finish" /\ task'[w] = task[w]
    BY <1>2, <1>4 DEF LocalOK, nodeVars
<1>8. Once'  BY <1>4 DEF PlaceInv, Once
<1>9. CASE pc' = [pc EXCEPT ![w] = "take"] /\ UNCHANGED <<next_task, temp_node>>
    <2>1. /\ pc' \in [Threads -> Points] /\ pc'[w] = "take"
          /\ \A u \in Threads \ {w} : pc'[u] = pc[u]
        BY <1>2, <1>9 DEF PlaceInv, Types, Points, WorkerPC
    <2>2. Types'  BY <1>4, <1>9, <2>1 DEF PlaceInv, Types, nodeVars
    <2>3. Calls' /\ Locals'
        <3>1. Alone(w)  BY <1>4, <1>9, <2>1 DEF Alone
        <3>2. CallOK(w)'  BY <1>2, <1>4, <2>1 DEF CallOK, Calling, Asking, Stuck
        <3>3. Stage(w)' = "take"  BY <2>1 DEF Stage, Calling
        <3>4. LocalOK(w)'
            BY <1>2, <1>4, <1>7, <1>9, <3>3 DEF LocalOK, limit_graph, nodeVars
        <3> QED  BY <1>2, <1>4, <3>1, <3>2, <3>4, ThreadsKept DEF nodeVars
    <2>4. \A m \in Nodes : Stays(m)
        BY <1>4, <1>9 DEF Stays, Has, Queued, InRing, Listed
    <2>5. Exclusive' /\ Released'  BY <1>4, <2>4, PlacesKept DEF PlaceInv
    <2> QED  BY <1>6, <1>8, <2>2, <2>3, <2>5 DEF PlaceInv
<1>10. CASE /\ pc' = [pc EXCEPT ![w] = "return"]
            /\ next_task' = [next_task EXCEPT ![w] = z]
            /\ temp_node' = [temp_node EXCEPT ![w] = nullptr]
    <2>1. /\ pc' \in [Threads -> Points] /\ pc'[w] = "return"
          /\ \A u \in Threads \ {w} : pc'[u] = pc[u]
        BY <1>2, <1>10 DEF PlaceInv, Types, Points, WorkerPC
    <2>2. /\ next_task' \in [Workers -> Nodes \cup {nullptr}] /\ next_task'[w] = z
          /\ temp_node' \in [Workers -> Nodes \cup {nullptr}] /\ temp_node'[w] = nullptr
          /\ \A v \in Workers \ {w} :
                next_task'[v] = next_task[v] /\ temp_node'[v] = temp_node[v]
        BY <1>10 DEF PlaceInv, Types
    <2>3. Types'  BY <1>4, <2>1, <2>2 DEF PlaceInv, Types, nodeVars
    <2>4. Calls' /\ Locals'
        <3>1. Alone(w)  BY <1>4, <2>1, <2>2 DEF Alone
        <3>2. CallOK(w)'  BY <1>2, <1>4, <2>1 DEF CallOK, Calling, Asking, Stuck
        <3>3. Stage(w)' = "return"  BY <2>1 DEF Stage, Calling
        <3>4. LocalOK(w)'  BY <1>2, <1>7, <2>2, <3>3, NodeFacts DEF LocalOK
        <3> QED  BY <1>2, <1>4, <3>1, <3>2, <3>4, ThreadsKept DEF nodeVars
    <2>5. \A m \in Nodes : \A k \in Kinds : \A x \in Owners : Has(k, x, m)' =>
             (Has(k, x, m) /\ ~(m = z /\ k = "temp" /\ x = w))
                 \/ (m = z /\ k = "next" /\ x = w)
        BY <1>3, <1>4, <2>2, NodeFacts DEF Has, Queued, InRing, Listed
    <2>6. CASE z = nullptr
        <3>1. \A m \in Nodes : Stays(m)  BY <2>5, <2>6, NodeFacts DEF Stays
        <3>2. Exclusive' /\ Released'  BY <1>4, <3>1, PlacesKept DEF PlaceInv
        <3> QED  BY <1>6, <1>8, <2>3, <2>4, <3>2 DEF PlaceInv
    <2>7. CASE z \in Nodes
        <3>1. Moves(z, "temp", w, "next", w)  BY <2>5, <2>7 DEF Moves, Stays
        <3>2. Has("temp", w, z) /\ Fits(z, "temp", w)
            BY <1>2, <1>3, <2>7, AtPlace DEF Has, PlaceInv, Kinds, Owners
        <3>3. Fits(z, "next", w)  BY <3>2 DEF Fits
        <3>4. Exclusive' /\ Released'
            BY <1>2, <1>4, <2>7, <3>1, <3>2, <3>3, MoveKept DEF PlaceInv, Kinds, Owners
        <3> QED  BY <1>6, <1>8, <2>3, <2>4, <3>4 DEF PlaceInv
    <2> QED  BY <2>6, <2>7
<1> QED  BY <1>5, <1>9, <1>10

\* The worker gets the position of a held node (graph.cpp:33-34, free_lock.cpp:57-69).
LEMMA TakePlace ==
    ASSUME PlaceInv, NEW w \in Workers, Take(w)
    PROVE  PlaceInv'
<1>1. pc[w] = "take" /\ pc[w] \notin Calling  BY DEF Take, Go, At, Calling
<1>2. /\ w \in Threads /\ w \notin Clients /\ todo[w] = <<>> /\ Stage(w) = "take" /\ LocalOK(w)
      /\ task[w] \in Nodes
    BY <1>1, WorkerAt
<1>3. PICK g \in Limited : g = parent_graph[task[w]]  BY <1>2 DEF LocalOK, limit_graph
<1>4. limit_queue[g] \in Seq(Nodes) /\ limit_queue[g] # <<>> /\ NoRepeat(limit_queue[g])
    BY <1>3 DEF Take, PlaceInv, Types, Once
<1>5. PICK x \in Nodes : x = Head(limit_queue[g])  BY <1>4, TailSet
<1>6. /\ x \in ToSet(limit_queue[g]) /\ Tail(limit_queue[g]) \in Seq(Nodes)
      /\ NoRepeat(Tail(limit_queue[g])) /\ ToSet(Tail(limit_queue[g])) = ToSet(limit_queue[g]) \ {x}
    BY <1>4, <1>5, TailSet
<1>7. Has("ring", g, x) /\ Fits(x, "ring", g)
    BY <1>6, AtPlace DEF Has, InRing, PlaceInv, Kinds, Owners
<1>8. /\ UNCHANGED <<nodeVars, g_wait_count, m_count, task_queue, todo, then, task, temp_node>>
      /\ pc' = [pc EXCEPT ![w] = "get"]
      /\ next_task' = [next_task EXCEPT ![w] = x]
      /\ limit_queue' = [limit_queue EXCEPT ![g] = Tail(@)]
    BY <1>3, <1>5 DEF Take, Go
<1>9. Numbered' /\ Edges' /\ WaitExact' /\ GraphExact' /\ Started'  BY <1>8, NodesKept
<1>10. /\ next_task' \in [Workers -> Nodes \cup {nullptr}] /\ next_task'[w] = x
       /\ \A v \in Workers \ {w} : next_task'[v] = next_task[v]
    BY <1>8 DEF PlaceInv, Types
<1>11. /\ limit_queue' \in [Limited -> Seq(Nodes)] /\ limit_queue'[g] = Tail(limit_queue[g])
       /\ \A f \in Limited \ {g} : limit_queue'[f] = limit_queue[f]
    BY <1>6, <1>8 DEF PlaceInv, Types
<1>12. /\ pc' \in [Threads -> Points] /\ pc'[w] = "get"
       /\ \A u \in Threads \ {w} : pc'[u] = pc[u]
    BY <1>2, <1>8 DEF PlaceInv, Types, Points, WorkerPC
<1>13. Types'  BY <1>8, <1>10, <1>11, <1>12 DEF PlaceInv, Types, nodeVars
<1>14. Calls' /\ Locals'
    <2>1. Alone(w)  BY <1>8, <1>10, <1>12 DEF Alone
    <2>2. CallOK(w)'  BY <1>2, <1>8, <1>12 DEF CallOK, Calling, Asking, Stuck
    <2>3. Stage(w)' = "get"  BY <1>12 DEF Stage, Calling
    <2>4. LocalOK(w)'  BY <1>2, <1>8, <1>10, <2>3, NodeFacts DEF LocalOK, nodeVars
    <2> QED  BY <1>2, <1>8, <2>1, <2>2, <2>4, ThreadsKept DEF nodeVars
<1>15. \A f \in Limited, m \in Nodes : InRing(f, m)' => InRing(f, m) /\ ~(f = g /\ m = x)
    BY <1>6, <1>11 DEF InRing
<1>16. Moves(x, "ring", g, "next", w)
    <2>1. \A m \in Nodes : \A k \in Kinds : \A y \in Owners : Has(k, y, m)' =>
             (Has(k, y, m) /\ ~(m = x /\ k = "ring" /\ y = g))
                 \/ (m = x /\ k = "next" /\ y = w)
        BY <1>8, <1>10, <1>15, NodeFacts DEF Has, Queued, Listed
    <2> QED  BY <2>1 DEF Moves, Stays
<1>17. Fits(x, "next", w)  BY <1>7 DEF Fits
<1>18. Exclusive' /\ Released'
    BY <1>2, <1>7, <1>8, <1>16, <1>17, MoveKept DEF PlaceInv, Kinds, Owners
<1>19. Once'
    <2>1. \A f \in Limited : NoRepeat(limit_queue[f])'
        BY <1>6, <1>11 DEF PlaceInv, Once, NoRepeat
    <2> QED  BY <1>8, <2>1 DEF PlaceInv, Once
<1> QED  BY <1>9, <1>13, <1>14, <1>18, <1>19 DEF PlaceInv

\* The worker has the node, and temp_node is made ready (graph.cpp:130-133).
LEMMA GetPlace ==
    ASSUME PlaceInv, NEW w \in Workers, Get(w)
    PROVE  PlaceInv'
<1>1. pc[w] = "get" /\ pc[w] \notin Calling  BY DEF Get, Go, At, Calling
<1>2. /\ w \in Threads /\ w \notin Clients /\ todo[w] = <<>> /\ Stage(w) = "get" /\ LocalOK(w)
      /\ task[w] \in Nodes
    BY <1>1, WorkerAt
<1>3. PICK z \in Nodes \cup {nullptr} : z = temp_node[w]  BY DEF PlaceInv, Types
<1>4. z # nullptr => z \in Nodes /\ Has("temp", w, z) /\ Fits(z, "temp", w)
    <2>1. z # nullptr => z \in Nodes /\ Has("temp", w, z)  BY <1>3 DEF Has
    <2> QED  BY <1>2, <2>1, AtPlace DEF PlaceInv, Kinds, Owners
<1>5. /\ UNCHANGED <<nodeVars, g_wait_count, m_count, limit_queue, task_queue, task, next_task>>
      /\ temp_node' = [temp_node EXCEPT ![w] = nullptr]
      /\ then' = [then EXCEPT ![w] = "return"]
    BY DEF Get, queueVars, ringVars
<1>6. PICK to \in {"ready", "return"} :
          /\ pc' = [pc EXCEPT ![w] = to]
          /\ to = "ready" => z # nullptr /\ todo' = [todo EXCEPT ![w] = <<z>>]
          /\ to = "return" => z = nullptr /\ UNCHANGED todo
    BY <1>3 DEF Get, Go
<1>7. Numbered' /\ Edges' /\ WaitExact' /\ GraphExact' /\ Started'  BY <1>5, NodesKept
<1>8. /\ temp_node' \in [Workers -> Nodes \cup {nullptr}] /\ temp_node'[w] = nullptr
      /\ then' \in [Workers -> {"return", "offer", "pass"}] /\ then'[w] = "return"
      /\ \A v \in Workers \ {w} : temp_node'[v] = temp_node[v] /\ then'[v] = then[v]
    BY <1>5 DEF PlaceInv, Types
<1>9. /\ pc' \in [Threads -> Points] /\ pc'[w] = to
      /\ \A u \in Threads \ {w} : pc'[u] = pc[u]
    BY <1>2, <1>6 DEF PlaceInv, Types, Points, WorkerPC, Calling
<1>10. z # nullptr => /\ <<z>> \in Seq(Nodes) /\ ToSet(<<z>>) = {z} /\ NoRepeat(<<z>>)
                      /\ <<z>> # <<>>
    BY <1>4, ShortSets
<1>11. /\ todo' \in [Threads -> Seq(Nodes)] /\ \A u \in Threads \ {w} : todo'[u] = todo[u]
       /\ NoRepeat(todo'[w]) /\ ToSet(todo'[w]) = IF z = nullptr THEN {} ELSE {z}
       /\ to = "ready" <=> todo'[w] # <<>>
    <2>1. CASE to = "ready"
        <3>1. todo' \in [Threads -> Seq(Nodes)] /\ todo'[w] = <<z>>
              /\ \A u \in Threads \ {w} : todo'[u] = todo[u]
            BY <1>2, <1>6, <1>10, <2>1 DEF PlaceInv, Types
        <3> QED  BY <1>6, <1>10, <2>1, <3>1
    <2>2. CASE to = "return"
        BY <1>2, <1>6, <2>2, ShortSets DEF PlaceInv, Types
    <2> QED  BY <2>1, <2>2
<1>12. Types'  BY <1>5, <1>8, <1>9, <1>11 DEF PlaceInv, Types, nodeVars
<1>13. Calls' /\ Locals'
    <2>1. Alone(w)  BY <1>5, <1>8, <1>9, <1>11 DEF Alone
    <2>2. CallOK(w)'  BY <1>2, <1>9, <1>11 DEF CallOK, Calling, Asking, Stuck
    <2>3. Stage(w)' = "return"  BY <1>8, <1>9 DEF Stage, Calling
    <2>4. status[task[w]] = "Finish" /\ status'[task[w]] = "Finish" /\ task'[w] = task[w]
        BY <1>2, <1>5 DEF LocalOK, nodeVars
    <2>5. LocalOK(w)'  BY <1>2, <1>8, <2>3, <2>4, NodeFacts DEF LocalOK
    <2> QED  BY <1>2, <1>5, <2>1, <2>2, <2>5, ThreadsKept DEF nodeVars
<1>14. \A u \in Threads, m \in Nodes :
          Listed(u, m)' => (u # w /\ Listed(u, m)) \/ (u = w /\ z # nullptr /\ m = z)
    BY <1>11 DEF Listed
<1>15. \A m \in Nodes : \A k \in Kinds : \A y \in Owners : Has(k, y, m)' =>
           \/ Has(k, y, m) /\ ~(k = "temp" /\ y = w)
           \/ k = "todo" /\ y = w /\ m = z
    BY <1>5, <1>8, <1>14, NodeFacts DEF Has, Queued, InRing
<1>16. \A m \in Nodes : Stays(m) \/ \E k, y : Lands(m, k, y) /\ Fits(m, k, y)
    <2> TAKE m \in Nodes
    <2>1. CASE m = z
        <3>1. m # nullptr  BY NodeFacts
        <3>2. \A k \in Kinds : \A y \in Owners : Has(k, y, m) => k = "temp" /\ y = w
            BY <1>2, <1>4, <2>1, <3>1 DEF PlaceInv, Exclusive, Kinds, Owners
        <3>3. Lands(m, "todo", w)  BY <1>15, <2>1, <3>2 DEF Lands
        <3>4. Fits(m, "todo", w)  BY <1>4, <2>1, <3>1 DEF Fits
        <3> QED  BY <3>3, <3>4
    <2>2. CASE m # z  BY <1>15, <2>2 DEF Stays
    <2> QED  BY <2>1, <2>2
<1>17. Exclusive' /\ Released'  BY <1>5, <1>16, PlacesKept DEF PlaceInv
<1>18. Once'
    <2>1. \A u \in Threads : NoRepeat(todo[u])'
        BY <1>11 DEF PlaceInv, Once, NoRepeat
    <2> QED  BY <1>5, <2>1 DEF PlaceInv, Once
<1> QED  BY <1>7, <1>12, <1>13, <1>17, <1>18 DEF PlaceInv

-----------------------------------------------------------------------------
(* create_edges *)

\* The number of the next node is new, and nothing refers to it.
LEMMA NewNode ==
    ASSUME PlaceInv, NEW n \in Nodes, n = Cardinality(Made) + 1
    PROVE  /\ n \notin Made /\ status[n] = "Initing" /\ wait_count[n] = 0
           /\ \A r \in Nodes : n \notin ToSet(down_streams[r])
           /\ \A k \in Kinds : \A x \in Owners : ~Has(k, x, n)
           /\ Made \cup {n} = 1 .. Cardinality(Made \cup {n})
<1>1. IsFiniteSet(Made)  BY NodeFacts, FS_Subset DEF Made
<1>2. Cardinality(Made) \in Nat  BY <1>1, FS_CardinalityType
<1>3. n \notin Made  BY <1>2 DEF PlaceInv, Numbered
<1>4. Cardinality(Made \cup {n}) = Cardinality(Made) + 1  BY <1>1, <1>3, FS_AddElement
<1>5. Made \cup {n} = 1 .. Cardinality(Made \cup {n})
    <2>1. PICK k \in Nat : k = Cardinality(Made)  BY <1>2
    <2>2. Made = 1 .. k  BY <2>1 DEF PlaceInv, Numbered
    <2>3. n = k + 1  BY <2>1
    <2>4. (1 .. k) \cup {n} = 1 .. k + 1  BY ONLY k \in Nat, <2>3
    <2> QED  BY <1>4, <2>1, <2>2, <2>4
<1>6. \A r \in Nodes : n \notin ToSet(down_streams[r])  BY <1>3 DEF PlaceInv, Edges
<1>7. \A k \in Kinds : \A x \in Owners : ~Has(k, x, n)
    BY <1>3, AtPlace DEF PlaceInv, Fits
<1>8. wait_count[n] = 0
    <2>1. Open(n) = {}  BY <1>6 DEF Open
    <2> QED  BY <2>1, FS_EmptySet DEF PlaceInv, WaitExact
<1> QED  BY <1>3, <1>5, <1>6, <1>7, <1>8 DEF PlaceInv, Edges

\* Graph::create_edges (graph.cpp:292-335).
LEMMA CreatePlace ==
    ASSUME PlaceInv, NEW c \in Clients, NEW g \in Graphs, NEW required \in SUBSET Made,
           create_edges(c, g, required)
    PROVE  PlaceInv'
<1>1. PICK n \in Nodes : n = Cardinality(Made) + 1  BY DEF create_edges
<1>2. PICK open \in SUBSET Made : open = required \ Ended  OBVIOUS
<1>3. /\ n \notin Made /\ status[n] = "Initing" /\ wait_count[n] = 0
      /\ \A r \in Nodes : n \notin ToSet(down_streams[r])
      /\ \A k \in Kinds : \A x \in Owners : ~Has(k, x, n)
      /\ Made \cup {n} = 1 .. Cardinality(Made \cup {n})
    BY <1>1, NewNode
<1>4. /\ pc[c] = "idle"
      /\ parent_graph' = [parent_graph EXCEPT ![n] = g]
      /\ g_wait_count' = [g_wait_count EXCEPT ![g] = @ + 1]
      /\ wait_count' = [wait_count EXCEPT ![n] = Cardinality(open)]
      /\ down_streams' = [r \in Nodes |->
             IF r \in open THEN Append(down_streams[r], n) ELSE down_streams[r]]
      /\ \/ open = {} /\ pc' = [pc EXCEPT ![c] = "ready"] /\ todo' = [todo EXCEPT ![c] = <<n>>]
         \/ open # {} /\ UNCHANGED <<pc, todo>>
      /\ UNCHANGED <<status, queueVars, task_queue, workerVars>>
    BY <1>1, <1>2 DEF create_edges, At
<1>5. /\ c \in Threads /\ c \notin Workers /\ todo[c] = <<>>
      /\ open \subseteq Nodes /\ IsFiniteSet(open) /\ Cardinality(open) \in Nat
    <2>1. c \in Threads /\ c \notin Workers  BY ThreadAssumption DEF Threads
    <2>2. todo[c] = <<>>  BY <1>4, <2>1 DEF PlaceInv, Calls, CallOK, Calling
    <2>3. open \subseteq Nodes  BY DEF Made
    <2>4. IsFiniteSet(open)  BY <2>3, NodeFacts, FS_Subset
    <2> QED  BY <2>1, <2>2, <2>3, <2>4, FS_CardinalityType
<1>6. /\ parent_graph' \in [Nodes -> Graphs \cup {nullptr}] /\ parent_graph'[n] = g
      /\ \A m \in Nodes \ {n} : parent_graph'[m] = parent_graph[m]
      /\ g_wait_count' \in [Graphs -> Int]
      /\ wait_count' \in [Nodes -> Int] /\ wait_count'[n] = Cardinality(open)
      /\ \A m \in Nodes \ {n} : wait_count'[m] = wait_count[m]
    BY <1>4, <1>5 DEF PlaceInv, Types
<1>7. \A r \in Nodes :
          /\ down_streams'[r] \in Seq(Nodes) /\ NoRepeat(down_streams'[r])
          /\ ToSet(down_streams'[r]) =
                 ToSet(down_streams[r]) \cup (IF r \in open THEN {n} ELSE {})
    <2> TAKE r \in Nodes
    <2>1. down_streams[r] \in Seq(Nodes) /\ NoRepeat(down_streams[r])
        BY DEF PlaceInv, Types, Edges
    <2>2. CASE r \in open
        <3>1. down_streams'[r] = Append(down_streams[r], n)  BY <1>4, <2>2
        <3> QED  BY <1>3, <2>1, <2>2, <3>1, AppendSet
    <2>3. CASE r \notin open
        <3>1. down_streams'[r] = down_streams[r]  BY <1>4, <2>3
        <3> QED  BY <2>1, <2>3, <3>1
    <2> QED  BY <2>2, <2>3
<1>8. /\ todo' \in [Threads -> Seq(Nodes)] /\ pc' \in [Threads -> Points]
      /\ \A u \in Threads \ {c} : pc'[u] = pc[u] /\ todo'[u] = todo[u]
      /\ NoRepeat(todo'[c]) /\ CallOK(c)'
      /\ ToSet(todo'[c]) = IF open = {} THEN {n} ELSE {}
    <2>1. /\ todo \in [Threads -> Seq(Nodes)] /\ pc \in [Threads -> Points]
          /\ "ready" \in Points /\ <<n>> \in Seq(Nodes)
        BY ShortSets DEF PlaceInv, Types, Points, Calling
    <2>2. CASE open = {}
        <3>1. /\ pc' = [pc EXCEPT ![c] = "ready"] /\ todo' = [todo EXCEPT ![c] = <<n>>]
            BY <1>4, <2>2
        <3>2. pc'[c] = "ready" /\ todo'[c] = <<n>>  BY <1>5, <2>1, <3>1
        <3>3. CallOK(c)'  BY <3>2, ShortSets DEF CallOK, Calling, Asking, Stuck
        <3> QED  BY <1>5, <2>1, <2>2, <3>1, <3>2, <3>3, ShortSets
    <2>3. CASE open # {}
        <3>1. UNCHANGED <<pc, todo>>  BY <1>4, <2>3
        <3>2. CallOK(c)'  BY <1>4, <1>5, <3>1 DEF CallOK, Calling, Asking, Stuck
        <3> QED  BY <1>5, <2>1, <2>3, <3>1, <3>2, ShortSets
    <2> QED  BY <2>2, <2>3
<1>9. Types'
    <2>1. down_streams' \in [Nodes -> Seq(Nodes)]  BY <1>4, <1>7
    <2> QED  BY <1>4, <1>6, <1>8, <2>1 DEF PlaceInv, Types, queueVars, ringVars, workerVars
<1>10. Made' = Made \cup {n} /\ Ended' = Ended
    <2>1. g # nullptr  BY GraphAssumption
    <2> QED  BY <1>4, <1>6, <2>1 DEF Made, Ended
<1>11. Numbered'  BY <1>3, <1>10 DEF Numbered
<1>12. Edges'
    <2>1. \A r \in Nodes : ToSet(down_streams[r]) \subseteq Made
        BY DEF PlaceInv, Edges
    <2>2. \A r \in Nodes \ Made : status[r] = "Initing"  BY DEF PlaceInv, Edges
    <2> QED  BY <1>4, <1>7, <1>10, <2>1, <2>2 DEF Edges
<1>13. WaitExact'
    <2>1. Open(n)' = open
        <3>1. \A r \in open : r \in Nodes \ Ended  BY <1>2, <1>5
        <3> QED  BY <1>3, <1>7, <1>10, <3>1 DEF Open
    <2>2. \A d \in Nodes \ {n} : Open(d)' = Open(d)
        BY <1>7, <1>10 DEF Open
    <2> QED  BY <1>6, <2>1, <2>2 DEF PlaceInv, WaitExact
<1>14. GraphExact'
    <2> SUFFICES ASSUME NEW f \in Graphs
                 PROVE  g_wait_count'[f] = Cardinality(Unfinished(f)')
        BY DEF GraphExact
    <2>1. g_wait_count[f] = Cardinality(Unfinished(f))  BY DEF PlaceInv, GraphExact
    <2>2. n \notin Ended /\ parent_graph[n] = nullptr /\ nullptr \notin Graphs
        BY <1>3, GraphAssumption DEF Ended, Made
    <2>3. CASE f = g
        <3>1. Unfinished(f)' = Unfinished(f) \cup {n} /\ n \notin Unfinished(f)
            BY <1>6, <1>10, <2>2, <2>3 DEF Unfinished
        <3>2. IsFiniteSet(Unfinished(f))  BY NodeFacts, FS_Subset DEF Unfinished
        <3>3. Cardinality(Unfinished(f)') = Cardinality(Unfinished(f)) + 1
            BY <3>1, <3>2, FS_AddElement
        <3>4. g_wait_count'[f] = g_wait_count[f] + 1
            BY <1>4, <2>3 DEF PlaceInv, Types
        <3> QED  BY <2>1, <3>3, <3>4
    <2>4. CASE f # g
        <3>1. Unfinished(f)' = Unfinished(f)
            BY <1>6, <1>10, <2>2, <2>4 DEF Unfinished
        <3>2. g_wait_count'[f] = g_wait_count[f]  BY <1>4, <2>4 DEF PlaceInv, Types
        <3> QED  BY <2>1, <3>1, <3>2
    <2> QED  BY <2>3, <2>4
<1>15. Started'  BY <1>3, <1>4, <1>6 DEF PlaceInv, Started
<1>16. \A m \in Nodes : \A k \in Kinds : \A x \in Owners : Has(k, x, m) => m \in Made /\ m # n
    BY <1>3, AtPlace DEF PlaceInv, Fits
<1>17. \A m \in Nodes : \A k \in Kinds : \A x \in Owners : Has(k, x, m)' =>
           \/ Has(k, x, m)
           \/ open = {} /\ k = "todo" /\ x = c /\ m = n
    <2>1. \A u \in Threads, m \in Nodes :
              Listed(u, m)' => Listed(u, m) \/ (open = {} /\ u = c /\ m = n)
        BY <1>8 DEF Listed
    <2> QED  BY <1>4, <2>1 DEF Has, Queued, InRing, queueVars, ringVars, workerVars
<1>18. Exclusive'  BY <1>3, <1>17 DEF PlaceInv, Exclusive
<1>19. Released'
    <2> SUFFICES ASSUME NEW m \in Nodes, NEW k \in Kinds, NEW x \in Owners, Has(k, x, m)'
                 PROVE  Fits(m, k, x)'
        BY DEF Released, Fits
    <2>1. CASE Has(k, x, m)
        <3>1. Fits(m, k, x)  BY <2>1, AtPlace DEF PlaceInv
        <3> QED  BY <1>4, <1>6, <1>10, <1>16, <2>1, <3>1 DEF Fits
    <2>2. CASE open = {} /\ k = "todo" /\ m = n
        <3>1. wait_count'[n] = 0  BY <1>6, <2>2, FS_EmptySet
        <3> QED  BY <1>3, <1>4, <1>10, <2>2, <3>1 DEF Fits
    <2> QED  BY <1>17, <2>1, <2>2
<1>20. Once'
    <2>1. \A u \in Threads : NoRepeat(todo[u])'
        BY <1>8 DEF PlaceInv, Once, NoRepeat
    <2> QED  BY <1>4, <2>1 DEF PlaceInv, Once, queueVars, ringVars
<1>21. Calls'
    <2> SUFFICES ASSUME NEW u \in Threads, u # c PROVE CallOK(u)'  BY <1>8 DEF Calls
    <2>1. CallOK(u) /\ pc'[u] = pc[u] /\ todo'[u] = todo[u]  BY <1>8 DEF PlaceInv, Calls
    <2>2. Stuck(u) => Head(todo[u]) \in Nodes /\ Has("todo", u, Head(todo[u]))
        BY InCall DEF Stuck, Asking
    <2>3. Stuck(u) => Head(todo[u]) \in Nodes \ {n}
        BY <1>16, <2>2 DEF Kinds, Owners
    <2> QED  BY <1>6, <2>1, <2>3 DEF CallOK, Stuck, limit_graph
<1>22. Locals'
    <2> SUFFICES ASSUME NEW w \in Workers PROVE LocalOK(w)'  BY DEF Locals
    <2>1. LocalOK(w) /\ w \in Threads /\ w # c  BY <1>5 DEF PlaceInv, Locals, Threads
    <2>2. Stage(w)' = Stage(w)  BY <1>4, <1>8, <2>1 DEF Stage, workerVars
    <2>3. \A m \in {task[w], temp_node[w]} : m = nullptr \/ m \in Nodes \ {n}
        <3>1. \A m \in {task[w], temp_node[w]} : m = nullptr \/ m \in Nodes
            BY DEF PlaceInv, Types
        <3>2. Has("task", w, task[w]) /\ Has("temp", w, temp_node[w])  BY DEF Has
        <3> QED  BY <1>16, <2>1, <3>1, <3>2 DEF Kinds, Owners
    <2>4. Stage(w) # "idle" => task[w] \in Nodes \ {n}  BY <2>1, <2>3 DEF LocalOK
    <2>5. temp_node[w] # nullptr => Stage(w) # "idle" /\ temp_node[w] \in Nodes \ {n}
        BY <2>1, <2>3 DEF LocalOK
    <2>6. task[w] \in Nodes => ToSet(down_streams[task[w]]) \subseteq ToSet(down_streams'[task[w]])
        BY <1>7
    <2> QED  BY <1>4, <1>6, <2>1, <2>2, <2>4, <2>5, <2>6 DEF LocalOK, limit_graph, workerVars
<1> QED  BY <1>9, <1>11, <1>12, <1>13, <1>14, <1>15, <1>18, <1>19, <1>20, <1>21, <1>22
         DEF PlaceInv

-----------------------------------------------------------------------------
(* Node::finish and Graph::finish *)

\* A function on 1 .. m is a sequence.
LEMMA FunctionIsSeq ==
    ASSUME NEW S, NEW m \in Nat, NEW s \in [1 .. m -> S]
    PROVE  s \in Seq(S)
OBVIOUS

\* Node::finish notes nodes that wait for nothing else, each once.
LEMMA NotifiedFacts ==
    ASSUME PlaceInv, NEW n \in Nodes, NEW ns \in Notified(n)
    PROVE  /\ ns \in Seq(Nodes) /\ NoRepeat(ns)
           /\ \A d \in ToSet(ns) : d \in ToSet(down_streams[n]) /\ wait_count[d] = 1
<1>1. PICK ds \in Seq(Nodes) : ds = down_streams[n] /\ NoRepeat(ds)
    BY DEF PlaceInv, Types, Edges
<1>2. PICK one : one = {i \in DOMAIN ds : wait_count[ds[i]] = 1}  OBVIOUS
<1>3. DOMAIN ds = 1 .. Len(ds) /\ Len(ds) \in Nat /\ one \subseteq 1 .. Len(ds)  BY <1>2
<1>4. PICK m \in Nat : m = Cardinality(one)
    <2>1. IsFiniteSet(1 .. Len(ds))  BY <1>3, FS_Interval
    <2>2. IsFiniteSet(one)  BY <1>3, <2>1, FS_Subset
    <2> QED  BY <2>2, FS_CardinalityType
<1>5. PICK order \in [1 .. m -> one] :
          /\ ns = [j \in DOMAIN order |-> ds[order[j]]]
          /\ \A i, j \in DOMAIN order : i < j => Precedes(n, order[i], order[j])
    BY <1>1, <1>2, <1>4 DEF Notified
<1>6. \A i \in 1 .. m : ns[i] = ds[order[i]] /\ order[i] \in one  BY <1>5
<1>7. \A i \in one : ds[i] \in Nodes /\ ds[i] \in ToSet(ds) /\ wait_count[ds[i]] = 1
    BY <1>1, <1>2 DEF ToSet
<1>8. ns \in [1 .. m -> Nodes] /\ DOMAIN ns = 1 .. m  BY <1>5, <1>6, <1>7
<1>9. ns \in Seq(Nodes)  BY <1>8, FunctionIsSeq
<1>10. ASSUME NEW i \in 1 .. m, NEW j \in 1 .. m, ns[i] = ns[j] PROVE i = j
    <2>1. order[i] = order[j]
        <3>1. order[i] \in DOMAIN ds /\ order[j] \in DOMAIN ds /\ ds[order[i]] = ds[order[j]]
            BY <1>2, <1>6, <1>10
        <3> QED  BY <1>1, <3>1 DEF NoRepeat
    <2>2. order[i] \in Int /\ order[j] \in Int /\ DOMAIN order = 1 .. m  BY <1>2, <1>5
    <2>3. ~Precedes(n, order[i], order[i])  BY <2>2 DEF Precedes
    <2>4. ~(i < j) /\ ~(j < i)  BY <1>5, <2>1, <2>2, <2>3
    <2> QED  BY <2>4
<1>11. NoRepeat(ns)  BY <1>8, <1>10 DEF NoRepeat
<1>12. \A d \in ToSet(ns) : d \in ToSet(ds) /\ wait_count[d] = 1
    <2>1. ToSet(ns) = {ns[i] : i \in 1 .. m}  BY <1>8 DEF ToSet
    <2> QED  BY <1>6, <1>7, <2>1
<1> QED  BY <1>1, <1>9, <1>11, <1>12

\* One sequence after another.
LEMMA ConcatSet ==
    ASSUME NEW S, NEW a \in Seq(S), NEW b \in Seq(S)
    PROVE  /\ a \o b \in Seq(S) /\ ToSet(a \o b) = ToSet(a) \cup ToSet(b)
           /\ NoRepeat(a) /\ NoRepeat(b) /\ ToSet(a) \cap ToSet(b) = {} => NoRepeat(a \o b)
<1>1. PICK m \in Nat, n \in Nat : m = Len(a) /\ n = Len(b)  OBVIOUS
<1>2. DOMAIN a = 1 .. m /\ DOMAIN b = 1 .. n  BY <1>1
<1>3. a \o b \in Seq(S)  OBVIOUS
<1>4. DOMAIN (a \o b) = 1 .. m + n  BY <1>1
<1>5. \A i \in 1 .. m + n : (a \o b)[i] = IF i <= m THEN a[i] ELSE b[i - m]  BY <1>1
<1>6. PICK c \in Seq(S) : c = a \o b  BY <1>3
<1>7. /\ DOMAIN c = 1 .. m + n
      /\ \A i \in 1 .. m : i \in 1 .. m + n /\ c[i] = a[i]
      /\ \A i \in 1 .. n : i + m \in 1 .. m + n /\ c[i + m] = b[i]
      /\ \A i \in 1 .. m + n : \/ i \in 1 .. m /\ c[i] = a[i]
                               \/ i - m \in 1 .. n /\ c[i] = b[i - m]
    <2>1. DOMAIN c = 1 .. m + n /\ \A i \in 1 .. m + n : c[i] = IF i <= m THEN a[i] ELSE b[i - m]
        BY <1>4, <1>5, <1>6
    <2>2. \A i \in 1 .. n : i + m \in 1 .. m + n /\ ~(i + m <= m) /\ (i + m) - m = i
        BY ONLY m \in Nat, n \in Nat
    <2>3. \A i \in 1 .. m : i \in 1 .. m + n /\ i <= m  BY ONLY m \in Nat, n \in Nat
    <2>4. \A i \in 1 .. m + n : IF i <= m THEN i \in 1 .. m ELSE i - m \in 1 .. n
        BY ONLY m \in Nat, n \in Nat
    <2>5. \A i \in 1 .. n : c[i + m] = b[i]  BY ONLY <2>1, <2>2
    <2> QED  BY <2>1, <2>2, <2>3, <2>4, <2>5
<1>8. ToSet(a) = {a[i] : i \in 1 .. m} /\ ToSet(b) = {b[i] : i \in 1 .. n}
      /\ ToSet(c) = {c[i] : i \in 1 .. m + n}
    BY <1>2, <1>7 DEF ToSet
<1>9. ToSet(c) = ToSet(a) \cup ToSet(b)
    <2>1. \A i \in 1 .. m : a[i] \in ToSet(c)  BY ONLY <1>7, <1>8
    <2>2. \A i \in 1 .. n : b[i] \in ToSet(c)  BY ONLY <1>7, <1>8
    <2>3. \A i \in 1 .. m + n : c[i] \in ToSet(a) \cup ToSet(b)  BY ONLY <1>7, <1>8
    <2> QED  BY ONLY <1>8, <2>1, <2>2, <2>3
<1>10. ASSUME NoRepeat(a), NoRepeat(b), ToSet(a) \cap ToSet(b) = {} PROVE NoRepeat(c)
    <2> SUFFICES ASSUME NEW i \in 1 .. m + n, NEW j \in 1 .. m + n, c[i] = c[j] PROVE i = j
        BY <1>7 DEF NoRepeat
    <2>1. \A x \in 1 .. m, y \in 1 .. n : a[x] # b[y]  BY ONLY <1>8, <1>10
    <2>2. (\A x, y \in 1 .. m : a[x] = a[y] => x = y)
          /\ (\A x, y \in 1 .. n : b[x] = b[y] => x = y)
        BY <1>2, <1>10 DEF NoRepeat
    <2>3. CASE i \in 1 .. m /\ j \in 1 .. m  BY <1>7, <2>2, <2>3
    <2>4. CASE i - m \in 1 .. n /\ c[i] = b[i - m] /\ j - m \in 1 .. n /\ c[j] = b[j - m]
        <3>1. i - m = j - m  BY <2>2, <2>4
        <3> QED  BY <3>1
    <2>5. CASE i \in 1 .. m /\ c[i] = a[i] /\ j - m \in 1 .. n /\ c[j] = b[j - m]
        BY ONLY c[i] = c[j], <2>1, <2>5
    <2>6. CASE j \in 1 .. m /\ c[j] = a[j] /\ i - m \in 1 .. n /\ c[i] = b[i - m]
        BY ONLY c[i] = c[j], <2>1, <2>6
    <2>7. \/ i \in 1 .. m /\ c[i] = a[i]
          \/ i - m \in 1 .. n /\ c[i] = b[i - m]
        BY <1>7
    <2>8. \/ j \in 1 .. m /\ c[j] = a[j]
          \/ j - m \in 1 .. n /\ c[j] = b[j - m]
        BY <1>7
    <2> QED  BY ONLY <2>3, <2>4, <2>5, <2>6, <2>7, <2>8
<1> QED  BY <1>3, <1>6, <1>9, <1>10

\* A part of a sequence.
LEMMA PartSet ==
    ASSUME NEW S, NEW s \in Seq(S), NEW m \in Nat \ {0}, NEW n \in Nat, m <= n + 1, n <= Len(s)
    PROVE  /\ SubSeq(s, m, n) \in Seq(S)
           /\ ToSet(SubSeq(s, m, n)) = {s[i] : i \in m .. n}
           /\ NoRepeat(s) => NoRepeat(SubSeq(s, m, n))
<1>1. PICK l \in Nat : l = n + 1 - m  BY ONLY m \in Nat, n \in Nat, m <= n + 1
<1>2. SubSeq(s, m, n) \in Seq(S) /\ DOMAIN SubSeq(s, m, n) = 1 .. l  BY <1>1
<1>3. \A i \in 1 .. l : SubSeq(s, m, n)[i] = s[i + m - 1]  BY <1>1
<1>4. PICK p \in Seq(S) : p = SubSeq(s, m, n)  BY <1>2
<1>5. DOMAIN p = 1 .. l /\ \A i \in 1 .. l : p[i] = s[i + m - 1]  BY <1>2, <1>3, <1>4
<1>6. /\ \A i \in 1 .. l : i + m - 1 \in m .. n
      /\ \A i \in m .. n : i - m + 1 \in 1 .. l /\ (i - m + 1) + m - 1 = i
      /\ \A i, j \in 1 .. l : i + m - 1 = j + m - 1 => i = j
    BY <1>1
<1>7. ToSet(p) = {s[i] : i \in m .. n}
    <2>1. ToSet(p) = {p[i] : i \in 1 .. l}  BY <1>5 DEF ToSet
    <2>2. \A i \in 1 .. l : \E j \in m .. n : p[i] = s[j]  BY ONLY <1>5, <1>6
    <2>3. \A i \in m .. n : p[i - m + 1] = s[i]  BY ONLY <1>5, <1>6
    <2>4. \A i \in m .. n : \E j \in 1 .. l : p[j] = s[i]
        <3> TAKE i \in m .. n
        <3>1. i - m + 1 \in 1 .. l  BY <1>6
        <3> QED  BY <2>3, <3>1
    <2>5. {p[i] : i \in 1 .. l} \subseteq {s[j] : j \in m .. n}  BY ONLY <2>2
    <2>6. {s[j] : j \in m .. n} \subseteq {p[i] : i \in 1 .. l}  BY ONLY <2>4
    <2> QED  BY ONLY <2>1, <2>5, <2>6
<1>8. ASSUME NoRepeat(s) PROVE NoRepeat(p)
    <2> SUFFICES ASSUME NEW i \in 1 .. l, NEW j \in 1 .. l, p[i] = p[j] PROVE i = j
        BY <1>5 DEF NoRepeat
    <2>1. s[i + m - 1] = s[j + m - 1]  BY <1>5
    <2>2. i + m - 1 \in DOMAIN s /\ j + m - 1 \in DOMAIN s  BY <1>1
    <2>3. i + m - 1 = j + m - 1  BY <1>8, <2>1, <2>2 DEF NoRepeat
    <2> QED  BY <1>6, <2>3
<1> QED  BY <1>2, <1>4, <1>7, <1>8

\* The list without the node at place k, and its first node last.
LEMMA KeptOut ==
    ASSUME NEW S, NEW ns \in Seq(S), NoRepeat(ns), NEW k \in 2 .. Len(ns)
    PROVE  LET r == SubSeq(ns, 2, k - 1) \o SubSeq(ns, k + 1, Len(ns)) \o <<Head(ns)>>
           IN  /\ r \in Seq(S) /\ NoRepeat(r) /\ ToSet(r) \subseteq ToSet(ns)
               /\ ns[k] \in ToSet(ns) /\ ns[k] \notin ToSet(r)
<1>1. PICK l \in Nat : l = Len(ns) /\ DOMAIN ns = 1 .. l /\ k \in 2 .. l  OBVIOUS
<1>2. PICK a \in Seq(S) : /\ a = SubSeq(ns, 2, k - 1)
                          /\ ToSet(a) = {ns[i] : i \in 2 .. k - 1} /\ NoRepeat(a)
    <2>1. k - 1 \in Nat /\ 2 <= k - 1 + 1 /\ k - 1 <= l /\ 2 \in Nat \ {0}  BY <1>1
    <2> QED  BY <1>1, <2>1, PartSet
<1>3. PICK b \in Seq(S) : /\ b = SubSeq(ns, k + 1, l)
                          /\ ToSet(b) = {ns[i] : i \in k + 1 .. l} /\ NoRepeat(b)
    <2>1. k + 1 \in Nat \ {0} /\ k + 1 <= l + 1 /\ l <= l  BY <1>1
    <2> QED  BY <1>1, <2>1, PartSet
<1>4. PICK h \in S : h = Head(ns) /\ h = ns[1]  BY <1>1
<1>5. \A i, j \in 1 .. l : ns[i] = ns[j] => i = j  BY <1>1 DEF NoRepeat
<1>6. /\ \A i \in 2 .. k - 1 : i \in 1 .. l /\ i # k /\ i # 1 /\ \A j \in k + 1 .. l : i # j
      /\ \A i \in k + 1 .. l : i \in 1 .. l /\ i # k /\ i # 1
      /\ k \in 1 .. l /\ 1 \in 1 .. l /\ k # 1
    BY <1>1
<1>7. ToSet(a) \cap ToSet(b) = {} /\ h \notin ToSet(a) /\ h \notin ToSet(b)
      /\ ns[k] \notin ToSet(a) /\ ns[k] \notin ToSet(b) /\ ns[k] # h
    <2>1. \A i \in 2 .. k - 1 : \A j \in k + 1 .. l : ns[i] # ns[j]  BY ONLY <1>5, <1>6
    <2>2. \A i \in 2 .. k - 1 : ns[i] # ns[k] /\ ns[i] # h  BY ONLY <1>4, <1>5, <1>6
    <2>3. \A i \in k + 1 .. l : ns[i] # ns[k] /\ ns[i] # h  BY ONLY <1>4, <1>5, <1>6
    <2>4. ns[k] # h  BY ONLY <1>4, <1>5, <1>6
    <2> QED  BY ONLY <1>2, <1>3, <2>1, <2>2, <2>3, <2>4
<1>8. ToSet(ns) = {ns[i] : i \in 1 .. l}  BY <1>1 DEF ToSet
<1>9. ToSet(a) \cup ToSet(b) \cup {h} \subseteq ToSet(ns) /\ ns[k] \in ToSet(ns)
    BY ONLY <1>2, <1>3, <1>4, <1>6, <1>8
<1>10. PICK c \in Seq(S) : c = a \o b /\ ToSet(c) = ToSet(a) \cup ToSet(b) /\ NoRepeat(c)
    BY <1>2, <1>3, <1>7, ConcatSet
<1>11. <<h>> \in Seq(S) /\ ToSet(<<h>>) = {h} /\ NoRepeat(<<h>>)  BY ShortSets
<1>12. /\ c \o <<h>> \in Seq(S) /\ ToSet(c \o <<h>>) = ToSet(c) \cup {h}
       /\ NoRepeat(c \o <<h>>)
    <2>1. PICK d \in Seq(S) : d = <<h>> /\ ToSet(d) = {h} /\ NoRepeat(d)  BY <1>11
    <2>2. ToSet(c) \cap ToSet(d) = {}  BY <1>7, <1>10, <2>1
    <2>3. c \o d \in Seq(S) /\ ToSet(c \o d) = ToSet(c) \cup ToSet(d) /\ NoRepeat(c \o d)
        <3>1. c \in Seq(S) /\ NoRepeat(c) /\ d \in Seq(S) /\ NoRepeat(d)  BY <1>10, <2>1
        <3> QED  BY ONLY <2>2, <3>1, ConcatSet
    <2> QED  BY <2>1, <2>3
<1>13. SubSeq(ns, 2, k - 1) \o SubSeq(ns, k + 1, Len(ns)) \o <<Head(ns)>> = c \o <<h>>
    BY ONLY <1>1, <1>2, <1>3, <1>4, <1>10
<1> QED  BY ONLY <1>7, <1>9, <1>10, <1>12, <1>13

\* What Graph::finish goes on with.
Chosen(ns, g, rest, temp, next, to) ==
    /\ rest \in Seq(Nodes) /\ NoRepeat(rest) /\ ToSet(rest) \subseteq ToSet(ns)
    /\ temp \in (ToSet(ns) \cup {nullptr}) \ ToSet(rest)
    /\ next \in (ToSet(ns) \cup {nullptr}) \ ToSet(rest)
    /\ temp = nullptr \/ next = nullptr
    /\ next # nullptr => to = "return" /\ Cheap(next, g)
    /\ next = nullptr =>
          to = IF g \in Limited THEN "pass" ELSE IF temp = nullptr THEN "return" ELSE "offer"
    /\ temp # nullptr => ~ Cheap(temp, g)

LEMMA ChosenFacts ==
    ASSUME NEW w \in Workers, NEW ns \in Seq(Nodes), NoRepeat(ns), NEW g, Choose(w, ns, g)
    PROVE  \E rest, temp, next, to : Leave(w, rest, temp, next, to) /\ Chosen(ns, g, rest, temp, next, to)
<1>1. nullptr \notin ToSet(ns)  BY NodeFacts DEF ToSet
<1>2. CASE ns = <<>> /\ Leave(w, <<>>, nullptr, nullptr, IF g \in Limited THEN "pass" ELSE "return")
    BY <1>2, ShortSets DEF Chosen
<1>3. CASE \E k \in Kept(ns, g) :
              Leave(w, SubSeq(ns, 2, k - 1) \o SubSeq(ns, k + 1, Len(ns)) \o <<Head(ns)>>,
                    nullptr, ns[k], "return")
    <2>1. PICK k \in Kept(ns, g) :
              Leave(w, SubSeq(ns, 2, k - 1) \o SubSeq(ns, k + 1, Len(ns)) \o <<Head(ns)>>,
                    nullptr, ns[k], "return")
        BY <1>3
    <2>2. PICK r : r = SubSeq(ns, 2, k - 1) \o SubSeq(ns, k + 1, Len(ns)) \o <<Head(ns)>>
        OBVIOUS
    <2>3. k \in 2 .. Len(ns) /\ Cheap(ns[k], g)  BY DEF Kept
    <2>4. /\ r \in Seq(Nodes) /\ NoRepeat(r) /\ ToSet(r) \subseteq ToSet(ns)
          /\ ns[k] \in ToSet(ns) /\ ns[k] \notin ToSet(r)
        BY <2>2, <2>3, KeptOut
    <2>5. Chosen(ns, g, r, nullptr, ns[k], "return")
        <3>1. nullptr \notin ToSet(r) /\ ns[k] # nullptr  BY <1>1, <2>4
        <3> QED  BY <2>3, <2>4, <3>1 DEF Chosen
    <2> QED  BY <2>1, <2>2, <2>5
<1>4. CASE /\ ns # <<>>
           /\ IF Cheap(Head(ns), g)
              THEN Leave(w, Tail(ns), nullptr, Head(ns), "return")
              ELSE Leave(w, Tail(ns), Head(ns), nullptr, IF g \in Limited THEN "pass" ELSE "offer")
    <2>1. /\ Head(ns) \in ToSet(ns) /\ Tail(ns) \in Seq(Nodes) /\ NoRepeat(Tail(ns))
          /\ ToSet(Tail(ns)) = ToSet(ns) \ {Head(ns)}
        BY <1>4, TailSet
    <2>2. CASE Cheap(Head(ns), g)
        <3>1. Chosen(ns, g, Tail(ns), nullptr, Head(ns), "return")
            BY <1>1, <2>1, <2>2 DEF Chosen
        <3> QED  BY <1>4, <2>2, <3>1
    <2>3. CASE ~ Cheap(Head(ns), g)
        <3>1. Chosen(ns, g, Tail(ns), Head(ns), nullptr, IF g \in Limited THEN "pass" ELSE "offer")
            BY <1>1, <2>1, <2>3 DEF Chosen
        <3> QED  BY <1>4, <2>3, <3>1
    <2> QED  BY <2>2, <2>3
<1> QED  BY <1>2, <1>3, <1>4 DEF Choose

\* Node::finish and the choice of Graph::finish (node.cpp:126-158, graph.cpp:53-128).
LEMMA FinishPlace ==
    ASSUME PlaceInv, NEW w \in Workers, Finish(w)
    PROVE  PlaceInv'
<1>1. pc[w] = "finish" /\ pc[w] \notin Calling  BY DEF Finish, At, Calling
<1>2. PICK n \in Nodes : n = task[w]  BY <1>1, WorkerAt
<1>3. /\ w \in Threads /\ w \notin Clients /\ todo[w] = <<>> /\ Stage(w) = "finish" /\ LocalOK(w)
      /\ Has("task", w, n) /\ Fits(n, "task", w)
    BY <1>1, <1>2, WorkerAt
<1>4. PICK g \in Graphs : g = parent_graph[n]
    BY <1>3 DEF Fits, Made, PlaceInv, Types
<1>5. PICK ns \in Notified(n) : Choose(w, ns, g)
    BY <1>2, <1>4 DEF Finish
<1>6. /\ ns \in Seq(Nodes) /\ NoRepeat(ns)
      /\ \A d \in ToSet(ns) : d \in ToSet(down_streams[n]) /\ wait_count[d] = 1
    BY NotifiedFacts
<1>7. PICK rest, temp, next, to :
          Leave(w, rest, temp, next, to) /\ Chosen(ns, g, rest, temp, next, to)
    BY <1>5, <1>6, ChosenFacts
<1>8. /\ rest \in Seq(Nodes) /\ NoRepeat(rest) /\ ToSet(rest) \subseteq ToSet(ns)
      /\ temp \in (ToSet(ns) \cup {nullptr}) \ ToSet(rest)
      /\ next \in (ToSet(ns) \cup {nullptr}) \ ToSet(rest)
      /\ temp = nullptr \/ next = nullptr
      /\ to \in {"return", "pass", "offer"}
    BY <1>7 DEF Chosen
<1>9. /\ todo' = [todo EXCEPT ![w] = rest] /\ temp_node' = [temp_node EXCEPT ![w] = temp]
      /\ next_task' = [next_task EXCEPT ![w] = next] /\ then' = [then EXCEPT ![w] = to]
      /\ pc' = [pc EXCEPT ![w] = IF rest = <<>> THEN to ELSE "ready"]
    BY <1>7 DEF Leave
<1>10. /\ status' = [status EXCEPT ![n] = "Finish"]
       /\ wait_count' = [d \in Nodes |->
              IF d \in ToSet(down_streams[n]) THEN wait_count[d] - 1 ELSE wait_count[d]]
       /\ g_wait_count' = [g_wait_count EXCEPT ![g] = @ - 1]
       /\ UNCHANGED <<parent_graph, down_streams, queueVars, task_queue, task>>
    BY <1>2, <1>4 DEF Finish
<1>11. /\ status' \in [Nodes -> {"Initing", "Running", "Finish", "Recoverable"}]
       /\ status[n] = "Running" /\ status'[n] = "Finish"
       /\ \A m \in Nodes \ {n} : status'[m] = status[m]
    BY <1>2, <1>3, <1>10 DEF PlaceInv, Types, LocalOK
<1>12. Made' = Made /\ Ended' = Ended \cup {n} /\ n \notin Ended
    BY <1>10, <1>11 DEF Made, Ended
<1>13. \A d \in Nodes : d \in ToSet(down_streams[n]) => wait_count[d] # 0
    <2> SUFFICES ASSUME NEW d \in Nodes, d \in ToSet(down_streams[n]), wait_count[d] = 0
                 PROVE  FALSE
        OBVIOUS
    <2>1. n \in Open(d)  BY <1>12 DEF Open
    <2>2. IsFiniteSet(Open(d))  BY NodeFacts, FS_Subset DEF Open
    <2>3. Cardinality(Open(d)) = 0  BY DEF PlaceInv, WaitExact
    <2> QED  BY <2>1, <2>2, <2>3, FS_EmptySet
<1>14. \A m \in Nodes : wait_count[m] = 0 => wait_count'[m] = 0  BY <1>10, <1>13
<1>15. \A d \in ToSet(ns) :
           /\ d \in Nodes /\ d \in Made /\ d # n /\ wait_count'[d] = 0 /\ status'[d] = "Initing"
           /\ \A k \in Kinds : \A x \in Owners : ~Has(k, x, d)
    <2> TAKE d \in ToSet(ns)
    <2>1. d \in ToSet(down_streams[n]) /\ wait_count[d] = 1  BY <1>6
    <2>2. d \in Made  BY <2>1 DEF PlaceInv, Edges
    <2>3. d \in Nodes  BY <2>2 DEF Made
    <2>4. d # n  BY <1>3, <2>1 DEF Fits
    <2>5. wait_count'[d] = 0  BY <1>10, <2>1, <2>3
    <2>6. status'[d] = "Initing"  BY <1>11, <2>1, <2>3, <2>4 DEF PlaceInv, Started
    <2>7. \A k \in Kinds : \A x \in Owners : ~Has(k, x, d)
        BY <2>1, <2>3, AtPlace DEF PlaceInv, Fits
    <2> QED  BY <2>2, <2>3, <2>4, <2>5, <2>6, <2>7
<1>16. /\ todo' \in [Threads -> Seq(Nodes)] /\ todo'[w] = rest
       /\ pc' \in [Threads -> Points] /\ pc'[w] = IF rest = <<>> THEN to ELSE "ready"
       /\ \A u \in Threads \ {w} : todo'[u] = todo[u] /\ pc'[u] = pc[u]
    <2>1. (IF rest = <<>> THEN to ELSE "ready") \in Points
        BY <1>8 DEF Points, Calling, WorkerPC
    <2>2. todo \in [Threads -> Seq(Nodes)] /\ pc \in [Threads -> Points]
        BY DEF PlaceInv, Types
    <2> QED  BY <1>3, <1>8, <1>9, <2>1, <2>2
<1>17. /\ temp_node' \in [Workers -> Nodes \cup {nullptr}] /\ temp_node'[w] = temp
       /\ next_task' \in [Workers -> Nodes \cup {nullptr}] /\ next_task'[w] = next
       /\ then' \in [Workers -> {"return", "offer", "pass"}] /\ then'[w] = to
       /\ \A v \in Workers \ {w} : /\ temp_node'[v] = temp_node[v] /\ next_task'[v] = next_task[v]
                                   /\ then'[v] = then[v]
    <2>1. temp \in Nodes \cup {nullptr} /\ next \in Nodes \cup {nullptr}  BY <1>8, <1>15
    <2>2. /\ temp_node \in [Workers -> Nodes \cup {nullptr}]
          /\ next_task \in [Workers -> Nodes \cup {nullptr}]
          /\ then \in [Workers -> {"return", "offer", "pass"}]
        BY DEF PlaceInv, Types
    <2> QED  BY <1>8, <1>9, <2>1, <2>2
<1>18. Types'
    <2>1. wait_count' \in [Nodes -> Int] /\ g_wait_count' \in [Graphs -> Int]
        BY <1>10 DEF PlaceInv, Types
    <2> QED  BY <1>10, <1>11, <1>16, <1>17, <2>1 DEF PlaceInv, Types, queueVars, ringVars
<1>19. Calls' /\ Locals'
    <2>1. Alone(w)  BY <1>10, <1>16, <1>17 DEF Alone
    <2>2. CallOK(w)'  BY <1>3, <1>8, <1>16 DEF CallOK, Calling, Asking, Stuck
    <2>3. Stage(w)' = to  BY <1>8, <1>16, <1>17 DEF Stage, Calling
    <2>4. temp # nullptr => temp \in ToSet(down_streams[n]) /\ to \in {"pass", "offer"}
        BY <1>6, <1>7, <1>8 DEF Chosen
    <2>5. to = "pass" => /\ limit_graph(n)
                         /\ temp # nullptr => parent_graph[temp] # parent_graph[n]
        BY <1>4, <1>7 DEF Chosen, Cheap, limit_graph
    <2>6. to = "offer" => temp # nullptr /\ limit_graph(temp)
        BY <1>7 DEF Chosen, Cheap
    <2>7. next # nullptr => to = "return"  BY <1>7 DEF Chosen
    <2>8. task'[w] = n /\ n # nullptr  BY <1>2, <1>10, NodeFacts
    <2>9. LocalOK(w)'
        BY <1>8, <1>10, <1>11, <1>17, <2>3, <2>4, <2>5, <2>6, <2>7, <2>8
           DEF LocalOK, limit_graph
    <2>10. \A m \in Nodes : status'[m] # status[m] => w \in Workers /\ m = task[w]
        BY <1>2, <1>11
    <2> QED  BY <1>3, <1>10, <2>1, <2>2, <2>9, <2>10, ThreadsKept
<1>20. Numbered' /\ Edges'
    <2>1. n \in Made  BY <1>3 DEF Fits
    <2>2. Numbered'  BY <1>12 DEF PlaceInv, Numbered
    <2>3. Edges'  BY <1>10, <1>11, <1>12, <2>1 DEF PlaceInv, Edges
    <2> QED  BY <2>2, <2>3
<1>21. WaitExact'
    <2> SUFFICES ASSUME NEW d \in Nodes PROVE wait_count'[d] = Cardinality(Open(d)')
        BY DEF WaitExact
    <2>1. wait_count[d] = Cardinality(Open(d)) /\ wait_count[d] \in Int
        BY DEF PlaceInv, WaitExact, Types
    <2>2. Open(d)' = Open(d) \ {n}  BY <1>10, <1>12 DEF Open
    <2>3. CASE d \in ToSet(down_streams[n])
        <3>1. n \in Open(d)  BY <1>12, <2>3 DEF Open
        <3>2. IsFiniteSet(Open(d))  BY NodeFacts, FS_Subset DEF Open
        <3>3. Cardinality(Open(d) \ {n}) = Cardinality(Open(d)) - 1
            BY <3>1, <3>2, FS_RemoveElement
        <3> QED  BY <1>10, <2>1, <2>2, <2>3, <3>3
    <2>4. CASE d \notin ToSet(down_streams[n])
        <3>1. Open(d)' = Open(d)  BY <2>2, <2>4 DEF Open
        <3> QED  BY <1>10, <2>1, <2>4, <3>1
    <2> QED  BY <2>3, <2>4
<1>22. GraphExact'
    <2> SUFFICES ASSUME NEW f \in Graphs PROVE g_wait_count'[f] = Cardinality(Unfinished(f)')
        BY DEF GraphExact
    <2>1. g_wait_count[f] = Cardinality(Unfinished(f)) /\ g_wait_count \in [Graphs -> Int]
        BY DEF PlaceInv, GraphExact, Types
    <2>2. Unfinished(f)' = Unfinished(f) \ {n}  BY <1>10, <1>12 DEF Unfinished
    <2>3. CASE f = g
        <3>1. n \in Unfinished(f)  BY <1>4, <1>12, <2>3 DEF Unfinished
        <3>2. IsFiniteSet(Unfinished(f))  BY NodeFacts, FS_Subset DEF Unfinished
        <3>3. Cardinality(Unfinished(f) \ {n}) = Cardinality(Unfinished(f)) - 1
            BY <3>1, <3>2, FS_RemoveElement
        <3> QED  BY <1>10, <2>1, <2>2, <2>3, <3>3
    <2>4. CASE f # g
        <3>1. Unfinished(f)' = Unfinished(f)  BY <1>4, <2>2, <2>4 DEF Unfinished
        <3> QED  BY <1>10, <2>1, <2>4, <3>1
    <2> QED  BY <2>3, <2>4
<1>23. Started'
    <2>1. wait_count[n] = 0  BY <1>3 DEF Fits
    <2> QED  BY <1>11, <1>14, <2>1 DEF PlaceInv, Started
<1>24. \A m \in Nodes : \A k \in Kinds : \A x \in Owners : Has(k, x, m)' =>
           \/ Has(k, x, m) /\ m \notin ToSet(ns)
           \/ /\ m \in ToSet(ns) /\ x = w
              /\ \/ k = "todo" /\ m \in ToSet(rest)
                 \/ k = "temp" /\ m = temp
                 \/ k = "next" /\ m = next
    <2>1. \A u \in Threads, m \in Nodes :
              Listed(u, m)' => (u # w /\ Listed(u, m)) \/ (u = w /\ m \in ToSet(rest))
        BY <1>16 DEF Listed
    <2>2. \A m \in Nodes : m = temp \/ m = next \/ m \in ToSet(rest) => m \in ToSet(ns)
        BY <1>8, NodeFacts
    <2>3. \A m \in Nodes : \A k \in Kinds : \A x \in Owners : Has(k, x, m)' =>
              \/ Has(k, x, m)
              \/ x = w /\ k = "todo" /\ m \in ToSet(rest)
              \/ x = w /\ k = "temp" /\ m = temp
              \/ x = w /\ k = "next" /\ m = next
        BY <1>10, <1>17, <2>1 DEF Has, Queued, InRing, queueVars, ringVars
    <2> QED  BY <1>15, <2>2, <2>3
<1>25. Exclusive'
    <2> SUFFICES ASSUME NEW m \in Nodes,
                        NEW k \in Kinds, NEW l \in Kinds, NEW x \in Owners, NEW y \in Owners,
                        Has(k, x, m)', Has(l, y, m)'
                 PROVE  k = l /\ x = y
        BY DEF Exclusive
    <2>1. CASE m \in ToSet(ns)
        <3>1. m # nullptr  BY NodeFacts
        <3> QED  BY <1>8, <1>24, <2>1, <3>1
    <2>2. CASE m \notin ToSet(ns)  BY <1>24, <2>2 DEF PlaceInv, Exclusive
    <2> QED  BY <2>1, <2>2
<1>26. Released'
    <2> SUFFICES ASSUME NEW m \in Nodes, NEW k \in Kinds, NEW x \in Owners, Has(k, x, m)'
                 PROVE  Fits(m, k, x)'
        BY DEF Released, Fits
    <2>1. CASE m \in ToSet(ns)
        <3>1. k # "ring"  BY <1>24, <2>1
        <3> QED  BY <1>12, <1>15, <2>1, <3>1 DEF Fits
    <2>2. CASE Has(k, x, m)
        <3>1. Fits(m, k, x)  BY <2>2, AtPlace DEF PlaceInv
        <3>2. m = n => k = "task"  BY <1>3, <2>2 DEF PlaceInv, Exclusive, Kinds, Owners
        <3> QED  BY <1>10, <1>11, <1>12, <1>14, <3>1, <3>2 DEF Fits
    <2> QED  BY <1>24, <2>1, <2>2
<1>27. Once'
    <2>1. \A u \in Threads : NoRepeat(todo[u])'
        BY <1>8, <1>16 DEF PlaceInv, Once, NoRepeat
    <2> QED  BY <1>10, <2>1 DEF PlaceInv, Once, queueVars, ringVars
<1> QED  BY <1>18, <1>19, <1>20, <1>21, <1>22, <1>23, <1>25, <1>26, <1>27 DEF PlaceInv

-----------------------------------------------------------------------------
(* The inductive invariant of the places *)

LEMMA InitPlace ==
    ASSUME Init
    PROVE  PlaceInv
<1>1. /\ parent_graph = [n \in Nodes |-> nullptr]
      /\ status = [n \in Nodes |-> "Initing"]
      /\ wait_count = [n \in Nodes |-> 0]
      /\ down_streams = [n \in Nodes |-> <<>>]
      /\ g_wait_count = [g \in Graphs |-> 0]
      /\ m_count = [g \in Limited |-> -1 * parallel]
      /\ limit_queue = [g \in Limited |-> <<>>]
      /\ task_queue = [n \in Nodes |-> 0]
      /\ pc = [t \in Threads |-> "idle"]
      /\ todo = [t \in Threads |-> <<>>]
      /\ then = [w \in Workers |-> "return"]
      /\ task = [w \in Workers |-> nullptr]
      /\ temp_node = [w \in Workers |-> nullptr]
      /\ next_task = [w \in Workers |-> nullptr]
    BY DEF Init, SelfQueue
<1>2. Workers \subseteq Threads /\ <<>> \in Seq(Nodes) /\ ToSet(<<>>) = {} /\ NoRepeat(<<>>)
    BY ShortSets DEF Threads
<1>3. Types
    <2>1. -1 * parallel \in Int  BY LimitAssumption
    <2>2. "idle" \in Points  BY DEF Points
    <2>3. /\ parent_graph \in [Nodes -> Graphs \cup {nullptr}]
          /\ status \in [Nodes -> {"Initing", "Running", "Finish", "Recoverable"}]
          /\ wait_count \in [Nodes -> Int] /\ down_streams \in [Nodes -> Seq(Nodes)]
          /\ g_wait_count \in [Graphs -> Int]
        BY <1>1, <1>2
    <2>4. /\ m_count \in [Limited -> Int] /\ limit_queue \in [Limited -> Seq(Nodes)]
          /\ task_queue \in [Nodes -> Nat]
        BY <1>1, <1>2, <2>1
    <2>5. /\ pc \in [Threads -> Points] /\ todo \in [Threads -> Seq(Nodes)]
          /\ then \in [Workers -> {"return", "offer", "pass"}]
          /\ task \in [Workers -> Nodes \cup {nullptr}]
          /\ temp_node \in [Workers -> Nodes \cup {nullptr}]
          /\ next_task \in [Workers -> Nodes \cup {nullptr}]
        BY <1>1, <1>2, <2>2
    <2> QED  BY <2>3, <2>4, <2>5 DEF Types
<1>4. Calls  BY <1>1, <1>2 DEF Calls, CallOK, Calling, Asking, Stuck
<1>5. Locals
    <2> SUFFICES ASSUME NEW w \in Workers PROVE LocalOK(w)  BY DEF Locals
    <2>1. Stage(w) = "idle"  BY <1>1, <1>2 DEF Stage, Calling
    <2> QED  BY <1>1, <2>1 DEF LocalOK
<1>6. Made = {} /\ Cardinality({}) = 0 /\ Ended = {}
    <2>1. Cardinality({}) = 0  BY FS_EmptySet
    <2> QED  BY <1>1, <2>1 DEF Made, Ended
<1>7. Numbered  BY <1>6 DEF Numbered
<1>8. Edges  BY <1>1, <1>2 DEF Edges
<1>9. WaitExact
    <2>1. \A d \in Nodes : Open(d) = {}  BY <1>1, <1>2 DEF Open
    <2> QED  BY <1>1, <1>6, <2>1 DEF WaitExact
<1>10. GraphExact
    <2>1. \A g \in Graphs : Unfinished(g) = {}  BY <1>1, GraphAssumption DEF Unfinished
    <2> QED  BY <1>1, <1>6, <2>1 DEF GraphExact
<1>11. \A n \in Nodes : \A k \in Kinds : \A x \in Owners : ~Has(k, x, n)
    BY <1>1, <1>2, NodeFacts DEF Has, Queued, InRing, Listed
<1>12. Exclusive /\ Released  BY <1>11 DEF Exclusive, Released
<1>13. Once /\ Started  BY <1>1, <1>2 DEF Once, Started
<1> QED  BY <1>3, <1>4, <1>5, <1>7, <1>8, <1>9, <1>10, <1>12, <1>13 DEF PlaceInv

LEMMA NextPlace ==
    ASSUME PlaceInv, [Next]_vars
    PROVE  PlaceInv'
<1>1. ASSUME NEW c \in Clients, NEW g \in Graphs, NEW required \in SUBSET Made,
             create_edges(c, g, required)
      PROVE  PlaceInv'
    BY <1>1, CreatePlace
<1>2. ASSUME NEW t \in Threads, call(t) \/ Put(t)
      PROVE  PlaceInv'
    BY <1>2, ReadyPlace, HoldPlace, LooksOn, LooksPlace DEF call
<1>3. ASSUME NEW w \in Workers, do_schedule(w) \/ Get(w)
      PROVE  PlaceInv'
    <2>1. w \in Threads  BY DEF Threads
    <2>2. CASE \E n \in Nodes : Dequeue(w, n)  BY <2>2, DequeuePlace
    <2>3. CASE Resume(w)  BY <2>3, ResumePlace
    <2>4. CASE Finish(w)  BY <2>4, FinishPlace
    <2>5. CASE call(w)  BY <1>2, <2>1, <2>5
    <2>6. CASE Offer(w)  BY <2>6, OfferPlace
    <2>7. CASE Pass(w)  BY <2>7, PassPlace
    <2>8. CASE Take(w)  BY <2>8, TakePlace
    <2>9. CASE Return(w)  BY <2>9, ReturnPlace
    <2>10. CASE Get(w)  BY <2>10, GetPlace
    <2> QED  BY <1>3, <2>2, <2>3, <2>4, <2>5, <2>6, <2>7, <2>8, <2>9, <2>10
             DEF do_schedule, run_task
<1>4. CASE UNCHANGED vars
    <2>1. UNCHANGED <<nodeVars, g_wait_count, queueVars, task_queue, pc, todo, workerVars>>
        BY <1>4 DEF vars
    <2>2. Numbered' /\ Edges' /\ WaitExact' /\ GraphExact' /\ Started'  BY <2>1, NodesKept
    <2>3. \A n \in Nodes : Stays(n)
        BY <2>1 DEF Stays, Has, Queued, InRing, Listed, queueVars, ringVars, workerVars
    <2>4. Exclusive' /\ Released'  BY <2>1, <2>3, PlacesKept DEF PlaceInv
    <2>5. Types' /\ Once'
        BY <2>1 DEF PlaceInv, Types, Once, nodeVars, queueVars, ringVars, workerVars
    <2>6. Calls'
        BY <2>1 DEF PlaceInv, Calls, CallOK, Stuck, limit_graph, nodeVars
    <2>7. Locals'
        BY <2>1 DEF PlaceInv, Locals, LocalOK, Stage, limit_graph, nodeVars, workerVars
    <2> QED  BY <2>2, <2>4, <2>5, <2>6, <2>7 DEF PlaceInv
<1> QED  BY <1>1, <1>2, <1>3, <1>4 DEF Next, Threads

-----------------------------------------------------------------------------
(* Counting *)

LEMMA SetsFinite ==
    \A g : /\ IsFiniteSet(CountedOf(g)) /\ Cardinality(CountedOf(g)) \in Nat
           /\ IsFiniteSet(HeldOf(g)) /\ Cardinality(HeldOf(g)) \in Nat
           /\ IsFiniteSet(TakersOf(g)) /\ Cardinality(TakersOf(g)) \in Nat
<1>1. \A S \in SUBSET Nodes : IsFiniteSet(S) /\ Cardinality(S) \in Nat
    BY NodeFacts, FS_Subset, FS_CardinalityType
<1> QED  BY <1>1 DEF CountedOf, HeldOf, TakersOf, Of

\* What the step of a thread leaves to the others.
OthersLet(t, n) == \E u \in Threads \ {t} : Lets(u, n)
OthersHold(t, n) == \E u \in Threads \ {t} : HeadOf(u, n)
OthersTake(t, n) == \E u \in Threads \ {t} : TakesFor(u, n)

LEMMA Shares ==
    ASSUME NEW t \in Threads, Alone(t), NEW n
    PROVE  /\ LetIn(n) <=> Queued(n) \/ Ring(n) \/ Lets(t, n) \/ OthersLet(t, n)
           /\ Held(n) <=> Ring(n) \/ HeadOf(t, n) \/ OthersHold(t, n)
           /\ Taken(n) <=> TakesFor(t, n) \/ OthersTake(t, n)
           /\ LetIn(n)' <=> Queued(n)' \/ Ring(n)' \/ Lets(t, n)' \/ OthersLet(t, n)
           /\ Held(n)' <=> Ring(n)' \/ HeadOf(t, n)' \/ OthersHold(t, n)
           /\ Taken(n)' <=> TakesFor(t, n)' \/ OthersTake(t, n)
<1>1. \A u \in Threads \ {t} : /\ HeadOf(u, n)' <=> HeadOf(u, n)
                               /\ Lets(u, n)' <=> Lets(u, n)
                               /\ TakesFor(u, n)' <=> TakesFor(u, n)
    <2> TAKE u \in Threads \ {t}
    <2>1. HeadOf(u, n)' <=> HeadOf(u, n)  BY DEF Alone, HeadOf, Stuck
    <2>2. u \in Workers => (Stage(u)' = Stage(u))  BY DEF Alone, Stage
    <2>3. Lets(u, n)' <=> Lets(u, n)  BY <2>1, <2>2 DEF Alone, Lets
    <2>4. TakesFor(u, n)' <=> TakesFor(u, n)  BY DEF Alone, TakesFor
    <2> QED  BY <2>1, <2>3, <2>4
<1> QED  BY <1>1 DEF LetIn, Held, Taken, OthersLet, OthersHold, OthersTake

\* A node that a thread has is nowhere else.
LEMMA Apart ==
    ASSUME PlaceInv, NEW t \in Threads, NEW n \in Nodes,
           NEW k \in {"todo", "temp", "next", "task"}, Has(k, t, n)
    PROVE  /\ ~Queued(n) /\ ~Ring(n)
           /\ ~OthersLet(t, n) /\ ~OthersHold(t, n) /\ ~OthersTake(t, n)
           /\ k # "todo" => ~HeadOf(t, n)
           /\ k # "next" /\ t \in Workers => next_task[t] # n
           /\ k # "task" /\ t \in Workers => task[t] # n
<1>1. \A l \in Kinds : \A y \in Owners : Has(l, y, n) => l = k /\ y = t
    BY DEF PlaceInv, Exclusive, Kinds, Owners
<1>2. ~Queued(n) /\ ~Ring(n)  BY <1>1 DEF Has, Ring, Kinds, Owners
<1>3. ASSUME NEW u \in Threads \ {t}
      PROVE  ~HeadOf(u, n) /\ ~Lets(u, n) /\ ~TakesFor(u, n)
    <2>1. ~Has("todo", u, n) /\ ~Has("next", u, n) /\ ~Has("task", u, n)
        BY <1>1 DEF Kinds, Owners
    <2>2. Stuck(u) => Has("todo", u, Head(todo[u]))  BY InCall DEF Stuck, Asking
    <2> QED  BY <2>1, <2>2 DEF HeadOf, Lets, TakesFor, Has
<1>4. k # "todo" => ~HeadOf(t, n)
    <2>1. Stuck(t) => Has("todo", t, Head(todo[t]))  BY InCall DEF Stuck, Asking
    <2> QED  BY <1>1, <2>1 DEF HeadOf, Kinds, Owners
<1>5. /\ k # "next" /\ t \in Workers => next_task[t] # n
      /\ k # "task" /\ t \in Workers => task[t] # n
    BY <1>1 DEF Has, Kinds, Owners
<1> QED  BY <1>2, <1>3, <1>4, <1>5 DEF OthersLet, OthersHold, OthersTake

\* So is a node in the ring.
LEMMA RingApart ==
    ASSUME PlaceInv, NEW g \in Limited, NEW n \in Nodes, InRing(g, n)
    PROVE  /\ \A f \in Limited \ {g} : ~InRing(f, n)
           /\ \A t \in Threads : ~OthersHold(t, n)
<1>1. Has("ring", g, n)  BY DEF Has
<1>2. \A l \in Kinds : \A y \in Owners : Has(l, y, n) => l = "ring" /\ y = g
    BY <1>1 DEF PlaceInv, Exclusive, Kinds, Owners
<1>3. \A f \in Limited \ {g} : ~InRing(f, n)  BY <1>2 DEF Has, Kinds, Owners
<1>4. ASSUME NEW u \in Threads PROVE ~HeadOf(u, n)
    <2>1. Stuck(u) => Has("todo", u, Head(todo[u]))  BY InCall DEF Stuck, Asking
    <2>2. ~Has("todo", u, n)  BY <1>2 DEF Kinds, Owners
    <2> QED  BY <2>1, <2>2 DEF HeadOf
<1> QED  BY <1>3, <1>4 DEF OthersHold

\* A node that joins a set, or leaves it, counts in its own graph.
LEMMA OneJoins ==
    ASSUME NEW S \in SUBSET Nodes, NEW T, NEW O, NEW h \in Nodes, h \notin S,
           T = S \cup {h}
    PROVE  Cardinality(T \cap O) = Cardinality(S \cap O) + (IF h \in O THEN 1 ELSE 0)
<1>1. IsFiniteSet(S \cap O) /\ Cardinality(S \cap O) \in Nat
    BY NodeFacts, FS_Subset, FS_CardinalityType
<1>2. /\ h \in O => T \cap O = (S \cap O) \cup {h}
      /\ h \notin O => T \cap O = S \cap O
    OBVIOUS
<1>3. h \notin S \cap O  OBVIOUS
<1>4. Cardinality((S \cap O) \cup {h}) = Cardinality(S \cap O) + 1
    BY <1>1, <1>3, FS_AddElement
<1>5. CASE h \in O
    <2>1. Cardinality(T \cap O) = Cardinality(S \cap O) + 1  BY ONLY <1>2, <1>4, <1>5
    <2> QED  BY ONLY <1>5, <2>1
<1>6. CASE h \notin O
    <2>1. T \cap O = S \cap O  BY <1>2, <1>6
    <2> QED  BY ONLY <1>1, <1>6, <2>1
<1> QED  BY <1>5, <1>6

LEMMA OneLeaves ==
    ASSUME NEW S \in SUBSET Nodes, NEW T, NEW O, NEW h \in S, T = S \ {h}
    PROVE  Cardinality(T \cap O) = Cardinality(S \cap O) - (IF h \in O THEN 1 ELSE 0)
<1>1. IsFiniteSet(S \cap O) /\ Cardinality(S \cap O) \in Nat
    BY NodeFacts, FS_Subset, FS_CardinalityType
<1>2. /\ h \in O => T \cap O = (S \cap O) \ {h}
      /\ h \notin O => T \cap O = S \cap O
    OBVIOUS
<1>3. h \in O => Cardinality((S \cap O) \ {h}) = Cardinality(S \cap O) - 1
    BY <1>1, FS_RemoveElement
<1>4. CASE h \in O
    <2>1. Cardinality(T \cap O) = Cardinality(S \cap O) - 1  BY ONLY <1>2, <1>3, <1>4
    <2> QED  BY ONLY <1>4, <2>1
<1>5. CASE h \notin O
    <2>1. Cardinality(T \cap O) = Cardinality(S \cap O)  BY <1>2, <1>5
    <2>2. \A x \in Nat : x = x - 0  OBVIOUS
    <2> QED  BY ONLY <1>1, <1>5, <2>1, <2>2
<1> QED  BY <1>4, <1>5

\* A step that counts c more nodes of a graph, of which it holds k, and has r
\* more of its nodes wait to be taken for.
Weighs(g, c, k, r) ==
    /\ Cardinality(CountedOf(g)') = Cardinality(CountedOf(g)) + c
    /\ Cardinality(HeldOf(g)') = Cardinality(HeldOf(g)) + k
    /\ Cardinality(TakersOf(g)') = Cardinality(TakersOf(g)) + r

Exactly(g) ==
    Cardinality(CountedOf(g)') - Cardinality(CountedOf(g)) = m_count'[g] - m_count[g]
NotBelow(g) ==
    Cardinality(CountedOf(g)') - Cardinality(CountedOf(g)) >= m_count'[g] - m_count[g]

\* Nobody who came is forgotten, and who is held back comes when no place is free.
Stands(g) ==
    /\ Come(g) \subseteq Come(g)'
    /\ \/ Brought(g)' = Brought(g)
       \/ Brought(g)' = Brought(g) + 1 /\ m_count[g] >= 0 /\ Come(g)' # Come(g)

\* A node that has started stays so.
Ongoing == \A n \in Nodes : status[n] # "Initing" => status'[n] # "Initing"

\* A step keeps the books.
Counted == \A g \in Limited :
    /\ HeldOK(g) => HeldOK(g)'
    /\ NotBelow(g)
    /\ NoLimitedEdges => Exactly(g)
    /\ Stands(g)

LEMMA ComeKept ==
    ASSUME Ongoing, NEW g, Of(g) \subseteq Of(g)',
           \A n \in Of(g) : LetIn(n) => LetIn(n)' \/ status'[n] # "Initing"
    PROVE  Come(g) \subseteq Come(g)'
<1> SUFFICES ASSUME NEW n \in Come(g) PROVE n \in Come(g)'  OBVIOUS
<1>1. n \in Nodes /\ n \in Of(g) /\ n \in Of(g)' /\ (LetIn(n) \/ status[n] # "Initing")
    BY DEF Come, Of
<1>2. LetIn(n)' \/ status'[n] # "Initing"  BY <1>1 DEF Ongoing
<1> QED  BY <1>1, <1>2 DEF Come

\* Nobody was held back.
LEMMA NoneBrought ==
    ASSUME NEW g, UNCHANGED read, Come(g) \subseteq Come(g)',
           Cardinality(HeldOf(g)') = Cardinality(HeldOf(g))
    PROVE  Stands(g)
<1>1. Brought(g)' = Brought(g)  BY DEF Brought
<1> QED  BY <1>1 DEF Stands

LEMMA Balanced ==
    ASSUME PlaceInv, NEW g \in Limited, NEW m \in Int, m = m_count'[g],
           NEW c \in Int, NEW k \in Int, NEW r \in Int, Weighs(g, c, k, r),
           m = m_count[g] + c, Positive(m) = Positive(m_count[g]) + k - r
    PROVE  /\ HeldOK(g) => HeldOK(g)'
           /\ NotBelow(g) /\ Exactly(g)
<1>1. PICK o \in Int : o = m_count[g]  BY DEF PlaceInv, Types
<1>2. PICK p \in Int : p = Positive(o)  BY DEF Positive
<1>3. PICK q \in Int : q = Positive(m)  BY DEF Positive
<1>4. /\ Cardinality(CountedOf(g)) \in Int /\ Cardinality(HeldOf(g)) \in Int
      /\ Cardinality(TakersOf(g)) \in Int
    BY SetsFinite
<1>5. HeldOK(g) => HeldOK(g)'
    <2>1. q = p + k - r  BY <1>1, <1>2, <1>3
    <2>2. HeldOK(g) => Cardinality(HeldOf(g)') = q + Cardinality(TakersOf(g)')
        BY <1>1, <1>2, <1>4, <2>1 DEF HeldOK, Weighs
    <2>3. Positive(m_count[g])' = q  BY <1>3 DEF Positive
    <2> QED  BY <2>2, <2>3 DEF HeldOK
<1>6. Cardinality(CountedOf(g)') - Cardinality(CountedOf(g)) = c  BY <1>4 DEF Weighs
<1>7. m_count'[g] - m_count[g] = c  BY <1>1
<1> QED  BY <1>5, <1>6, <1>7 DEF NotBelow, Exactly

\* The node is let in, held back and waits to be taken for as before.
Still(n) == /\ LetIn(n)' <=> LetIn(n)
            /\ Held(n)' <=> Held(n)
            /\ Taken(n)' <=> Taken(n)

\* Nobody is let in or out of a limit graph.
LEMMA BooksKept ==
    ASSUME PlaceInv, UNCHANGED m_count, UNCHANGED read,
           \A g \in Limited : /\ CountedOf(g)' = CountedOf(g)
                              /\ HeldOf(g)' = HeldOf(g) /\ TakersOf(g)' = TakersOf(g)
                              /\ Come(g) \subseteq Come(g)'
    PROVE  Counted
<1> SUFFICES ASSUME NEW g \in Limited
             PROVE  (HeldOK(g) => HeldOK(g)') /\ NotBelow(g) /\ Exactly(g) /\ Stands(g)
    BY DEF Counted
<1>0. Stands(g)
    <2>1. Cardinality(HeldOf(g)') = Cardinality(HeldOf(g)) /\ Come(g) \subseteq Come(g)'
        OBVIOUS
    <2> QED  BY <2>1, NoneBrought
<1>1. Weighs(g, 0, 0, 0)  BY SetsFinite DEF Weighs
<1>2. m_count[g] \in Int /\ m_count'[g] = m_count[g]  BY DEF PlaceInv, Types
<1>3. Positive(m_count[g]) \in Int  BY <1>2 DEF Positive
<1>4. (HeldOK(g) => HeldOK(g)') /\ NotBelow(g) /\ Exactly(g)
    BY <1>1, <1>2, <1>3, Balanced
<1> QED  BY <1>0, <1>4

LEMMA AllStill ==
    ASSUME PlaceInv, Ongoing, UNCHANGED m_count, UNCHANGED read, UNCHANGED parent_graph,
           \A n \in Nodes : limit_graph(n) => Still(n)
    PROVE  Counted
<1>1. ASSUME NEW g \in Limited
      PROVE  /\ CountedOf(g)' = CountedOf(g)
             /\ HeldOf(g)' = HeldOf(g) /\ TakersOf(g)' = TakersOf(g)
             /\ Come(g) \subseteq Come(g)'
    <2>1. Of(g)' = Of(g) /\ \A n \in Of(g) : n \in Nodes /\ Still(n)
        BY DEF Of, limit_graph
    <2>2. Come(g) \subseteq Come(g)'  BY <2>1, ComeKept DEF Still
    <2>3. /\ CountedOf(g)' = CountedOf(g)
          /\ HeldOf(g)' = HeldOf(g) /\ TakersOf(g)' = TakersOf(g)
        BY <2>1 DEF CountedOf, HeldOf, TakersOf, LetNodes, HeldNodes, Takers, Still
    <2> QED  BY <2>2, <2>3
<1> QED  BY <1>1, BooksKept

\* A node is let in, and held back or not.
LEMMA OneIn ==
    ASSUME PlaceInv, ReadTypes, Ongoing, UNCHANGED parent_graph, UNCHANGED read,
           NEW g \in Limited, NEW h \in Of(g), ~LetIn(h), status[h] = "Initing",
           LetNodes' = LetNodes \cup {h}, Takers' = Takers,
           CountIn(g),
           \/ m_count[g] < 0 /\ HeldNodes' = HeldNodes
           \/ ~(m_count[g] < 0) /\ HeldNodes' = HeldNodes \cup {h} /\ ~Held(h)
    PROVE  Counted
<1> SUFFICES ASSUME NEW f \in Limited
             PROVE  (HeldOK(f) => HeldOK(f)') /\ NotBelow(f) /\ Exactly(f) /\ Stands(f)
    BY DEF Counted
<1>1. Of(f)' = Of(f) /\ h \in Nodes  BY DEF Of
<1>2. PICK O : O = Of(f) /\ O = Of(f)' /\ (h \in O <=> f = g)
    <2>1. h \in Of(f) <=> f = g  BY DEF Of
    <2> QED  BY <1>1, <2>1
<1>3. PICK x \in {0, 1} : x = IF f = g THEN 1 ELSE 0  OBVIOUS
<1>4. PICK k \in {0, x} : k = IF f = g /\ ~(m_count[g] < 0) THEN 1 ELSE 0  BY <1>3
<1>5. /\ LetNodes \in SUBSET Nodes /\ HeldNodes \in SUBSET Nodes
      /\ h \in Nodes /\ h \notin LetNodes
    BY <1>1 DEF LetNodes, HeldNodes
<1>6. Cardinality(CountedOf(f)') = Cardinality(CountedOf(f)) + x
    <2>1. Cardinality(LetNodes' \cap O) = Cardinality(LetNodes \cap O) + (IF h \in O THEN 1 ELSE 0)
        BY <1>2, <1>5, OneJoins
    <2> QED  BY <1>2, <1>3, <2>1 DEF CountedOf
<1>7. Cardinality(HeldOf(f)') = Cardinality(HeldOf(f)) + k
    <2>1. CASE m_count[g] < 0 /\ HeldNodes' = HeldNodes
        <3>1. HeldOf(f)' = HeldOf(f) /\ k = 0  BY <1>2, <1>4, <2>1 DEF HeldOf
        <3> QED  BY <3>1, SetsFinite
    <2>2. CASE ~(m_count[g] < 0) /\ HeldNodes' = HeldNodes \cup {h} /\ ~Held(h)
        <3>1. h \notin HeldNodes  BY <2>2 DEF HeldNodes
        <3>2. Cardinality(HeldNodes' \cap O)
                  = Cardinality(HeldNodes \cap O) + (IF h \in O THEN 1 ELSE 0)
            BY <1>2, <1>5, <2>2, <3>1, OneJoins
        <3> QED  BY <1>2, <1>4, <2>2, <3>2 DEF HeldOf
    <2> QED  BY <2>1, <2>2
<1>8. Cardinality(TakersOf(f)') = Cardinality(TakersOf(f)) + 0
    <2>1. TakersOf(f)' = TakersOf(f)  BY <1>2 DEF TakersOf
    <2> QED  BY <2>1, SetsFinite
<1>9. PICK o \in Int : o = m_count[f]  BY DEF PlaceInv, Types
<1>10. m_count'[f] = o + x  BY <1>3, <1>9 DEF PlaceInv, Types, CountIn
<1>11. Positive(o + x) = Positive(o) + k - 0
    <2>1. f = g => k = IF o < 0 THEN 0 ELSE 1  BY <1>4, <1>9
    <2> QED  BY <1>3, <1>4, <2>1 DEF Positive
<1>12. Weighs(f, x, k, 0)  BY <1>6, <1>7, <1>8 DEF Weighs
<1>13. (HeldOK(f) => HeldOK(f)') /\ NotBelow(f) /\ Exactly(f)
    <2>1. PICK m \in Int : m = o + x  BY <1>3
    <2>2. m = m_count'[f] /\ m = m_count[f] + x  BY <1>9, <1>10, <2>1
    <2>3. Positive(m) = Positive(m_count[f]) + k - 0  BY <1>9, <1>11, <2>1
    <2>4. x \in Int /\ k \in Int /\ 0 \in Int  BY <1>3, <1>4
    <2> QED  BY ONLY PlaceInv, f \in Limited, m \in Int, <1>12, <2>2, <2>3, <2>4, Balanced
<1>14. Come(f) \subseteq Come(f)'
    <2>1. \A n \in Of(f) : LetIn(n) => LetIn(n)'  BY DEF LetNodes, Of
    <2> QED  BY <1>1, <2>1, ComeKept
<1>15. f = g => Come(f)' # Come(f)
    <2>1. LetIn(h)'  BY <1>1 DEF LetNodes
    <2>2. h \in Of(g)' /\ ~(LetIn(h) \/ status[h] # "Initing")  BY <1>1 DEF Of
    <2>3. h \in Come(g)' /\ h \notin Come(g)  BY <2>1, <2>2 DEF Come
    <2> QED  BY <2>3
<1>16. Stands(f)
    <2>1. CASE k = 0
        <3>1. Cardinality(HeldOf(f)') = Cardinality(HeldOf(f))  BY <1>7, <2>1, SetsFinite
        <3> QED  BY <1>14, <3>1, NoneBrought
    <2>2. CASE k # 0
        <3>1. k = 1 /\ f = g /\ ~(o < 0)  BY <1>3, <1>4, <1>9, <2>2
        <3>2. m_count[f] >= 0  BY <1>9, <3>1
        <3>3. PICK r \in Nat : r = read[f] /\ r = read'[f]  BY DEF ReadTypes
        <3>4. Brought(f)' = Brought(f) + 1
            <4>1. Brought(f)' = r + Cardinality(HeldOf(f)')  BY <3>3 DEF Brought
            <4>2. Brought(f) = r + Cardinality(HeldOf(f))  BY <3>3 DEF Brought
            <4>3. PICK c \in Nat : c = Cardinality(HeldOf(f))  BY SetsFinite
            <4>4. Cardinality(HeldOf(f)') = c + 1  BY <1>7, <3>1, <4>3
            <4>5. r + (c + 1) = r + c + 1  OBVIOUS
            <4> QED  BY <4>1, <4>2, <4>3, <4>4, <4>5
        <3> QED  BY <1>14, <1>15, <3>1, <3>2, <3>4 DEF Stands
    <2> QED  BY <2>1, <2>2
<1> QED  BY <1>13, <1>16

-----------------------------------------------------------------------------
(* The steps and the count *)

LEMMA ReadyCount ==
    ASSUME PlaceInv, ReadTypes, Ongoing, NEW t \in Threads, ready(t)
    PROVE  Counted
<1>1. pc[t] = "ready" /\ pc[t] \in Calling /\ pc[t] \in Asking
    BY DEF ready, At, Calling, Asking, Go
<1>2. PICK h \in Nodes : h = Head(todo[t])  BY <1>1, InCall
<1>3. Has("todo", t, h) /\ status[h] = "Initing"  BY <1>1, <1>2, InCall DEF Fits
<1>4. UNCHANGED <<nodeVars, g_wait_count, limit_queue, workerVars>> /\ UNCHANGED read
    BY DEF ready, ringVars
<1>5. \A n \in Nodes : Ring(n)' <=> Ring(n)  BY <1>4 DEF Ring, InRing
<1>6. PICK g : g = parent_graph[h]  OBVIOUS
<1>7. CASE Go(t, "ready", "hold") /\ g \in Limited /\ ~HasPlace(g) /\ CountIn(g)
           /\ UNCHANGED <<task_queue, todo>>
    <2>1. pc' = [pc EXCEPT ![t] = "hold"]  BY <1>7 DEF Go
    <2>2. /\ pc'[t] = "hold" /\ \A u \in Threads \ {t} : pc'[u] = pc[u]
          /\ \A w \in Workers : Stage(w)' = Stage(w)
        <3>1. limit_graph(h)  BY <1>6, <1>7 DEF limit_graph
        <3> QED  BY <1>1, <1>2, <1>4, <1>7, <2>1, <3>1, CallerKept
    <2>3. Alone(t)  BY <1>4, <1>7, <2>2 DEF Alone, workerVars
    <2>4. \A n \in Nodes : /\ Queued(n)' <=> Queued(n)
                           /\ ~HeadOf(t, n) /\ (HeadOf(t, n)' <=> n = h)
                           /\ ~TakesFor(t, n) /\ ~TakesFor(t, n)'
        BY <1>1, <1>2, <1>7, <2>2 DEF Queued, HeadOf, Stuck, TakesFor
    <2>5. \A n \in Nodes : Lets(t, n)' <=> Lets(t, n) \/ n = h
        BY <1>4, <2>2, <2>4 DEF Lets, workerVars
    <2>6. ~LetIn(h) /\ ~Held(h)
        <3>1. ~Lets(t, h)  BY <1>3, <2>4, Apart DEF Lets
        <3> QED  BY <1>3, <2>3, <2>4, <3>1, Apart, Shares
    <2>7. \A n \in Nodes : /\ LetIn(n)' <=> LetIn(n) \/ n = h
                           /\ Held(n)' <=> Held(n) \/ n = h
                           /\ Taken(n)' <=> Taken(n)
        BY <1>5, <2>3, <2>4, <2>5, Shares
    <2>8. /\ LetNodes' = LetNodes \cup {h} /\ HeldNodes' = HeldNodes \cup {h}
          /\ Takers' = Takers
        BY <2>7 DEF LetNodes, HeldNodes, Takers
    <2>9. h \in Of(g) /\ UNCHANGED parent_graph /\ ~(m_count[g] < 0)
        BY <1>4, <1>6, <1>7 DEF Of, nodeVars, HasPlace
    <2> QED  BY <1>3, <1>4, <1>7, <2>6, <2>8, <2>9, OneIn
<1>8. CASE /\ Go(t, "ready", After(t, Tail(todo[t])))
           /\ add_new_task(h) /\ todo' = [todo EXCEPT ![t] = Tail(@)]
           /\ g \in Limited => HasPlace(g) /\ CountIn(g)
           /\ g \notin Limited => UNCHANGED m_count
    <2>1. PICK to : to = After(t, Tail(todo[t])) /\ pc' = [pc EXCEPT ![t] = to]
        BY <1>8 DEF Go
    <2>2. /\ todo'[t] = Tail(todo[t])
          /\ \A u \in Threads \ {t} : todo'[u] = todo[u]
        BY <1>8 DEF PlaceInv, Types
    <2>3. /\ pc'[t] = to /\ \A u \in Threads \ {t} : pc'[u] = pc[u]
          /\ \A w \in Workers : Stage(w)' = Stage(w)
        BY <1>1, <1>4, <2>1, <2>2, CallerKept
    <2>4. Alone(t)  BY <1>4, <2>2, <2>3 DEF Alone, workerVars
    <2>5. pc'[t] \notin {"hold", "look", "claim", "thrown", "take"}
        BY <2>1, <2>3 DEF After, PlaceInv, Types, Threads
    <2>6. \A n \in Nodes : /\ Queued(n)' <=> Queued(n) \/ n = h
                           /\ ~HeadOf(t, n) /\ ~HeadOf(t, n)'
                           /\ ~TakesFor(t, n) /\ ~TakesFor(t, n)'
        <3>1. \A n \in Nodes : Queued(n)' <=> Queued(n) \/ n = h
            BY <1>8 DEF Queued, add_new_task, PlaceInv, Types
        <3> QED  BY <1>1, <2>5, <3>1 DEF HeadOf, Stuck, TakesFor
    <2>7. \A n \in Nodes : Lets(t, n)' <=> Lets(t, n)
        BY <1>4, <2>3, <2>6 DEF Lets, workerVars
    <2>8. \A n \in Nodes : /\ LetIn(n)' <=> LetIn(n) \/ n = h
                           /\ Held(n)' <=> Held(n)
                           /\ Taken(n)' <=> Taken(n)
        BY <1>5, <2>4, <2>6, <2>7, Shares
    <2>9. UNCHANGED parent_graph  BY <1>4 DEF nodeVars
    <2>10. CASE g \notin Limited
        <3>1. \A n \in Nodes : limit_graph(n) => Still(n)
            BY <1>6, <2>8, <2>10 DEF limit_graph, Still
        <3> QED  BY <1>4, <1>8, <2>9, <2>10, <3>1, AllStill
    <2>11. CASE g \in Limited
        <3>1. ~LetIn(h)
            <4>1. ~Lets(t, h)  BY <1>3, <2>6, Apart DEF Lets
            <4> QED  BY <1>3, <2>4, <4>1, Apart, Shares
        <3>2. LetNodes' = LetNodes \cup {h} /\ HeldNodes' = HeldNodes /\ Takers' = Takers
            BY <2>8 DEF LetNodes, HeldNodes, Takers
        <3>3. h \in Of(g) /\ m_count[g] < 0 /\ CountIn(g)
            BY <1>6, <1>8, <2>11 DEF Of, HasPlace
        <3> QED  BY <1>3, <1>4, <2>9, <2>11, <3>1, <3>2, <3>3, OneIn
    <2> QED  BY <2>10, <2>11
<1> QED  BY <1>2, <1>6, <1>7, <1>8 DEF ready

LEMMA HoldCount ==
    ASSUME PlaceInv, ReadTypes, Ongoing, NEW t \in Threads, Hold(t)
    PROVE  Counted
<1>1. pc[t] = "claim" /\ pc[t] \in Calling /\ pc[t] \in Asking /\ Stuck(t)
    BY DEF Hold, At, Calling, Asking, Go, Stuck
<1>2. PICK h \in Nodes : h = Head(todo[t])  BY <1>1, InCall
<1>3. PICK g \in Limited : g = parent_graph[h]
    BY <1>1, <1>2 DEF PlaceInv, Calls, CallOK, limit_graph
<1>4. /\ UNCHANGED <<nodeVars, g_wait_count, m_count, read, task_queue, workerVars>>
      /\ pc' = [pc EXCEPT ![t] = "put"]
      /\ limit_queue' = [limit_queue EXCEPT ![g] = Append(@, h)]
      /\ todo' = [todo EXCEPT ![t] = Tail(@)]
    BY <1>2, <1>3 DEF Hold, Go, holds
<1>5. todo'[t] = Tail(todo[t]) /\ \A u \in Threads \ {t} : todo'[u] = todo[u]
    BY <1>4 DEF PlaceInv, Types
<1>6. /\ pc'[t] = "put" /\ \A u \in Threads \ {t} : pc'[u] = pc[u]
      /\ \A w \in Workers : Stage(w)' = Stage(w)
    BY <1>1, <1>4, <1>5, CallerKept
<1>7. Alone(t)  BY <1>4, <1>5, <1>6 DEF Alone, workerVars
<1>8. pc'[t] \notin {"hold", "look", "claim", "thrown", "take"}  BY <1>6
<1>9. \A n \in Nodes : Ring(n)' <=> Ring(n) \/ n = h
    <2>1. limit_queue[g] \in Seq(Nodes) /\ limit_queue \in [Limited -> Seq(Nodes)]
        BY DEF PlaceInv, Types
    <2>2. ToSet(Append(limit_queue[g], h)) = ToSet(limit_queue[g]) \cup {h}
        BY <2>1, AppendSet
    <2>3. /\ limit_queue'[g] = Append(limit_queue[g], h)
          /\ \A f \in Limited \ {g} : limit_queue'[f] = limit_queue[f]
        BY <1>4, <2>1
    <2> QED  BY <2>2, <2>3 DEF Ring, InRing
<1>10. \A n \in Nodes : /\ Queued(n)' <=> Queued(n)
                        /\ (HeadOf(t, n) <=> n = h) /\ ~HeadOf(t, n)'
                        /\ ~TakesFor(t, n) /\ ~TakesFor(t, n)'
    BY <1>1, <1>2, <1>4, <1>8 DEF Queued, HeadOf, Stuck, TakesFor
<1>11. \A n \in Nodes : Lets(t, n) <=> Lets(t, n)' \/ n = h
    BY <1>4, <1>6, <1>10 DEF Lets, workerVars
<1>12. \A n \in Nodes : Still(n)
    BY <1>7, <1>9, <1>10, <1>11, Shares DEF Still
<1> QED  BY <1>4, <1>12, AllStill DEF nodeVars

LEMMA LooksCount ==
    ASSUME PlaceInv, Ongoing, NEW t \in Threads, Looks(t)
    PROVE  Counted
<1>1. UNCHANGED <<nodeVars, g_wait_count, m_count, limit_queue, read, task_queue, todo,
                  workerVars>>
    BY DEF Looks
<1>2. /\ \A u \in Threads \ {t} : pc'[u] = pc[u]
      /\ \A w \in Workers : Stage(w)' = Stage(w)
      /\ Stuck(t)' <=> Stuck(t)
      /\ pc[t] # "take" /\ pc'[t] # "take"
    BY LooksFacts
<1>3. Alone(t)  BY <1>1, <1>2 DEF Alone, workerVars
<1>4. \A n \in Nodes : /\ Queued(n)' <=> Queued(n)
                       /\ Ring(n)' <=> Ring(n)
                       /\ HeadOf(t, n)' <=> HeadOf(t, n)
                       /\ ~TakesFor(t, n) /\ ~TakesFor(t, n)'
    BY <1>1, <1>2 DEF Queued, Ring, InRing, HeadOf, TakesFor
<1>5. \A n \in Nodes : Lets(t, n)' <=> Lets(t, n)
    BY <1>1, <1>2, <1>4 DEF Lets, workerVars
<1>6. \A n \in Nodes : Still(n)  BY <1>3, <1>4, <1>5, Shares DEF Still
<1> QED  BY <1>1, <1>6, AllStill DEF nodeVars

LEMMA DequeueCount ==
    ASSUME PlaceInv, ReadTypes, Ongoing, NEW w \in Workers, NEW n \in Nodes, Dequeue(w, n)
    PROVE  Counted
<1>1. /\ pc[w] = "idle" /\ pc[w] \notin Calling /\ pc' = [pc EXCEPT ![w] = "run"]
      /\ task_queue[n] > 0 /\ task_queue' = [task_queue EXCEPT ![n] = @ - 1]
      /\ task' = [task EXCEPT ![w] = n]
      /\ UNCHANGED <<nodeVars, g_wait_count, queueVars, todo, then, temp_node, next_task>>
    BY DEF Dequeue, Go, At, Calling
<1>2. w \in Threads /\ Stage(w) = "idle" /\ LocalOK(w)  BY <1>1, WorkerAt
<1>3. /\ pc'[w] = "run" /\ task'[w] = n
      /\ \A u \in Threads \ {w} : pc'[u] = pc[u]
      /\ \A v \in Workers \ {w} : task'[v] = task[v]
    BY <1>1, <1>2 DEF PlaceInv, Types
<1>4. Alone(w)  BY <1>1, <1>3 DEF Alone
<1>5. next_task[w] = nullptr /\ task[w] = nullptr /\ nullptr \notin Nodes
    BY <1>2, NodeFacts DEF LocalOK
<1>6. Stage(w)' = "run"  BY <1>3 DEF Stage, Calling
<1>7. \A m \in Nodes : Queued(m) <=> Queued(m)' \/ m = n
    BY <1>1 DEF Queued, PlaceInv, Types, Once
<1>8. \A m \in Nodes : /\ Ring(m)' <=> Ring(m)
                       /\ ~HeadOf(w, m) /\ ~HeadOf(w, m)'
                       /\ ~TakesFor(w, m) /\ ~TakesFor(w, m)'
    BY <1>1, <1>3 DEF Ring, InRing, HeadOf, Stuck, TakesFor, queueVars, ringVars
<1>9. \A m \in Nodes : ~Lets(w, m) /\ (Lets(w, m)' <=> m = n)
    BY <1>1, <1>2, <1>3, <1>5, <1>6, <1>8 DEF Lets
<1>10. \A m \in Nodes : Still(m)  BY <1>2, <1>4, <1>7, <1>8, <1>9, Shares DEF Still
<1> QED  BY <1>1, <1>10, AllStill DEF nodeVars, queueVars, ringVars

LEMMA ResumeCount ==
    ASSUME PlaceInv, ReadTypes, Ongoing, NEW w \in Workers, Resume(w)
    PROVE  Counted
<1>1. /\ pc[w] = "run" /\ pc[w] \notin Calling /\ pc' = [pc EXCEPT ![w] = "finish"]
      /\ UNCHANGED <<parent_graph, down_streams, g_wait_count, queueVars, task_queue, todo,
                     workerVars>>
    BY DEF Resume, Go, At, Calling
<1>2. w \in Threads /\ Stage(w) = "run"  BY <1>1, WorkerAt
<1>3. pc'[w] = "finish" /\ \A u \in Threads \ {w} : pc'[u] = pc[u]
    BY <1>1, <1>2 DEF PlaceInv, Types
<1>4. Alone(w)  BY <1>1, <1>3 DEF Alone, workerVars
<1>5. Stage(w)' = "finish"  BY <1>3 DEF Stage, Calling
<1>6. \A m \in Nodes : /\ Queued(m)' <=> Queued(m)
                       /\ Ring(m)' <=> Ring(m)
                       /\ ~HeadOf(w, m) /\ ~HeadOf(w, m)'
                       /\ ~TakesFor(w, m) /\ ~TakesFor(w, m)'
    BY <1>1, <1>3 DEF Queued, Ring, InRing, HeadOf, Stuck, TakesFor, queueVars, ringVars
<1>7. \A m \in Nodes : Lets(w, m)' <=> Lets(w, m)
    BY <1>1, <1>2, <1>5, <1>6 DEF Lets, workerVars
<1>8. \A m \in Nodes : Still(m)  BY <1>2, <1>4, <1>6, <1>7, Shares DEF Still
<1> QED  BY <1>1, <1>8, AllStill DEF queueVars, ringVars

LEMMA ReturnCount ==
    ASSUME PlaceInv, ReadTypes, Ongoing, NEW w \in Workers, Return(w)
    PROVE  Counted
<1>1. pc[w] = "return" /\ pc[w] \notin Calling  BY DEF Return, Go, At, Calling
<1>2. w \in Threads /\ Stage(w) = "return"  BY <1>1, WorkerAt
<1>3. PICK x \in Nodes \cup {nullptr} : x = next_task[w]  BY DEF PlaceInv, Types
<1>4. PICK to \in {"idle", "run"} : to = IF x = nullptr THEN "idle" ELSE "run"  OBVIOUS
<1>5. /\ pc' = [pc EXCEPT ![w] = to]
      /\ task' = [task EXCEPT ![w] = x] /\ next_task' = [next_task EXCEPT ![w] = nullptr]
      /\ UNCHANGED <<parent_graph, down_streams, g_wait_count, queueVars, task_queue, todo,
                     then, temp_node>>
    BY <1>3, <1>4 DEF Return, Go
<1>6. /\ pc'[w] = to /\ task'[w] = x /\ next_task'[w] = nullptr
      /\ \A u \in Threads \ {w} : pc'[u] = pc[u]
      /\ \A v \in Workers \ {w} : task'[v] = task[v] /\ next_task'[v] = next_task[v]
    BY <1>2, <1>5 DEF PlaceInv, Types
<1>7. Alone(w)  BY <1>5, <1>6 DEF Alone
<1>8. Stage(w)' = to  BY <1>4, <1>6 DEF Stage, Calling
<1>9. \A m \in Nodes : /\ Queued(m)' <=> Queued(m)
                       /\ Ring(m)' <=> Ring(m)
                       /\ ~HeadOf(w, m) /\ ~HeadOf(w, m)'
                       /\ ~TakesFor(w, m) /\ ~TakesFor(w, m)'
    BY <1>1, <1>4, <1>5, <1>6 DEF Queued, Ring, InRing, HeadOf, Stuck, TakesFor, queueVars, ringVars
<1>10. \A m \in Nodes : (Lets(w, m) <=> m = x) /\ (Lets(w, m)' <=> m = x)
    BY <1>2, <1>3, <1>4, <1>6, <1>8, <1>9, NodeFacts DEF Lets
<1>11. \A m \in Nodes : Still(m)  BY <1>2, <1>7, <1>9, <1>10, Shares DEF Still
<1> QED  BY <1>5, <1>11, AllStill DEF queueVars, ringVars

LEMMA OfferCount ==
    ASSUME PlaceInv, ReadTypes, Ongoing, NEW w \in Workers, Offer(w)
    PROVE  Counted
<1>1. pc[w] = "offer" /\ pc[w] \notin Calling  BY DEF Offer, At, Calling
<1>2. w \in Threads /\ Stage(w) = "offer" /\ LocalOK(w)  BY <1>1, WorkerAt
<1>3. PICK z \in Nodes : z = temp_node[w] /\ limit_graph(z)
    BY <1>2 DEF LocalOK, PlaceInv, Types
<1>4. PICK g \in Limited : g = parent_graph[z]  BY <1>3 DEF limit_graph
<1>5. Has("temp", w, z) /\ status[z] = "Initing"
    <2>1. Has("temp", w, z)  BY <1>3 DEF Has
    <2>2. Fits(z, "temp", w)  BY <1>2, <2>1, AtPlace DEF PlaceInv, Kinds, Owners
    <2> QED  BY <2>1, <2>2 DEF Fits
<1>6. /\ UNCHANGED <<nodeVars, limit_queue, read, task_queue, task>>
      /\ temp_node' = [temp_node EXCEPT ![w] = nullptr]
      /\ then' = [then EXCEPT ![w] = "return"]
      /\ CountIn(g)
    BY <1>3, <1>4 DEF Offer, ringVars
<1>7. next_task[w] = nullptr /\ nullptr \notin Nodes  BY <1>2, NodeFacts DEF LocalOK
<1>8. then'[w] = "return" /\ \A v \in Workers \ {w} : then'[v] = then[v]
                                                      /\ temp_node'[v] = temp_node[v]
    BY <1>6 DEF PlaceInv, Types
<1>9. \A m \in Nodes : /\ Queued(m)' <=> Queued(m)
                       /\ Ring(m)' <=> Ring(m)
                       /\ ~HeadOf(w, m) /\ ~TakesFor(w, m) /\ ~Lets(w, m)
    BY <1>1, <1>2, <1>6, <1>7 DEF Queued, Ring, InRing, HeadOf, Stuck, TakesFor, Lets
<1>10. z \in Of(g) /\ UNCHANGED parent_graph  BY <1>4, <1>6 DEF Of, nodeVars
<1>11. CASE /\ HasPlace(g) /\ pc' = [pc EXCEPT ![w] = "return"]
            /\ next_task' = [next_task EXCEPT ![w] = z] /\ UNCHANGED todo
    <2>1. /\ pc'[w] = "return" /\ \A u \in Threads \ {w} : pc'[u] = pc[u]
          /\ next_task'[w] = z /\ \A v \in Workers \ {w} : next_task'[v] = next_task[v]
        BY <1>2, <1>11 DEF PlaceInv, Types
    <2>2. Alone(w)  BY <1>6, <1>8, <1>11, <2>1 DEF Alone
    <2>3. Stage(w)' = "return"  BY <2>1 DEF Stage, Calling
    <2>4. \A m \in Nodes : ~HeadOf(w, m)' /\ ~TakesFor(w, m)' /\ (Lets(w, m)' <=> m = z)
        BY <2>1, <2>3 DEF HeadOf, Stuck, TakesFor, Lets
    <2>5. ~LetIn(z)  BY <1>2, <1>5, <1>9, <2>2, Apart, Shares
    <2>6. \A m \in Nodes : /\ LetIn(m)' <=> LetIn(m) \/ m = z
                           /\ Held(m)' <=> Held(m)
                           /\ Taken(m)' <=> Taken(m)
        BY <1>2, <1>9, <2>2, <2>4, Shares
    <2>7. LetNodes' = LetNodes \cup {z} /\ HeldNodes' = HeldNodes /\ Takers' = Takers
        BY <2>6 DEF LetNodes, HeldNodes, Takers
    <2>8. m_count[g] < 0  BY <1>11 DEF HasPlace
    <2> QED  BY <1>5, <1>6, <1>10, <2>5, <2>7, <2>8, OneIn
<1>12. CASE /\ ~HasPlace(g) /\ pc' = [pc EXCEPT ![w] = "hold"]
            /\ todo' = [todo EXCEPT ![w] = <<z>>] /\ UNCHANGED next_task
    <2>1. /\ pc'[w] = "hold" /\ \A u \in Threads \ {w} : pc'[u] = pc[u]
          /\ todo'[w] = <<z>> /\ \A u \in Threads \ {w} : todo'[u] = todo[u]
        BY <1>2, <1>12 DEF PlaceInv, Types
    <2>2. Alone(w)  BY <1>6, <1>8, <1>12, <2>1 DEF Alone
    <2>3. Stage(w)' = "return"  BY <1>8, <2>1 DEF Stage, Calling
    <2>4. \A m \in Nodes : ~TakesFor(w, m)' /\ (HeadOf(w, m)' <=> m = z) /\ (Lets(w, m)' <=> m = z)
        BY <1>7, <1>12, <2>1, <2>3, ShortSets DEF HeadOf, Stuck, TakesFor, Lets
    <2>5. ~LetIn(z) /\ ~Held(z)  BY <1>2, <1>5, <1>9, <2>2, Apart, Shares
    <2>6. \A m \in Nodes : /\ LetIn(m)' <=> LetIn(m) \/ m = z
                           /\ Held(m)' <=> Held(m) \/ m = z
                           /\ Taken(m)' <=> Taken(m)
        BY <1>2, <1>9, <2>2, <2>4, Shares
    <2>7. /\ LetNodes' = LetNodes \cup {z} /\ HeldNodes' = HeldNodes \cup {z}
          /\ Takers' = Takers
        BY <2>6 DEF LetNodes, HeldNodes, Takers
    <2>8. ~(m_count[g] < 0)  BY <1>12 DEF HasPlace
    <2> QED  BY <1>5, <1>6, <1>10, <2>5, <2>7, <2>8, OneIn
<1> QED  BY <1>3, <1>4, <1>11, <1>12 DEF Offer, Go

LEMMA PassCount ==
    ASSUME PlaceInv, ReadTypes, Ongoing, NEW w \in Workers, Pass(w)
    PROVE  Counted
<1> SUFFICES ASSUME NEW f \in Limited
             PROVE  /\ HeldOK(f) => HeldOK(f)'
                    /\ NotBelow(f) /\ (NoLimitedEdges => Exactly(f))
                    /\ Stands(f)
    BY DEF Counted
<1>1. pc[w] = "pass" /\ pc[w] \notin Calling  BY DEF Pass, At, Calling
<1>2. w \in Threads /\ Stage(w) = "pass" /\ LocalOK(w)  BY <1>1, WorkerAt
<1>3. PICK n \in Nodes : n = task[w]  BY <1>1, WorkerAt
<1>4. PICK g \in Limited : g = parent_graph[n]  BY <1>2, <1>3 DEF LocalOK, limit_graph
<1>5. PICK z \in Nodes \cup {nullptr} : z = temp_node[w]  BY DEF PlaceInv, Types
<1>6. Has("task", w, n) /\ (z # nullptr => Has("temp", w, z))  BY <1>3, <1>5 DEF Has
<1>7. /\ UNCHANGED <<nodeVars, limit_queue, read, task_queue, todo, then, task>>
      /\ m_count' = [m_count EXCEPT ![g] = @ - 1]
    BY <1>3, <1>4 DEF Pass, ringVars
<1>8. next_task[w] = nullptr /\ nullptr \notin Nodes  BY <1>2, NodeFacts DEF LocalOK
<1>9. \A m \in Nodes : /\ Queued(m)' <=> Queued(m)
                       /\ Ring(m)' <=> Ring(m)
                       /\ ~HeadOf(w, m) /\ ~TakesFor(w, m)
                       /\ Lets(w, m) <=> m = n
    BY <1>1, <1>2, <1>3, <1>7, <1>8 DEF Queued, Ring, InRing, HeadOf, Stuck, TakesFor, Lets
<1>10. UNCHANGED parent_graph /\ Of(f)' = Of(f) /\ (n \in Of(f) <=> f = g)
    BY <1>4, <1>7 DEF Of, nodeVars
<1>11. PICK x \in {0, 1} : x = IF f = g THEN 1 ELSE 0  OBVIOUS
<1>12. PICK o \in Int : o = m_count[f]  BY DEF PlaceInv, Types
<1>13. m_count'[f] = o - x  BY <1>7, <1>11, <1>12 DEF PlaceInv, Types
<1>14. PICK O : O = Of(f)  OBVIOUS
<1>15. LetNodes \in SUBSET Nodes /\ Takers \in SUBSET Nodes  BY DEF LetNodes, Takers
<1>0. status'[n] # "Initing"  BY <1>2, <1>3, <1>7 DEF LocalOK, nodeVars
<1>16. CASE HasHeld(g) /\ pc' = [pc EXCEPT ![w] = "take"] /\ UNCHANGED <<next_task, temp_node>>
    <2>1. pc'[w] = "take" /\ \A u \in Threads \ {w} : pc'[u] = pc[u]
        BY <1>2, <1>16 DEF PlaceInv, Types
    <2>2. Alone(w)  BY <1>7, <1>16, <2>1 DEF Alone
    <2>3. Stage(w)' = "take"  BY <2>1 DEF Stage, Calling
    <2>4. \A m \in Nodes : ~HeadOf(w, m)' /\ (TakesFor(w, m)' <=> m = n) /\ ~Lets(w, m)'
        BY <1>3, <1>7, <1>8, <1>16, <2>1, <2>3 DEF HeadOf, Stuck, TakesFor, Lets
    <2>5. LetIn(n) /\ ~LetIn(n)' /\ ~Taken(n)
        BY <1>2, <1>6, <1>9, <2>2, <2>4, Apart, Shares
    <2>6. \A m \in Nodes : /\ m # n => (LetIn(m)' <=> LetIn(m))
                           /\ Held(m)' <=> Held(m)
                           /\ Taken(m)' <=> Taken(m) \/ m = n
        BY <1>2, <1>9, <2>2, <2>4, Shares
    <2>7. /\ n \in LetNodes /\ LetNodes' = LetNodes \ {n} /\ HeldNodes' = HeldNodes
          /\ n \notin Takers /\ Takers' = Takers \cup {n}
        BY <2>5, <2>6 DEF LetNodes, HeldNodes, Takers
    <2>8. Cardinality(CountedOf(f)') = Cardinality(CountedOf(f)) - x
        <3>1. Cardinality(LetNodes' \cap O)
                  = Cardinality(LetNodes \cap O) - (IF n \in O THEN 1 ELSE 0)
            BY <1>15, <2>7, OneLeaves
        <3> QED  BY <1>10, <1>11, <1>14, <3>1 DEF CountedOf
    <2>9. Cardinality(TakersOf(f)') = Cardinality(TakersOf(f)) + x
        <3>1. Cardinality(Takers' \cap O)
                  = Cardinality(Takers \cap O) + (IF n \in O THEN 1 ELSE 0)
            BY <1>15, <2>7, OneJoins
        <3> QED  BY <1>10, <1>11, <1>14, <3>1 DEF TakersOf
    <2>10. Cardinality(HeldOf(f)') = Cardinality(HeldOf(f)) + 0
        <3>1. HeldOf(f)' = HeldOf(f)  BY <1>10, <2>7 DEF HeldOf
        <3> QED  BY <3>1, SetsFinite
    <2>11. Cardinality(CountedOf(f)') = Cardinality(CountedOf(f)) + (-x)
        BY <2>8, SetsFinite
    <2>12. Weighs(f, -x, 0, x)  BY <2>9, <2>10, <2>11 DEF Weighs
    <2>13. f = g => o > 0  BY <1>12, <1>16 DEF HasHeld
    <2>14. Positive(o - x) = Positive(o) + 0 - x  BY <1>11, <2>13 DEF Positive
    <2>15. o - x = o + (-x) /\ -x \in Int /\ o - x \in Int  OBVIOUS
    <2>16. (HeldOK(f) => HeldOK(f)') /\ NotBelow(f) /\ Exactly(f)
        BY <1>12, <1>13, <2>12, <2>14, <2>15, Balanced
    <2>17. Stands(f)
        <3>1. Cardinality(HeldOf(f)') = Cardinality(HeldOf(f))  BY <2>10, SetsFinite
        <3>2. Come(f) \subseteq Come(f)'  BY <1>10, <1>0, <2>6, ComeKept DEF Of
        <3> QED  BY <1>7, <3>1, <3>2, NoneBrought
    <2> QED  BY <2>16, <2>17
<1>17. CASE /\ ~HasHeld(g) /\ pc' = [pc EXCEPT ![w] = "return"]
            /\ next_task' = [next_task EXCEPT ![w] = z]
            /\ temp_node' = [temp_node EXCEPT ![w] = nullptr]
    <2>1. /\ pc'[w] = "return" /\ \A u \in Threads \ {w} : pc'[u] = pc[u]
          /\ next_task'[w] = z
          /\ \A v \in Workers \ {w} : next_task'[v] = next_task[v] /\ temp_node'[v] = temp_node[v]
        BY <1>2, <1>17 DEF PlaceInv, Types
    <2>2. Alone(w)  BY <1>7, <2>1 DEF Alone
    <2>3. Stage(w)' = "return"  BY <2>1 DEF Stage, Calling
    <2>4. \A m \in Nodes : ~HeadOf(w, m)' /\ ~TakesFor(w, m)' /\ (Lets(w, m)' <=> m = z)
        BY <1>3, <1>7, <2>1, <2>3 DEF HeadOf, Stuck, TakesFor, Lets
    <2>5. LetIn(n) /\ (z # n => ~LetIn(n)')
        BY <1>2, <1>6, <1>9, <2>2, <2>4, Apart, Shares
    <2>6. \A m \in Nodes : /\ m # n /\ m # z => (LetIn(m)' <=> LetIn(m))
                           /\ Held(m)' <=> Held(m)
                           /\ Taken(m)' <=> Taken(m)
        BY <1>2, <1>9, <2>2, <2>4, Shares
    <2>7. z # nullptr => z # n /\ ~LetIn(z) /\ LetIn(z)' /\ parent_graph[z] # g
        <3>1. z # nullptr => parent_graph[z] # g  BY <1>2, <1>3, <1>4, <1>5 DEF LocalOK
        <3>2. z # nullptr => z # n  BY <1>4, <3>1
        <3> QED  BY <1>2, <1>6, <1>9, <2>2, <2>4, <3>1, <3>2, Apart, Shares
    <2>8. HeldOf(f)' = HeldOf(f) /\ TakersOf(f)' = TakersOf(f)
        <3>1. HeldNodes' = HeldNodes /\ Takers' = Takers  BY <2>6 DEF HeldNodes, Takers
        <3> QED  BY <1>10, <3>1 DEF HeldOf, TakersOf
    <2>0. Stands(f)
        <3>1. Cardinality(HeldOf(f)') = Cardinality(HeldOf(f))  BY <2>8
        <3>2. \A m \in Nodes : LetIn(m) => LetIn(m)' \/ m = n
            BY <1>8, <2>6, <2>7
        <3>3. Come(f) \subseteq Come(f)'  BY <1>10, <1>0, <3>2, ComeKept DEF Of
        <3> QED  BY <1>7, <3>1, <3>3, NoneBrought
    <2>9. PICK A \in SUBSET Nodes : A = LetNodes \ {n}  BY <1>15
    <2>10. n \in LetNodes  BY <2>5 DEF LetNodes
    <2>11. Cardinality(A \cap O) = Cardinality(CountedOf(f)) - x
        <3>1. Cardinality(A \cap O) = Cardinality(LetNodes \cap O) - (IF n \in O THEN 1 ELSE 0)
            BY <1>15, <2>9, <2>10, OneLeaves
        <3> QED  BY <1>10, <1>11, <1>14, <3>1 DEF CountedOf
    <2>12. f = g => ~(o > 0)  BY <1>12, <1>17 DEF HasHeld
    <2>13. Positive(o - x) = Positive(o) + 0 - 0  BY <1>11, <2>12 DEF Positive
    <2>14. o - x = o + (-x) /\ -x \in Int /\ o - x \in Int  OBVIOUS
    <2>15. CASE Cardinality(CountedOf(f)') = Cardinality(A \cap O)
        <3>1. Cardinality(CountedOf(f)') = Cardinality(CountedOf(f)) + (-x)
            BY <2>11, <2>15, SetsFinite
        <3>2. Weighs(f, -x, 0, 0)  BY <2>8, <3>1, SetsFinite DEF Weighs
        <3>3. (HeldOK(f) => HeldOK(f)') /\ NotBelow(f) /\ Exactly(f)
            BY <1>12, <1>13, <2>13, <2>14, <3>2, Balanced
        <3> QED  BY <2>0, <3>3
    <2>16. CASE z = nullptr
        <3>1. LetNodes' = A
            <4>1. \A m \in Nodes : LetIn(m)' <=> LetIn(m) /\ m # n
                BY <1>8, <2>5, <2>6, <2>16
            <4> QED  BY <2>9, <4>1 DEF LetNodes
        <3>2. CountedOf(f)' = A \cap O  BY <1>10, <1>14, <3>1 DEF CountedOf
        <3> QED  BY <2>15, <3>2
    <2>17. CASE z \in Nodes
        <3>1. z # nullptr  BY <1>8, <2>17
        <3>2. LetNodes' = A \cup {z} /\ z \notin A
            <4>1. \A m \in Nodes : LetIn(m)' <=> (LetIn(m) /\ m # n) \/ m = z
                BY <2>5, <2>6, <2>7, <3>1
            <4> QED  BY <2>7, <2>9, <2>17, <3>1, <4>1 DEF LetNodes
        <3>3. Cardinality(CountedOf(f)') = Cardinality(A \cap O) + (IF z \in O THEN 1 ELSE 0)
            <4>1. Cardinality(LetNodes' \cap O) = Cardinality(A \cap O) + (IF z \in O THEN 1 ELSE 0)
                BY <2>9, <2>17, <3>2, OneJoins
            <4> QED  BY <1>10, <1>14, <4>1 DEF CountedOf
        <3>4. CASE z \notin O
            <4>1. Cardinality(A \cap O) \in Nat
                BY <2>9, NodeFacts, FS_Subset, FS_CardinalityType
            <4> QED  BY <2>15, <3>3, <3>4, <4>1
        <3>5. CASE z \in O
            <4>1. parent_graph[z] = f /\ f # g /\ x = 0
                BY <1>11, <1>14, <2>7, <3>1, <3>5 DEF Of
            <4>2. Cardinality(CountedOf(f)') = Cardinality(CountedOf(f)) + 1
                BY <2>11, <3>3, <3>5, <4>1, SetsFinite
            <4>3. m_count'[f] = o  BY <1>13, <4>1
            <4>4. HeldOK(f) => HeldOK(f)'  BY <1>12, <2>8, <4>3 DEF HeldOK, Positive
            <4>5. NotBelow(f)  BY <1>12, <4>2, <4>3, SetsFinite DEF NotBelow
            <4>6. ~NoLimitedEdges
                <5>1. z \in ToSet(down_streams[n])  BY <1>2, <1>3, <1>5, <3>1 DEF LocalOK
                <5>2. limit_graph(n) /\ limit_graph(z) /\ parent_graph[n] # parent_graph[z]
                    BY <1>4, <4>1 DEF limit_graph
                <5> QED  BY <5>1, <5>2 DEF NoLimitedEdges
            <4> QED  BY <2>0, <4>4, <4>5, <4>6
        <3> QED  BY <3>4, <3>5
    <2> QED  BY <2>16, <2>17
<1> QED  BY <1>3, <1>4, <1>5, <1>16, <1>17 DEF Pass, Go

LEMMA TakeCount ==
    ASSUME PlaceInv, ReadTypes, Ongoing, NEW w \in Workers, Take(w)
    PROVE  Counted
<1> SUFFICES ASSUME NEW f \in Limited
             PROVE  (HeldOK(f) => HeldOK(f)') /\ NotBelow(f) /\ Exactly(f) /\ Stands(f)
    BY DEF Counted
<1>1. pc[w] = "take" /\ pc[w] \notin Calling  BY DEF Take, Go, At, Calling
<1>2. w \in Threads /\ Stage(w) = "take" /\ LocalOK(w)  BY <1>1, WorkerAt
<1>3. PICK n \in Nodes : n = task[w]  BY <1>1, WorkerAt
<1>4. PICK g \in Limited : g = parent_graph[n]  BY <1>2, <1>3 DEF LocalOK, limit_graph
<1>5. /\ limit_queue[g] \in Seq(Nodes) /\ limit_queue[g] # <<>> /\ NoRepeat(limit_queue[g])
      /\ limit_queue \in [Limited -> Seq(Nodes)]
    BY <1>3, <1>4 DEF Take, PlaceInv, Types, Once
<1>6. PICK x \in Nodes : x = Head(limit_queue[g]) /\ InRing(g, x)
    BY <1>5, TailSet DEF InRing
<1>7. ToSet(Tail(limit_queue[g])) = ToSet(limit_queue[g]) \ {x}  BY <1>5, <1>6, TailSet
<1>8. /\ UNCHANGED <<nodeVars, m_count, task_queue, todo, then, task, temp_node>>
      /\ pc' = [pc EXCEPT ![w] = "get"]
      /\ next_task' = [next_task EXCEPT ![w] = x]
      /\ limit_queue' = [limit_queue EXCEPT ![g] = Tail(@)]
      /\ read' = [read EXCEPT ![g] = @ + 1]
    BY <1>3, <1>4, <1>6 DEF Take, Go
<1>10. /\ pc'[w] = "get" /\ \A u \in Threads \ {w} : pc'[u] = pc[u]
       /\ next_task'[w] = x /\ \A v \in Workers \ {w} : next_task'[v] = next_task[v]
    BY <1>2, <1>8 DEF PlaceInv, Types
<1>11. Alone(w)  BY <1>8, <1>10 DEF Alone
<1>12. Stage(w)' = "get"  BY <1>10 DEF Stage, Calling
<1>13. next_task[w] = nullptr /\ nullptr \notin Nodes  BY <1>2, NodeFacts DEF LocalOK
<1>14. \A m \in Nodes : /\ Queued(m)' <=> Queued(m)
                        /\ ~HeadOf(w, m) /\ ~HeadOf(w, m)'
                        /\ (TakesFor(w, m) <=> m = n) /\ ~TakesFor(w, m)'
                        /\ ~Lets(w, m) /\ (Lets(w, m)' <=> m = x)
    BY <1>1, <1>2, <1>3, <1>8, <1>10, <1>12, <1>13
       DEF Queued, HeadOf, Stuck, TakesFor, Lets
<1>15. \A m \in Nodes : Ring(m)' <=> Ring(m) /\ m # x
    <2>1. /\ limit_queue'[g] = Tail(limit_queue[g])
          /\ \A e \in Limited \ {g} : limit_queue'[e] = limit_queue[e]
        BY <1>5, <1>8
    <2>2. \A e \in Limited \ {g} : ~InRing(e, x)  BY <1>6, RingApart
    <2> QED  BY <1>7, <2>1, <2>2 DEF Ring, InRing
<1>16. Ring(x) /\ parent_graph[x] = g
    <2>1. Has("ring", g, x)  BY <1>6 DEF Has
    <2> QED  BY <1>6, <2>1, AtPlace DEF Ring, Fits, PlaceInv, Kinds, Owners
<1>17. ~OthersHold(w, x)  BY <1>2, <1>6, RingApart
<1>18. Taken(n) /\ ~Taken(n)'
    <2>1. Has("task", w, n)  BY <1>3 DEF Has
    <2> QED  BY <1>2, <1>11, <1>14, <2>1, Apart, Shares
<1>19. \A m \in Nodes : /\ LetIn(m)' <=> LetIn(m)
                        /\ Held(m)' <=> Held(m) /\ m # x
                        /\ Taken(m)' <=> Taken(m) /\ m # n
    BY <1>2, <1>11, <1>14, <1>15, <1>16, <1>17, <1>18, Shares
<1>20. /\ LetNodes' = LetNodes
       /\ x \in HeldNodes /\ HeldNodes' = HeldNodes \ {x}
       /\ n \in Takers /\ Takers' = Takers \ {n}
    BY <1>16, <1>18, <1>19 DEF LetNodes, HeldNodes, Takers, Held
<1>21. PICK O : O = Of(f)  OBVIOUS
<1>22. Of(f)' = O /\ (n \in O <=> f = g) /\ (x \in O <=> f = g)
    BY <1>4, <1>8, <1>16, <1>21 DEF Of, nodeVars
<1>23. PICK k \in {0, 1} : k = IF f = g THEN 1 ELSE 0  OBVIOUS
<1>24. HeldNodes \in SUBSET Nodes /\ Takers \in SUBSET Nodes  BY DEF HeldNodes, Takers
<1>25. Cardinality(HeldOf(f)') = Cardinality(HeldOf(f)) + (-k)
    <2>1. Cardinality(HeldNodes' \cap O)
              = Cardinality(HeldNodes \cap O) - (IF x \in O THEN 1 ELSE 0)
        BY <1>20, <1>24, OneLeaves
    <2>2. Cardinality(HeldOf(f)') = Cardinality(HeldOf(f)) - k
        BY <1>21, <1>22, <1>23, <2>1 DEF HeldOf
    <2> QED  BY <2>2, SetsFinite
<1>26. Cardinality(TakersOf(f)') = Cardinality(TakersOf(f)) + (-k)
    <2>1. Cardinality(Takers' \cap O)
              = Cardinality(Takers \cap O) - (IF n \in O THEN 1 ELSE 0)
        BY <1>20, <1>24, OneLeaves
    <2>2. Cardinality(TakersOf(f)') = Cardinality(TakersOf(f)) - k
        BY <1>21, <1>22, <1>23, <2>1 DEF TakersOf
    <2> QED  BY <2>2, SetsFinite
<1>27. Cardinality(CountedOf(f)') = Cardinality(CountedOf(f)) + 0
    <2>1. CountedOf(f)' = CountedOf(f)  BY <1>20, <1>21, <1>22 DEF CountedOf
    <2> QED  BY <2>1, SetsFinite
<1>28. PICK j \in Int : j = -k  OBVIOUS
<1>29. Weighs(f, 0, j, j)  BY <1>25, <1>26, <1>27, <1>28 DEF Weighs
<1>30. PICK o \in Int : o = m_count[f] /\ o = m_count'[f]  BY <1>8 DEF PlaceInv, Types
<1>31. PICK m \in Int : m = o /\ m = m_count'[f] /\ m = m_count[f] + 0  BY <1>30
<1>32. PICK p \in Int : p = Positive(o)  BY DEF Positive
<1>33. p = p + j - j  OBVIOUS
<1>34. Positive(m) = Positive(m_count[f]) + j - j  BY <1>30, <1>31, <1>32, <1>33
<1>35. (HeldOK(f) => HeldOK(f)') /\ NotBelow(f) /\ Exactly(f)
    BY ONLY PlaceInv, f \in Limited, 0 \in Int, j \in Int, m \in Int, <1>29, <1>31, <1>34, Balanced
<1>36. Come(f) \subseteq Come(f)'  BY <1>19, <1>21, <1>22, ComeKept DEF Of
<1>37. Brought(f)' = Brought(f)
    <2>1. PICK r \in Nat : r = read[f]  BY DEF ReadTypes
    <2>2. read'[f] = r + k  BY <1>8, <1>23, <2>1 DEF ReadTypes
    <2>3. PICK c \in Nat : c = Cardinality(HeldOf(f))  BY SetsFinite
    <2>4. (r + k) + (c + (-k)) = r + c  OBVIOUS
    <2>5. Brought(f)' = (r + k) + (c + (-k))  BY <1>25, <2>2, <2>3 DEF Brought
    <2>6. Brought(f) = r + c  BY <2>1, <2>3 DEF Brought
    <2> QED  BY <2>4, <2>5, <2>6
<1> QED  BY <1>35, <1>36, <1>37 DEF Stands

LEMMA GetCount ==
    ASSUME PlaceInv, Ongoing, NEW w \in Workers, Get(w)
    PROVE  Counted
<1>1. pc[w] = "get" /\ pc[w] \notin Calling  BY DEF Get, Go, At, Calling
<1>2. w \in Threads /\ todo[w] = <<>> /\ Stage(w) = "get"  BY <1>1, WorkerAt
<1>3. /\ UNCHANGED <<nodeVars, m_count, limit_queue, read, task_queue, task, next_task>>
      /\ temp_node' = [temp_node EXCEPT ![w] = nullptr]
      /\ then' = [then EXCEPT ![w] = "return"]
    BY DEF Get, queueVars, ringVars
<1>4. PICK to, l : /\ to \in {"ready", "return"} /\ pc' = [pc EXCEPT ![w] = to]
                   /\ todo' = [todo EXCEPT ![w] = l]
    <2>1. todo' = todo => todo' = [todo EXCEPT ![w] = todo[w]]  BY DEF PlaceInv, Types
    <2> QED  BY <2>1 DEF Get, Go
<1>5. /\ pc'[w] = to /\ then'[w] = "return"
      /\ \A u \in Threads \ {w} : pc'[u] = pc[u] /\ todo'[u] = todo[u]
      /\ \A v \in Workers \ {w} : temp_node'[v] = temp_node[v] /\ then'[v] = then[v]
    BY <1>2, <1>3, <1>4 DEF PlaceInv, Types
<1>6. Alone(w)  BY <1>3, <1>5 DEF Alone
<1>7. Stage(w)' = "return" /\ to \notin {"hold", "look", "claim", "thrown", "take"}
    BY <1>4, <1>5 DEF Stage, Calling
<1>8. \A m \in Nodes : /\ Queued(m)' <=> Queued(m)
                       /\ Ring(m)' <=> Ring(m)
                       /\ ~HeadOf(w, m) /\ ~HeadOf(w, m)'
                       /\ ~TakesFor(w, m) /\ ~TakesFor(w, m)'
    BY <1>1, <1>3, <1>5, <1>7 DEF Queued, Ring, InRing, HeadOf, Stuck, TakesFor
<1>9. \A m \in Nodes : Lets(w, m)' <=> Lets(w, m)
    BY <1>2, <1>3, <1>7, <1>8 DEF Lets
<1>10. \A m \in Nodes : Still(m)  BY <1>2, <1>6, <1>8, <1>9, Shares DEF Still
<1> QED  BY <1>3, <1>10, AllStill DEF nodeVars


\* A node that is nowhere is not let in.
LEMMA NowhereOut ==
    ASSUME PlaceInv, NEW n \in Nodes, \A k \in Kinds : \A x \in Owners : ~Has(k, x, n)
    PROVE  ~LetIn(n) /\ ~Held(n) /\ ~Taken(n)
<1>1. ~Queued(n) /\ ~Ring(n)  BY DEF Has, Ring, Kinds, Owners
<1>2. ASSUME NEW t \in Threads PROVE ~HeadOf(t, n) /\ ~Lets(t, n) /\ ~TakesFor(t, n)
    <2>1. ~Has("todo", t, n) /\ ~Has("next", t, n) /\ ~Has("task", t, n)
        BY DEF Kinds, Owners
    <2>2. Stuck(t) => Has("todo", t, Head(todo[t]))  BY InCall DEF Stuck, Asking
    <2> QED  BY <2>1, <2>2 DEF HeadOf, Lets, TakesFor, Has
<1> QED  BY <1>1, <1>2 DEF LetIn, Held, Taken

LEMMA FinishCount ==
    ASSUME PlaceInv, ReadTypes, Ongoing, NEW w \in Workers, Finish(w)
    PROVE  Counted
<1>1. pc[w] = "finish" /\ pc[w] \notin Calling  BY DEF Finish, At, Calling
<1>2. PICK n \in Nodes : n = task[w]  BY <1>1, WorkerAt
<1>3. w \in Threads /\ Stage(w) = "finish" /\ LocalOK(w) /\ Has("task", w, n)
    BY <1>1, <1>2, WorkerAt
<1>4. PICK g : g = parent_graph[n]  OBVIOUS
<1>5. PICK ns \in Notified(n) : Choose(w, ns, g)
    BY <1>2, <1>4 DEF Finish
<1>6. /\ ns \in Seq(Nodes) /\ NoRepeat(ns)
      /\ \A d \in ToSet(ns) : d \in ToSet(down_streams[n]) /\ wait_count[d] = 1
    BY NotifiedFacts
<1>7. PICK rest, temp, next, to :
          Leave(w, rest, temp, next, to) /\ Chosen(ns, g, rest, temp, next, to)
    BY <1>5, <1>6, ChosenFacts
<1>8. /\ pc' = [pc EXCEPT ![w] = IF rest = <<>> THEN to ELSE "ready"]
      /\ todo' = [todo EXCEPT ![w] = rest] /\ temp_node' = [temp_node EXCEPT ![w] = temp]
      /\ next_task' = [next_task EXCEPT ![w] = next] /\ then' = [then EXCEPT ![w] = to]
      /\ UNCHANGED <<parent_graph, queueVars, task_queue, task>>
    BY <1>7 DEF Leave, Finish
<1>9. /\ to \in {"return", "pass", "offer"}
      /\ next # nullptr => next \in ToSet(ns) /\ to = "return" /\ Cheap(next, g)
      /\ next = nullptr /\ g \in Limited => to = "pass"
      /\ g \notin Limited => to # "pass"
    BY <1>7 DEF Chosen
<1>10. /\ pc'[w] \in {"ready", to} /\ then'[w] = to /\ next_task'[w] = next
       /\ \A u \in Threads \ {w} : pc'[u] = pc[u] /\ todo'[u] = todo[u]
       /\ \A v \in Workers \ {w} : /\ next_task'[v] = next_task[v] /\ temp_node'[v] = temp_node[v]
                                   /\ then'[v] = then[v]
    BY <1>3, <1>8 DEF PlaceInv, Types
<1>11. Alone(w)  BY <1>8, <1>10 DEF Alone
<1>12. Stage(w)' = to /\ pc'[w] \notin {"hold", "look", "claim", "thrown", "take"}
    BY <1>9, <1>10 DEF Stage, Calling
<1>13. next_task[w] = nullptr /\ nullptr \notin Nodes  BY <1>3, NodeFacts DEF LocalOK
<1>14. \A m \in Nodes : /\ Queued(m)' <=> Queued(m)
                        /\ Ring(m)' <=> Ring(m)
                        /\ ~HeadOf(w, m) /\ ~HeadOf(w, m)'
                        /\ ~TakesFor(w, m) /\ ~TakesFor(w, m)'
                        /\ Lets(w, m) <=> m = n
    BY <1>1, <1>2, <1>3, <1>8, <1>12, <1>13
       DEF Queued, Ring, InRing, HeadOf, Stuck, TakesFor, Lets, queueVars, ringVars
<1>15. \A m \in Nodes : Lets(w, m)' <=> m = next \/ (m = n /\ to = "pass")
    BY <1>2, <1>3, <1>8, <1>9, <1>10, <1>12, <1>14 DEF Lets
<1>16. \A m \in Nodes : /\ Held(m)' <=> Held(m)
                        /\ Taken(m)' <=> Taken(m)
                        /\ m # n /\ m # next => (LetIn(m)' <=> LetIn(m))
    BY <1>3, <1>11, <1>14, <1>15, Shares
<1>17. LetIn(n)  BY <1>3, <1>11, <1>14, Shares
<1>18. UNCHANGED <<m_count, parent_graph>> /\ UNCHANGED read  BY <1>8 DEF queueVars, ringVars
<1>19. CASE to = "pass"
    <2>1. next = nullptr  BY <1>9, <1>19
    <2>2. LetIn(n)'  BY <1>3, <1>11, <1>15, <1>19, Shares
    <2>3. \A m \in Nodes : Still(m)  BY <1>13, <1>16, <1>17, <2>1, <2>2 DEF Still
    <2> QED  BY <1>18, <2>3, AllStill
<1>20. CASE g \notin Limited
    <2>1. ~limit_graph(n) /\ (next # nullptr => ~limit_graph(next))
        BY <1>4, <1>9, <1>20 DEF Cheap, limit_graph
    <2>2. \A m \in Nodes : limit_graph(m) => Still(m)  BY <1>13, <1>16, <2>1 DEF Still
    <2> QED  BY <1>18, <2>2, AllStill
<1>21. CASE g \in Limited /\ to = "return"
    <2>1. next # nullptr /\ next \in ToSet(ns) /\ parent_graph[next] = g
        BY <1>9, <1>21 DEF Cheap
    <2>2. next \in Nodes /\ wait_count[next] = 1
        BY <1>6, <2>1 DEF ToSet
    <2>3. ~LetIn(next)
        <3>1. \A k \in Kinds : \A x \in Owners : ~Has(k, x, next)
            BY <2>2, AtPlace DEF PlaceInv, Fits
        <3> QED  BY <2>2, <3>1, NowhereOut
    <2>4. next # n /\ LetIn(next)'
        BY <1>3, <1>11, <1>15, <1>17, <2>2, <2>3, Shares
    <2>5. ~LetIn(n)'
        BY <1>3, <1>11, <1>14, <1>15, <1>21, <2>4, Apart, Shares
    <2>6. PICK A \in SUBSET Nodes : A = LetNodes \ {n}  BY DEF LetNodes
    <2>7. LetNodes \in SUBSET Nodes /\ n \in LetNodes /\ next \notin A
          /\ LetNodes' = A \cup {next}
        BY <1>16, <1>17, <2>2, <2>3, <2>4, <2>5, <2>6 DEF LetNodes
    <2>8. HeldNodes' = HeldNodes /\ Takers' = Takers  BY <1>16 DEF HeldNodes, Takers
    <2> SUFFICES ASSUME NEW f \in Limited
                 PROVE  (HeldOK(f) => HeldOK(f)') /\ NotBelow(f) /\ Exactly(f) /\ Stands(f)
        BY DEF Counted
    <2>9. PICK O : O = Of(f)  OBVIOUS
    <2>10. Of(f)' = O /\ (n \in O <=> next \in O)
        BY <1>4, <1>8, <2>1, <2>2, <2>9 DEF Of
    <2>11. Cardinality(LetNodes' \cap O) = Cardinality(LetNodes \cap O)
        <3>1. Cardinality(A \cap O) = Cardinality(LetNodes \cap O) - (IF n \in O THEN 1 ELSE 0)
            BY <2>6, <2>7, OneLeaves
        <3>2. Cardinality(LetNodes' \cap O) = Cardinality(A \cap O) + (IF next \in O THEN 1 ELSE 0)
            BY <2>2, <2>7, OneJoins
        <3>3. Cardinality(A \cap O) \in Nat /\ Cardinality(LetNodes \cap O) \in Nat
            BY <2>7, NodeFacts, FS_Subset, FS_CardinalityType
        <3> QED  BY ONLY <2>10, <3>1, <3>2, <3>3
    <2>12. Weighs(f, 0, 0, 0)
        <3>1. Cardinality(CountedOf(f)') = Cardinality(CountedOf(f))
            BY <2>9, <2>10, <2>11 DEF CountedOf
        <3>2. HeldOf(f)' = HeldOf(f) /\ TakersOf(f)' = TakersOf(f)
            BY <2>8, <2>9, <2>10 DEF HeldOf, TakersOf
        <3> QED  BY <3>1, <3>2, SetsFinite DEF Weighs
    <2>13. PICK m \in Int : m = m_count'[f] /\ m = m_count[f]  BY <1>18 DEF PlaceInv, Types
    <2>14. m = m_count[f] + 0  BY <2>13
    <2>15. Positive(m) = Positive(m_count[f]) + 0 - 0
        <3>1. Positive(m) \in Int  BY DEF Positive
        <3> QED  BY <2>13, <3>1
    <2>16. 0 \in Int  OBVIOUS
    <2>17. (HeldOK(f) => HeldOK(f)') /\ NotBelow(f) /\ Exactly(f)
        BY <2>12, <2>13, <2>14, <2>15, <2>16, Balanced
    <2>18. Stands(f)
        <3>1. Cardinality(HeldOf(f)') = Cardinality(HeldOf(f))  BY <2>12, SetsFinite DEF Weighs
        <3>2. status'[n] # "Initing"  BY <1>2 DEF Finish, PlaceInv, Types
        <3>3. \A k \in Nodes : LetIn(k) => LetIn(k)' \/ k = n  BY <1>16, <2>4
        <3>4. Of(f)' = Of(f) /\ Of(f) \subseteq Nodes  BY <2>9, <2>10 DEF Of
        <3>5. Come(f) \subseteq Come(f)'  BY <3>2, <3>3, <3>4, ComeKept
        <3> QED  BY <1>18, <3>1, <3>5, NoneBrought
    <2> QED  BY <2>17, <2>18
<1>22. g \in Limited => to # "offer"  BY <1>9
<1> QED  BY <1>9, <1>19, <1>20, <1>21, <1>22

LEMMA CreateCount ==
    ASSUME PlaceInv, ReadTypes, Ongoing, NEW c \in Clients, NEW g \in Graphs,
           NEW required \in SUBSET Made, create_edges(c, g, required)
    PROVE  Counted
<1>1. PICK n \in Nodes : n = Cardinality(Made) + 1  BY DEF create_edges
<1>2. \A k \in Kinds : \A x \in Owners : ~Has(k, x, n)  BY <1>1, NewNode
<1>3. /\ pc[c] = "idle"
      /\ parent_graph' = [parent_graph EXCEPT ![n] = g]
      /\ \/ \E l : pc' = [pc EXCEPT ![c] = "ready"] /\ todo' = [todo EXCEPT ![c] = l]
         \/ UNCHANGED <<pc, todo>>
      /\ UNCHANGED <<queueVars, task_queue, workerVars>>
    BY <1>1 DEF create_edges, At
<1>4. c \in Threads /\ c \notin Workers  BY ThreadAssumption DEF Threads
<1>5. /\ pc'[c] \in {"idle", "ready"}
      /\ \A u \in Threads \ {c} : pc'[u] = pc[u] /\ todo'[u] = todo[u]
    BY <1>3, <1>4 DEF PlaceInv, Types
<1>6. Alone(c)  BY <1>3, <1>5 DEF Alone, workerVars
<1>7. \A m \in Nodes : /\ Queued(m)' <=> Queued(m)
                       /\ Ring(m)' <=> Ring(m)
                       /\ ~HeadOf(c, m) /\ ~HeadOf(c, m)'
                       /\ ~TakesFor(c, m) /\ ~TakesFor(c, m)'
                       /\ ~Lets(c, m) /\ ~Lets(c, m)'
    BY <1>3, <1>4, <1>5
       DEF Queued, Ring, InRing, HeadOf, Stuck, TakesFor, Lets, queueVars, ringVars
<1>8. \A m \in Nodes : Still(m)  BY <1>4, <1>6, <1>7, Shares DEF Still
<1>9. ~LetIn(n) /\ ~Held(n) /\ ~Taken(n)  BY <1>2, NowhereOut
<1>10. /\ LetNodes' = LetNodes /\ HeldNodes' = HeldNodes /\ Takers' = Takers
       /\ n \notin LetNodes /\ n \notin HeldNodes /\ n \notin Takers
    BY <1>8, <1>9 DEF Still, LetNodes, HeldNodes, Takers
<1>11. ASSUME NEW f \in Limited
       PROVE  /\ CountedOf(f)' = CountedOf(f)
              /\ HeldOf(f)' = HeldOf(f) /\ TakersOf(f)' = TakersOf(f)
              /\ Come(f) \subseteq Come(f)'
    <2>1. \A m \in Nodes \ {n} : m \in Of(f)' <=> m \in Of(f)
        BY <1>3 DEF Of, PlaceInv, Types
    <2>2. LetNodes \subseteq Nodes /\ HeldNodes \subseteq Nodes /\ Takers \subseteq Nodes
        BY DEF LetNodes, HeldNodes, Takers
    <2>3. Of(f) \subseteq Of(f)'
        <3>1. n \notin Made  BY <1>1, NewNode
        <3>2. f # nullptr  BY GraphAssumption DEF Graphs
        <3>3. n \notin Of(f)  BY <3>1, <3>2 DEF Made, Of
        <3> QED  BY <2>1, <3>3 DEF Of
    <2>4. Come(f) \subseteq Come(f)'  BY <1>8, <2>3, ComeKept DEF Still, Of
    <2>5. /\ CountedOf(f)' = CountedOf(f)
          /\ HeldOf(f)' = HeldOf(f) /\ TakersOf(f)' = TakersOf(f)
        BY <1>10, <2>1, <2>2 DEF CountedOf, HeldOf, TakersOf
    <2> QED  BY <2>4, <2>5
<1> QED  BY <1>3, <1>11, BooksKept DEF queueVars, ringVars

-----------------------------------------------------------------------------
(* The inductive invariant of the count *)

LEMMA InitCount ==
    ASSUME Init
    PROVE  CountInv /\ CountExact
<1>1. PlaceInv  BY InitPlace
<1>2. /\ m_count = [g \in Limited |-> -1 * parallel]
      /\ limit_queue = [g \in Limited |-> <<>>]
      /\ task_queue = [n \in Nodes |-> 0]
      /\ pc = [t \in Threads |-> "idle"]
      /\ task = [w \in Workers |-> nullptr] /\ next_task = [w \in Workers |-> nullptr]
    BY DEF Init, SelfQueue
<1>3. \A n \in Nodes : ~LetIn(n) /\ ~Held(n) /\ ~Taken(n)
    BY <1>2, NodeFacts, ShortSets
       DEF LetIn, Held, Taken, Queued, Ring, InRing, Lets, HeadOf, Stuck, TakesFor, Threads
<1>4. LetNodes = {} /\ HeldNodes = {} /\ Takers = {}
    BY <1>3 DEF LetNodes, HeldNodes, Takers
<1>5. \A g : Cardinality(CountedOf(g)) = 0 /\ Cardinality(HeldOf(g)) = 0
             /\ Cardinality(TakersOf(g)) = 0
    <2>1. Cardinality({}) = 0  BY FS_EmptySet
    <2>2. \A g : CountedOf(g) = {} /\ HeldOf(g) = {} /\ TakersOf(g) = {}
        BY <1>4 DEF CountedOf, HeldOf, TakersOf
    <2> QED  BY <2>1, <2>2
<1>6. \A g \in Limited : m_count[g] = -parallel /\ Positive(m_count[g]) = 0
    BY <1>2, LimitAssumption DEF Positive
<1>7. -parallel + parallel = 0  BY LimitAssumption
<1>8. NoneUncounted /\ CountExact
    BY <1>5, <1>6, <1>7 DEF NoneUncounted, CountExact
<1>9. HeldExact  BY <1>5, <1>6 DEF HeldExact, HeldOK
<1>10. ReadTypes /\ ThrownFull /\ \A g \in Limited : Enough(g)
    <2>1. read = [g \in Limited |-> 0] /\ read_ = [t \in Threads |-> 0]  BY DEF Init, SelfQueue
    <2>2. \A g \in Limited : Brought(g) = 0  BY <1>5, <2>1 DEF Brought
    <2> QED  BY <1>2, <2>1, <2>2 DEF ReadTypes, ThrownFull, Enough
<1> QED  BY <1>1, <1>8, <1>9, <1>10 DEF CountInv

LEMMA StatusOn ==
    ASSUME PlaceInv, [Next]_vars
    PROVE  Ongoing
<1>1. ASSUME NEW w \in Workers, NEW s \in {"Running", "Finish", "Recoverable"},
             status' = [status EXCEPT ![task[w]] = s]
      PROVE  Ongoing
    BY <1>1 DEF Ongoing, PlaceInv, Types
<1>2. CASE UNCHANGED status  BY <1>2 DEF Ongoing
<1>3. ASSUME NEW t \in Threads, call(t) \/ Put(t) PROVE UNCHANGED status
    BY <1>3 DEF call, ready, HoldRead, HoldLook, HoldThrows, Hold, Put, nodeVars
<1>4. ASSUME NEW w \in Workers, do_schedule(w) \/ Get(w) PROVE Ongoing
    <2>1. w \in Threads  BY DEF Threads
    <2>2. CASE Resume(w)  BY <1>1, <2>2 DEF Resume
    <2>3. CASE Finish(w)  BY <1>1, <2>3 DEF Finish
    <2>4. CASE Return(w)  BY <1>1, <2>4 DEF Return
    <2>5. CASE call(w)  BY <1>2, <1>3, <2>1, <2>5
    <2>6. CASE (\E n \in Nodes : Dequeue(w, n)) \/ Offer(w) \/ Pass(w) \/ Take(w) \/ Get(w)
        BY <1>2, <2>6 DEF Dequeue, Offer, Pass, Take, Get, nodeVars
    <2> QED  BY <1>4, <2>2, <2>3, <2>4, <2>5, <2>6 DEF do_schedule, run_task
<1>5. ASSUME NEW c \in Clients, NEW g \in Graphs, NEW required \in SUBSET Made,
             create_edges(c, g, required)
      PROVE  UNCHANGED status
    BY <1>5 DEF create_edges
<1>6. UNCHANGED vars => UNCHANGED status  BY DEF vars, nodeVars
<1> QED  BY <1>2, <1>3, <1>4, <1>5, <1>6 DEF Next, Threads

LEMMA ReadsOn ==
    ASSUME PlaceInv, ReadTypes, [Next]_vars
    PROVE  ReadTypes'
<1>1. CASE UNCHANGED ringVars  BY <1>1 DEF ReadTypes, ringVars
<1>2. ASSUME NEW t \in Threads, call(t) \/ Put(t) PROVE ReadTypes'
    <2>1. CASE HoldRead(t)
        <3>1. Stuck(t)  BY <2>1 DEF HoldRead, Go, At, Stuck
        <3>2. holds(t) \in Limited  BY <3>1 DEF PlaceInv, Calls, CallOK, limit_graph, holds
        <3> QED  BY <2>1, <3>2 DEF HoldRead, ReadTypes
    <2>2. CASE Hold(t)  BY <2>2 DEF Hold, ReadTypes
    <2>3. CASE ready(t) \/ HoldLook(t) \/ HoldThrows(t) \/ Put(t)
        BY <1>1, <2>3 DEF ready, HoldLook, HoldThrows, Put, queueVars
    <2> QED  BY <1>2, <2>1, <2>2, <2>3 DEF call
<1>3. ASSUME NEW w \in Workers, do_schedule(w) \/ Get(w) PROVE ReadTypes'
    <2>1. w \in Threads  BY DEF Threads
    <2>2. CASE Take(w)
        <3>1. read_' = read_  BY <2>2 DEF Take
        <3>2. read' = [read EXCEPT ![parent_graph[task[w]]] = @ + 1]  BY <2>2 DEF Take
        <3>3. \A k \in Nat : k + 1 \in Nat  OBVIOUS
        <3>4. read' \in [Limited -> Nat]  BY <3>2, <3>3 DEF ReadTypes
        <3> QED  BY <3>1, <3>4 DEF ReadTypes
    <2>3. CASE call(w)  BY <1>2, <2>1, <2>3
    <2>4. CASE \/ \E n \in Nodes : Dequeue(w, n)
               \/ Resume(w) \/ Finish(w) \/ Offer(w) \/ Pass(w) \/ Return(w) \/ Get(w)
        BY <1>1, <2>4 DEF Dequeue, Resume, Finish, Offer, Pass, Return, Get, queueVars
    <2> QED  BY <1>3, <2>2, <2>3, <2>4 DEF do_schedule, run_task
<1>4. ASSUME NEW c \in Clients, NEW g \in Graphs, NEW required \in SUBSET Made,
             create_edges(c, g, required)
      PROVE  UNCHANGED ringVars
    BY <1>4 DEF create_edges, queueVars
<1>5. UNCHANGED vars => UNCHANGED ringVars  BY DEF vars, queueVars
<1> QED  BY <1>1, <1>2, <1>3, <1>4, <1>5 DEF Next, Threads

\* Only a refusal throws.
LEMMA ThrowsFull ==
    ASSUME PlaceInv, ReadTypes, NEW t \in Threads, HoldLook(t) \/ HoldThrows(t), pc'[t] = "thrown"
    PROVE  write_ahead(holds(t))' >= queue_size
<1>1. Stuck(t)  BY DEF HoldLook, HoldThrows, Go, At, Stuck
<1>2. PICK g \in Limited : g = holds(t)
    BY <1>1 DEF PlaceInv, Calls, CallOK, limit_graph, holds
<1>3. UNCHANGED <<nodeVars, queueVars, todo>>  BY DEF HoldLook, HoldThrows
<1>4. UNCHANGED <<parent_graph, limit_queue, read, todo>>  BY <1>3 DEF nodeVars, queueVars, ringVars
<1>5. write_ahead(holds(t))' = write_ahead(g)  BY <1>2, <1>4 DEF write_ahead, holds
<1>6. PICK W \in Nat : W = write_ahead(g)
    <2>1. limit_queue[g] \in Seq(Nodes)  BY DEF PlaceInv, Types
    <2>2. Len(limit_queue[g]) \in Nat /\ read[g] \in Nat  BY <2>1 DEF ReadTypes
    <2> QED  BY <2>2 DEF write_ahead
<1>7. PICK r \in Nat : W - r >= queue_size
    <2>1. CASE HoldLook(t)
        <3>1. pc[t] \in Points /\ pc \in [Threads -> Points]  BY DEF PlaceInv, Types
        <3>2. is_full(read_[t], W)  BY <1>2, <1>6, <2>1, <3>1 DEF HoldLook, Go
        <3> QED  BY <3>2 DEF is_full, ReadTypes
    <2>2. CASE HoldThrows(t)
        <3>1. is_full(read[g], W)  BY <1>2, <1>6, <2>2 DEF HoldThrows
        <3> QED  BY <3>1 DEF is_full, ReadTypes
    <2> QED  BY <2>1, <2>2
<1> QED  BY <1>5, <1>6, <1>7, LimitAssumption

\* Nothing goes on after that.
LEMMA ThrownOn ==
    ASSUME PlaceInv, ReadTypes, ThrownFull, [Next]_vars
    PROVE  ThrownFull'
<1> DEFINE Quiet == \A t \in Threads : pc'[t] = "thrown" => pc[t] = "thrown"
<1>1. CASE Quiet /\ Alive  BY <1>1 DEF Alive, ThrownFull
<1>2. ASSUME NEW t \in Threads, call(t) \/ Put(t) PROVE ThrownFull'
    <2>1. Alive /\ pc \in [Threads -> Points]
        BY <1>2 DEF call, ready, HoldRead, HoldLook, HoldThrows, Hold, Put, Go, At, PlaceInv, Types
    <2>2. CASE HoldLook(t) \/ HoldThrows(t)
        <3>1. \A u \in Threads \ {t} : pc'[u] = pc[u]
            BY <2>1, <2>2 DEF HoldLook, HoldThrows, Go
        <3>2. ASSUME NEW u \in Threads, pc'[u] = "thrown" PROVE u = t
            BY <2>1, <3>1, <3>2 DEF Alive
        <3> QED  BY <2>2, <3>2, ThrowsFull DEF ThrownFull
    <2>3. CASE HoldRead(t) \/ Hold(t)
        <3>1. Quiet  BY <2>1, <2>3 DEF HoldRead, Hold, Go
        <3> QED  BY <1>1, <2>1, <3>1
    <2>4. CASE ready(t) \/ Put(t)
        <3>1. \E l : \E to \in {"hold", After(t, l)} : pc' = [pc EXCEPT ![t] = to]
            BY <2>4 DEF ready, Put, Go
        <3>2. \A l : After(t, l) # "thrown"  BY DEF After, PlaceInv, Types, Threads
        <3>3. Quiet  BY <2>1, <3>1, <3>2
        <3> QED  BY <1>1, <2>1, <3>3
    <2> QED  BY <1>2, <2>2, <2>3, <2>4 DEF call
<1>3. ASSUME NEW w \in Workers, do_schedule(w) \/ Get(w) PROVE ThrownFull'
    <2>1. w \in Threads /\ pc \in [Threads -> Points]  BY DEF Threads, PlaceInv, Types
    <2>2. CASE call(w)  BY <1>2, <2>1, <2>2
    <2>3. CASE Finish(w)
        <3>1. \E ns : Choose(w, ns, parent_graph[task[w]])  BY <2>3 DEF Finish
        <3>2. \E rest, temp, next : \E to \in {"return", "pass", "offer"} :
                  Leave(w, rest, temp, next, to)
            BY <3>1 DEF Choose
        <3>3. \E to \in {"return", "pass", "offer", "ready"} : pc' = [pc EXCEPT ![w] = to]
            BY <3>2 DEF Leave
        <3>4. Quiet  BY <2>1, <3>3
        <3>5. Alive  BY <2>3 DEF Finish, At
        <3> QED  BY <1>1, <3>4, <3>5
    <2>4. CASE \/ \E n \in Nodes : Dequeue(w, n)
               \/ Resume(w) \/ Offer(w) \/ Pass(w) \/ Take(w) \/ Return(w) \/ Get(w)
        <3>1. Alive  BY <2>4 DEF Dequeue, Resume, Offer, Pass, Take, Return, Get, Go, At
        <3>2. \E to \in {"idle", "run", "finish", "return", "hold", "take", "get", "ready"} :
                  pc' = [pc EXCEPT ![w] = to]
            BY <2>4 DEF Dequeue, Resume, Offer, Pass, Take, Return, Get, Go
        <3>3. Quiet  BY <2>1, <3>2
        <3> QED  BY <1>1, <3>1, <3>3
    <2> QED  BY <1>3, <2>2, <2>3, <2>4 DEF do_schedule, run_task
<1>4. ASSUME NEW c \in Clients, NEW g \in Graphs, NEW required \in SUBSET Made,
             create_edges(c, g, required)
      PROVE  ThrownFull'
    <2>1. Alive /\ pc \in [Threads -> Points]
        BY <1>4 DEF create_edges, At, PlaceInv, Types
    <2>2. Quiet  BY <1>4, <2>1 DEF create_edges
    <2> QED  BY <1>1, <2>1, <2>2
<1>5. CASE UNCHANGED vars
    <2>1. UNCHANGED <<parent_graph, limit_queue, read, todo, pc>>
        BY <1>5 DEF vars, nodeVars, queueVars, ringVars
    <2> QED  BY <2>1 DEF ThrownFull, write_ahead, holds
<1> QED  BY <1>2, <1>3, <1>4, <1>5 DEF Next, Threads

LEMMA NextCount ==
    ASSUME PlaceInv, ReadTypes, [Next]_vars
    PROVE  Counted
<1>0. Ongoing  BY StatusOn
<1>1. ASSUME NEW c \in Clients, NEW g \in Graphs, NEW required \in SUBSET Made,
             create_edges(c, g, required)
      PROVE  Counted
    BY <1>0, <1>1, CreateCount
<1>2. ASSUME NEW t \in Threads, call(t) \/ Put(t)
      PROVE  Counted
    BY <1>0, <1>2, ReadyCount, HoldCount, LooksOn, LooksCount DEF call
<1>3. ASSUME NEW w \in Workers, do_schedule(w) \/ Get(w)
      PROVE  Counted
    <2>1. w \in Threads  BY DEF Threads
    <2>2. CASE \E n \in Nodes : Dequeue(w, n)  BY <1>0, <2>2, DequeueCount
    <2>3. CASE Resume(w)  BY <1>0, <2>3, ResumeCount
    <2>4. CASE Finish(w)  BY <1>0, <2>4, FinishCount
    <2>5. CASE call(w)  BY <1>2, <2>1, <2>5
    <2>6. CASE Offer(w)  BY <1>0, <2>6, OfferCount
    <2>7. CASE Pass(w)  BY <1>0, <2>7, PassCount
    <2>8. CASE Take(w)  BY <1>0, <2>8, TakeCount
    <2>9. CASE Return(w)  BY <1>0, <2>9, ReturnCount
    <2>10. CASE Get(w)  BY <1>0, <2>10, GetCount
    <2> QED  BY <1>3, <2>2, <2>3, <2>4, <2>5, <2>6, <2>7, <2>8, <2>9, <2>10
             DEF do_schedule, run_task
<1>4. CASE UNCHANGED vars
    <2>1. UNCHANGED <<nodeVars, g_wait_count, queueVars, task_queue, pc, todo, workerVars>>
        BY <1>4 DEF vars
    <2>2. \A n \in Nodes : /\ LetIn(n)' <=> LetIn(n)
                           /\ Held(n)' <=> Held(n)
                           /\ Taken(n)' <=> Taken(n)
        BY <2>1 DEF LetIn, Held, Taken, Queued, Ring, InRing, Lets, HeadOf, Stuck, TakesFor,
                    Stage, queueVars, ringVars, workerVars
    <2>3. \A n \in Nodes : Still(n)  BY <2>2 DEF Still
    <2> QED  BY <1>0, <2>1, <2>3, AllStill DEF nodeVars, queueVars, ringVars
<1> QED  BY <1>1, <1>2, <1>3, <1>4 DEF Next, Threads

LEMMA NextCountInv ==
    ASSUME CountInv, [Next]_vars
    PROVE  /\ CountInv'
           /\ CountExact /\ NoLimitedEdges => CountExact'
<1>1. PlaceInv /\ PlaceInv'  BY NextPlace DEF CountInv
<1>2. Counted /\ ReadTypes' /\ ThrownFull'
    BY <1>1, NextCount, ReadsOn, ThrownOn DEF CountInv
<1>3. HeldExact'  BY <1>2 DEF CountInv, HeldExact, Counted
<1>4. \A g \in Limited :
          /\ m_count[g] \in Int /\ m_count'[g] \in Int
          /\ Cardinality(CountedOf(g)) \in Int /\ Cardinality(CountedOf(g)') \in Int
    <2>1. \A g \in Limited : m_count[g] \in Int /\ m_count'[g] \in Int
        BY <1>1 DEF PlaceInv, Types
    <2>2. \A S \in SUBSET Nodes : Cardinality(S) \in Nat
        BY NodeFacts, FS_Subset, FS_CardinalityType
    <2> QED  BY <2>1, <2>2 DEF CountedOf, LetNodes
<1>5. NoneUncounted'
    <2> SUFFICES ASSUME NEW g \in Limited
                 PROVE  m_count'[g] + parallel <= Cardinality(CountedOf(g)')
        BY DEF NoneUncounted
    <2>1. Cardinality(CountedOf(g)') - Cardinality(CountedOf(g)) >= m_count'[g] - m_count[g]
        BY <1>2 DEF Counted, NotBelow
    <2>2. m_count[g] + parallel <= Cardinality(CountedOf(g))
        BY DEF CountInv, NoneUncounted
    <2> QED  BY <1>4, <2>1, <2>2, LimitAssumption
<1>6. ASSUME CountExact, NoLimitedEdges PROVE CountExact'
    <2> SUFFICES ASSUME NEW g \in Limited
                 PROVE  m_count'[g] + parallel = Cardinality(CountedOf(g)')
        BY DEF CountExact
    <2>1. Cardinality(CountedOf(g)') - Cardinality(CountedOf(g)) = m_count'[g] - m_count[g]
        BY <1>2, <1>6 DEF Counted, Exactly
    <2>2. m_count[g] + parallel = Cardinality(CountedOf(g))  BY <1>6 DEF CountExact
    <2> QED  BY <1>4, <2>1, <2>2, LimitAssumption
<1>7. \A g \in Limited : Enough(g)'
    <2> SUFFICES ASSUME NEW g \in Limited PROVE Enough(g)'  OBVIOUS
    <2>1. Come(g) \subseteq Come(g)'  BY <1>2 DEF Counted, Stands
    <2>2. IsFiniteSet(Come(g)) /\ IsFiniteSet(Come(g)')
        <3>1. Come(g) \in SUBSET Nodes /\ Come(g)' \in SUBSET Nodes  BY DEF Come, Of
        <3> QED  BY <3>1, NodeFacts, FS_Subset
    <2>3. PICK a \in Nat : a = Cardinality(Come(g))  BY <2>2, FS_CardinalityType
    <2>4. PICK b \in Nat : b = Cardinality(Come(g)')  BY <2>2, FS_CardinalityType
    <2>5. a <= b  BY <2>1, <2>2, <2>3, <2>4, FS_Subset
    <2>6. PICK u \in Nat : u = Brought(g)
        <3>1. read[g] \in Nat /\ Cardinality(HeldOf(g)) \in Nat
            BY SetsFinite DEF CountInv, ReadTypes
        <3> QED  BY <3>1 DEF Brought
    <2>7. u = 0 \/ a >= u + parallel  BY <2>3, <2>6 DEF CountInv, Enough
    <2>8. CASE Brought(g)' = Brought(g)
        <3>1. u = 0 \/ b >= u + parallel  BY ONLY <2>5, <2>7, LimitAssumption
        <3> QED  BY <2>4, <2>6, <2>8, <3>1 DEF Enough
    <2>9. CASE Brought(g)' = Brought(g) + 1 /\ m_count[g] >= 0 /\ Come(g)' # Come(g)
        <3>1. a # b  BY <2>1, <2>2, <2>3, <2>4, <2>9, FS_Subset
        <3>2. a >= parallel
            <4>1. CountedOf(g) \subseteq Come(g)  BY DEF CountedOf, LetNodes, Come, Of
            <4>2. PICK c \in Nat : c = Cardinality(CountedOf(g))  BY SetsFinite
            <4>3. c <= a  BY <2>2, <2>3, <4>1, <4>2, FS_Subset
            <4>4. m_count[g] + parallel <= c  BY <4>2 DEF CountInv, NoneUncounted
            <4> QED  BY <1>4, <2>9, <4>3, <4>4, LimitAssumption
        <3>3. a >= u + parallel  BY <2>7, <3>2, LimitAssumption
        <3>4. b >= (u + 1) + parallel  BY ONLY <2>5, <3>1, <3>3, LimitAssumption
        <3> QED  BY <2>4, <2>6, <2>9, <3>4 DEF Enough
    <2> QED  BY <1>2, <2>8, <2>9 DEF Counted, Stands
<1> QED  BY <1>1, <1>2, <1>3, <1>5, <1>6, <1>7 DEF CountInv

\* A node is in one place from its release to its end, no node of a limit graph
\* runs or is held back without having been counted, and those that are held
\* back are the count above zero and those about to be taken, after any number
\* of steps of any number of threads; a node that was held back found all the
\* places taken (graph.cpp:22-38, 46-51, 53-135).
THEOREM CountInvariant == Spec => []CountInv
<1>1. Init => CountInv  BY InitCount
<1>2. CountInv /\ [Next]_vars => CountInv'  BY NextCountInv
<1> QED  BY <1>1, <1>2, PTL DEF Spec

\* If no node of a limit graph waits for a node of another, the count is exact.
THEOREM ExactCount == Spec /\ []NoLimitedEdges => []CountExact
<1>1. Init => CountInv /\ CountExact  BY InitCount
<1>2. CountInv /\ CountExact /\ NoLimitedEdges /\ [Next]_vars => CountInv' /\ CountExact'
    BY NextCountInv
<1> QED  BY <1>1, <1>2, PTL DEF Spec

-----------------------------------------------------------------------------
(* The count and the queue *)

LEMMA MaxZero ==
    ASSUME NEW m \in Int
    PROVE  Max({0, m}) = Positive(m)
<1>1. PICK p \in {0, m} : p = Positive(m)  BY DEF Positive
<1>2. \A y \in {0, m} : p >= y  BY <1>1 DEF Positive
<1>3. \A x \in {0, m} : (\A y \in {0, m} : x >= y) => x = p
    <2> TAKE x \in {0, m}
    <2> HAVE \A y \in {0, m} : x >= y
    <2>1. x >= p /\ p >= x /\ x \in Int /\ p \in Int  BY <1>2
    <2> QED  BY ONLY <2>1
<1>4. Max({0, m}) = p  BY <1>2, <1>3 DEF Max
<1> QED  BY <1>1, <1>4

LEMMA UpTo == \A k \in Nat : IsFiniteSet(1 .. k) /\ Cardinality(1 .. k) = k
<1> SUFFICES ASSUME NEW k \in Nat PROVE IsFiniteSet(1 .. k) /\ Cardinality(1 .. k) = k
    OBVIOUS
<1>1. 1 \in Int /\ k \in Int  OBVIOUS
<1>2. /\ IsFiniteSet(1 .. k)
      /\ Cardinality(1 .. k) = IF 1 > k THEN 0 ELSE k - 1 + 1
    BY <1>1, FS_Interval
<1>3. (IF 1 > k THEN 0 ELSE k - 1 + 1) = k  OBVIOUS
<1> QED  BY <1>2, <1>3

\* Two sets whose members are paired have the same size.
LEMMA Paired ==
    ASSUME NEW S, NEW T, IsFiniteSet(T), NEW f \in [S -> T],
           \A x, y \in S : f[x] = f[y] => x = y,
           \A z \in T : \E x \in S : f[x] = z
    PROVE  IsFiniteSet(S) /\ Cardinality(S) = Cardinality(T)
<1>1. DOMAIN f = S  OBVIOUS
<1>2. f \in Injection(S, T)  BY <1>1 DEF Injection, IsInjective
<1>3. f \in Surjection(S, T)  BY <1>1 DEF Surjection
<1> QED  BY <1>2, <1>3, FS_Injection

\* The ring holds each of its nodes once.
LEMMA RingSize ==
    ASSUME PlaceInv, NEW g \in Limited
    PROVE  /\ ToSet(limit_queue[g]) \subseteq Nodes
           /\ Cardinality(ToSet(limit_queue[g])) = Len(limit_queue[g])
<1>1. PICK s \in Seq(Nodes) : s = limit_queue[g]  BY DEF PlaceInv, Types
<1>2. NoRepeat(s)  BY <1>1 DEF PlaceInv, Once
<1>3. /\ Len(s) \in Nat /\ DOMAIN s = 1 .. Len(s)
      /\ \A i \in 1 .. Len(s) : s[i] \in Nodes
      /\ s = [i \in 1 .. Len(s) |-> s[i]]
    OBVIOUS
<1>4. ToSet(s) \subseteq Nodes /\ IsFiniteSet(ToSet(s))
    <2>1. ToSet(s) \subseteq Nodes  BY <1>3 DEF ToSet
    <2> QED  BY <2>1, NodeFacts, FS_Subset
<1>5. s \in [1 .. Len(s) -> ToSet(s)]  BY <1>3 DEF ToSet
<1>6. \A z \in ToSet(s) : \E i \in 1 .. Len(s) : s[i] = z  BY <1>3 DEF ToSet
<1>7. \A i, j \in 1 .. Len(s) : s[i] = s[j] => i = j  BY <1>2, <1>3 DEF NoRepeat
<1>8. Cardinality(1 .. Len(s)) = Cardinality(ToSet(s))  BY <1>4, <1>5, <1>6, <1>7, Paired
<1>9. Cardinality(1 .. Len(s)) = Len(s)  BY <1>3, UpTo
<1> QED  BY <1>1, <1>4, <1>8, <1>9

\* No two threads are at the same node.
LEMMA OneHolder ==
    ASSUME PlaceInv, NEW t \in Threads, NEW u \in Threads, Stuck(t), Stuck(u),
           Head(todo[t]) = Head(todo[u])
    PROVE  t = u
<1>1. PICK n \in Nodes : n = Head(todo[t]) /\ n = Head(todo[u])
    BY InCall DEF Stuck, Asking
<1>2. Has("todo", t, n) /\ Has("todo", u, n)
    BY <1>1, InCall DEF Stuck, Asking
<1> QED  BY <1>2 DEF PlaceInv, Exclusive, Kinds, Owners

LEMMA OneTaker ==
    ASSUME PlaceInv, NEW v \in Workers, NEW w \in Workers, task[v] \in Nodes, task[v] = task[w]
    PROVE  v = w
<1>1. PICK n \in Nodes : n = task[v] /\ n = task[w]  OBVIOUS
<1>2. Has("task", v, n) /\ Has("task", w, n)  BY <1>1 DEF Has
<1> QED  BY <1>2 DEF PlaceInv, Exclusive, Kinds, Owners, Threads

\* The nodes that are held back are in the ring or on their way to it.
LEMMA HeldSize ==
    ASSUME PlaceInv, NEW g \in Limited
    PROVE  /\ IsFiniteSet(Holding(g))
           /\ Cardinality(HeldOf(g)) = Len(limit_queue[g]) + Cardinality(Holding(g))
<1> DEFINE H == {n \in Of(g) : \E t \in Threads : HeadOf(t, n)}
           R == ToSet(limit_queue[g])
<1>1. R \subseteq Of(g)
    <2>1. \A n \in R : n \in Nodes /\ Has("ring", g, n)  BY RingSize DEF Has, InRing
    <2>2. \A n \in R : parent_graph[n] = g
        BY <2>1 DEF PlaceInv, Released, Kinds, Owners
    <2> QED  BY <2>1, <2>2 DEF Of
<1>2. \A n \in Of(g) : Ring(n) <=> n \in R
    <2> SUFFICES ASSUME NEW n \in Of(g), NEW f \in Limited, InRing(f, n) PROVE f = g
        BY DEF Ring, InRing
    <2>1. n \in Nodes /\ Has("ring", f, n)  BY DEF Has, Of
    <2>2. parent_graph[n] = f  BY <2>1 DEF PlaceInv, Released, Kinds, Owners
    <2> QED  BY <2>2 DEF Of
<1>3. HeldOf(g) = R \cup H
    <2>1. HeldOf(g) = {n \in Of(g) : Held(n)}  BY DEF HeldOf, HeldNodes, Of
    <2>2. \A n \in Of(g) : Held(n) <=> n \in R \/ n \in H  BY <1>2 DEF Held
    <2> QED  BY <1>1, <2>1, <2>2
<1>4. R \cap H = {}
    <2> SUFFICES ASSUME NEW n \in R, NEW t \in Threads, HeadOf(t, n) PROVE FALSE
        OBVIOUS
    <2>1. n \in Nodes /\ Has("ring", g, n)  BY RingSize DEF Has, InRing
    <2>2. Has("todo", t, n)  BY InCall DEF HeadOf, Stuck, Asking
    <2> QED  BY <2>1, <2>2 DEF PlaceInv, Exclusive, Kinds, Owners
<1>5. IsFiniteSet(R) /\ IsFiniteSet(H)
    <2>1. R \subseteq Nodes /\ H \subseteq Nodes  BY <1>1 DEF Of
    <2> QED  BY <2>1, NodeFacts, FS_Subset
<1>6. Holding(g) \subseteq Threads /\ \A t \in Holding(g) : Stuck(t) /\ Head(todo[t]) \in H
    <2> SUFFICES ASSUME NEW t \in Holding(g)
                 PROVE  t \in Threads /\ Stuck(t) /\ Head(todo[t]) \in H
        OBVIOUS
    <2>1. t \in Threads /\ Stuck(t) /\ parent_graph[Head(todo[t])] = g
        BY DEF Holding, holds, Stuck
    <2>2. Head(todo[t]) \in Nodes  BY <2>1, InCall DEF Stuck, Asking
    <2> QED  BY <2>1, <2>2 DEF Of, HeadOf
<1>7. IsFiniteSet(Holding(g)) /\ Cardinality(Holding(g)) = Cardinality(H)
    <2> DEFINE f == [t \in Holding(g) |-> Head(todo[t])]
    <2>1. f \in [Holding(g) -> H]  BY <1>6
    <2>2. \A t, u \in Holding(g) : f[t] = f[u] => t = u  BY <1>6, OneHolder
    <2>3. \A n \in H : \E t \in Holding(g) : f[t] = n
        BY DEF HeadOf, Holding, holds, Stuck, Of
    <2> HIDE DEF f, H
    <2> QED  BY <1>5, <2>1, <2>2, <2>3, Paired
<1>8. Cardinality(R \cup H) = Cardinality(R) + Cardinality(H)
    <2>1. Cardinality(R \cup H) = Cardinality(R) + Cardinality(H) - Cardinality(R \cap H)
        BY <1>5, FS_Union
    <2>2. Cardinality(R \cap H) = 0  BY <1>4, FS_EmptySet
    <2>3. Cardinality(R) \in Nat /\ Cardinality(H) \in Nat  BY <1>5, FS_CardinalityType
    <2> HIDE DEF R, H
    <2> QED  BY ONLY <2>1, <2>2, <2>3
<1> QED  BY <1>3, <1>7, <1>8, RingSize

\* The nodes that workers are to take others for.
LEMMA TakerSize ==
    ASSUME PlaceInv, NEW g \in Limited
    PROVE  Cardinality(TakersOf(g)) = Cardinality(Taking(g))
<1>1. \A w \in Taking(g) : w \in Workers /\ task[w] \in TakersOf(g)
    <2> TAKE w \in Taking(g)
    <2>1. w \in Workers /\ w \in Threads /\ pc[w] = "take" /\ parent_graph[task[w]] = g
        BY DEF Taking, Threads
    <2>2. LocalOK(w)  BY <2>1 DEF PlaceInv, Locals
    <2>3. Stage(w) = "take"  BY <2>1 DEF Stage, Calling
    <2>4. task[w] # nullptr  BY <2>2, <2>3 DEF LocalOK
    <2>5. task[w] \in Nodes  BY <2>1, <2>4 DEF PlaceInv, Types
    <2> QED  BY <2>1, <2>5 DEF TakersOf, Takers, Taken, TakesFor, Of
<1> DEFINE f == [w \in Taking(g) |-> task[w]]
<1>2. f \in [Taking(g) -> TakersOf(g)]  BY <1>1
<1>3. \A v, w \in Taking(g) : f[v] = f[w] => v = w
    BY <1>1, OneTaker DEF TakersOf, Takers
<1>4. \A n \in TakersOf(g) : \E w \in Taking(g) : f[w] = n
    BY DEF TakersOf, Takers, Taken, TakesFor, Taking, Of
<1> HIDE DEF f
<1> QED  BY <1>2, <1>3, <1>4, SetsFinite, Paired

\* A positive m_count is the length of the ring, and the nodes on their way into
\* it, less those about to be taken from it (graph.cpp:23-25, 32-34).
THEOREM HeldAreCounted == Spec => []HeldCounted
<1>1. ASSUME CountInv, NEW g \in Limited
      PROVE  Len(limit_queue[g]) + Cardinality(Holding(g)) - Cardinality(Taking(g))
                 = Max({0, m_count[g]})
    <2>1. PlaceInv /\ HeldOK(g)  BY <1>1 DEF CountInv, HeldExact
    <2>2. PICK p \in Int : p = Positive(m_count[g]) /\ p = Max({0, m_count[g]})
        <3>1. m_count[g] \in Int  BY <2>1 DEF PlaceInv, Types
        <3>2. Positive(m_count[g]) \in Int  BY <3>1 DEF Positive
        <3>3. Max({0, m_count[g]}) = Positive(m_count[g])  BY <3>1, MaxZero
        <3> QED  BY <3>2, <3>3
    <2>3. PICK k \in Nat : k = Cardinality(TakersOf(g)) /\ k = Cardinality(Taking(g))
        BY <2>1, SetsFinite, TakerSize
    <2>4. Len(limit_queue[g]) \in Nat /\ Cardinality(Holding(g)) \in Nat
        <3>1. limit_queue[g] \in Seq(Nodes)  BY <2>1 DEF PlaceInv, Types
        <3> QED  BY <2>1, <3>1, HeldSize, FS_CardinalityType
    <2>5. Cardinality(HeldOf(g)) = Len(limit_queue[g]) + Cardinality(Holding(g))
        BY <2>1, HeldSize
    <2>6. Cardinality(HeldOf(g)) = p + k  BY <2>1, <2>2, <2>3 DEF HeldOK
    <2>7. Len(limit_queue[g]) + Cardinality(Holding(g)) - k = p
        BY ONLY <2>2, <2>3, <2>4, <2>5, <2>6
    <2> QED  BY ONLY <2>2, <2>3, <2>7
<1>2. CountInv => HeldCounted  BY <1>1 DEF HeldCounted
<1> QED  BY <1>2, CountInvariant, PTL

LEMMA HeldIsCounted == \A g : HeldOf(g) \subseteq CountedOf(g)
BY DEF CountedOf, HeldOf, LetNodes, HeldNodes, Held, LetIn, Lets

\* The sum of two disjoint parts.
LEMMA TwoParts ==
    ASSUME NEW S, IsFiniteSet(S), NEW A, NEW B, A \subseteq S, B \subseteq S, A \cap B = {}
    PROVE  Cardinality(A) + Cardinality(B) <= Cardinality(S)
<1>1. IsFiniteSet(A) /\ IsFiniteSet(B) /\ A \cup B \in SUBSET S  BY FS_Subset
<1>2. Cardinality(A \cup B) <= Cardinality(S)  BY <1>1, FS_Subset
<1>3. Cardinality(A \cup B) = Cardinality(A) + Cardinality(B) - Cardinality(A \cap B)
    BY <1>1, FS_Union
<1>4. Cardinality(A \cap B) = 0  BY FS_EmptySet
<1>5. /\ Cardinality(A) \in Nat /\ Cardinality(B) \in Nat
      /\ Cardinality(A \cup B) \in Nat /\ Cardinality(S) \in Nat
    BY <1>1, FS_Union, FS_CardinalityType
<1> QED  BY ONLY <1>2, <1>3, <1>4, <1>5

\* The assertion that the ring takes a held node (graph.cpp:25) cannot fail before
\* more than queue_size + parallel nodes have been dropped into the graph: whoever
\* is refused has seen queue_size positions given to others, and all of them came
\* when no place was free (free_lock.cpp:107-116, 149-153).
THEOREM RingTakesHeld == Spec => []HoldAccepted
<1>1. ASSUME CountInv, NEW t \in Threads, pc[t] = "thrown"
      PROVE  Cardinality({n \in Made : parent_graph[n] = holds(t)}) > queue_size + parallel
    <2>1. PlaceInv /\ ReadTypes  BY <1>1 DEF CountInv
    <2>2. PICK g \in Limited : g = holds(t)
        BY <1>1, <2>1 DEF PlaceInv, Calls, CallOK, Stuck, limit_graph, holds
    <2>3. PICK r \in Nat : r = read[g]  BY <2>1 DEF ReadTypes
    <2>4. PICK l \in Nat : l = Len(limit_queue[g])
        <3>1. limit_queue[g] \in Seq(Nodes)  BY <2>1 DEF PlaceInv, Types
        <3> QED  BY <3>1
    <2>5. r + l >= queue_size  BY <1>1, <2>2, <2>3, <2>4 DEF CountInv, ThrownFull, write_ahead
    <2>6. PICK h \in Nat \ {0} : h = Cardinality(Holding(g))
        <3>1. t \in Holding(g)  BY <1>1, <2>2 DEF Holding
        <3>2. IsFiniteSet(Holding(g))  BY <2>1, <2>2, HeldSize
        <3>3. Cardinality(Holding(g)) \in Nat /\ Cardinality(Holding(g)) # 0
            BY <3>1, <3>2, FS_EmptySet, FS_CardinalityType
        <3> QED  BY <3>3
    <2>7. Brought(g) = r + (l + h)  BY <2>1, <2>3, <2>4, <2>6, HeldSize DEF Brought
    <2>8. IsFiniteSet(Of(g))  BY NodeFacts, FS_Subset DEF Of
    <2>9. PICK c \in Nat : c = Cardinality(Of(g))  BY <2>8, FS_CardinalityType
    <2>10. Come(g) \in SUBSET Of(g)  BY DEF Come
    <2>11. PICK a \in Nat : a = Cardinality(Come(g)) /\ a <= c
        <3>1. IsFiniteSet(Come(g)) /\ Cardinality(Come(g)) <= c
            BY <2>8, <2>9, <2>10, FS_Subset
        <3> QED  BY <3>1, FS_CardinalityType
    <2>12. Brought(g) # 0 => a >= Brought(g) + parallel  BY <1>1, <2>11 DEF CountInv, Enough
    <2>13. c > queue_size + parallel
        BY <2>5, <2>7, <2>11, <2>12, LimitAssumption
    <2>14. {n \in Made : parent_graph[n] = holds(t)} = Of(g)
        <3>1. g # nullptr  BY GraphAssumption DEF Graphs
        <3> QED  BY <2>2, <3>1 DEF Made, Of
    <2> QED  BY <2>9, <2>13, <2>14
<1>2. CountInv => HoldAccepted  BY <1>1 DEF HoldAccepted
<1> QED  BY <1>2, CountInvariant, PTL

\* At most `parallel' nodes of a limit graph run at once: those that run have been
\* counted and are not held back, and all but `parallel' of the counted are held
\* back (graph.cpp:22-38, 46-51, 64-135).
THEOREM LimitKept == Spec /\ []NoLimitedEdges => []WithinLimit
<1>1. ASSUME CountInv, CountExact, NEW g \in Limited
      PROVE  Cardinality(Running(g)) <= parallel
    <2>1. PlaceInv  BY <1>1 DEF CountInv
    <2>2. ASSUME NEW n \in Running(g)
          PROVE  n \in CountedOf(g) /\ n \notin HeldOf(g)
        <3>1. n \in Nodes /\ n \in Of(g)  BY <2>2 DEF Running, Of
        <3>2. PICK w \in Workers : n = task[w] /\ pc[w] \in {"run", "finish"}
            BY <2>2 DEF Running
        <3>3. w \in Threads /\ Stage(w) \in {"run", "finish"} /\ Has("task", w, n)
            BY <3>2 DEF Threads, Stage, Calling, Has
        <3>4. LetIn(n)  BY <3>2, <3>3 DEF LetIn, Lets
        <3>5. ~Ring(n) /\ ~HeadOf(w, n) /\ ~OthersHold(w, n)
            BY <2>1, <3>1, <3>3, Apart
        <3>6. ~Held(n)  BY <3>3, <3>5 DEF Held, OthersHold
        <3> QED  BY <3>1, <3>4, <3>6 DEF CountedOf, LetNodes, HeldOf, HeldNodes
    <2>3. /\ Running(g) \subseteq CountedOf(g) /\ HeldOf(g) \subseteq CountedOf(g)
          /\ Running(g) \cap HeldOf(g) = {}
        BY <2>1, <2>2, HeldIsCounted
    <2>4. Cardinality(Running(g)) + Cardinality(HeldOf(g)) <= Cardinality(CountedOf(g))
        BY <2>3, SetsFinite, TwoParts
    <2>5. PICK m \in Int : m = m_count[g]  BY <2>1 DEF PlaceInv, Types
    <2>6. m + parallel = Cardinality(CountedOf(g))  BY <1>1, <2>5 DEF CountExact
    <2>7. PICK k \in Nat : k = Cardinality(TakersOf(g))  BY SetsFinite
    <2>8. Cardinality(HeldOf(g)) = Positive(m) + k
        BY <1>1, <2>5, <2>7 DEF CountInv, HeldExact, HeldOK
    <2>9. PICK p \in Nat : p = Positive(m) /\ p >= m  BY DEF Positive
    <2>10. Cardinality(Running(g)) \in Nat
        <3>1. IsFiniteSet(Running(g))  BY <2>3, SetsFinite, FS_Subset
        <3> QED  BY <3>1, FS_CardinalityType
    <2>11. Cardinality(Running(g)) + (p + k) <= m + parallel
        BY <2>4, <2>6, <2>8, <2>9
    <2> QED  BY ONLY <2>5, <2>7, <2>9, <2>10, <2>11, LimitAssumption
<1>2. CountInv /\ CountExact => WithinLimit  BY <1>1 DEF WithinLimit
<1> QED  BY <1>2, CountInvariant, ExactCount, PTL

\* The count of a graph stays between no place taken and every node counted, and
\* no node is in the task queue twice (graph.cpp:22-38, 46-51; node.cpp:122-154).
THEOREM TypesKept == Spec /\ []NoLimitedEdges => []TypeOK
<1>1. ASSUME CountInv, CountExact PROVE TypeOK
    <2>1. PlaceInv /\ Types  BY <1>1 DEF CountInv, PlaceInv
    <2>2. \A S \in SUBSET Nodes : Cardinality(S) \in 0 .. MaxNodes
        <3> SUFFICES ASSUME NEW S \in SUBSET Nodes PROVE Cardinality(S) \in 0 .. MaxNodes
            OBVIOUS
        <3>1. Cardinality(Nodes) = MaxNodes  BY BoundAssumption, UpTo DEF Nodes
        <3>2. IsFiniteSet(S) /\ Cardinality(S) <= Cardinality(Nodes)  BY NodeFacts, FS_Subset
        <3>3. Cardinality(S) \in Nat  BY <3>2, FS_CardinalityType
        <3> QED  BY <3>1, <3>2, <3>3, BoundAssumption
    <2>3. wait_count \in [Nodes -> 0 .. MaxNodes]
        <3>1. \A d \in Nodes : Open(d) \in SUBSET Nodes  BY DEF Open
        <3>2. \A d \in Nodes : wait_count[d] \in 0 .. MaxNodes
            BY <2>1, <2>2, <3>1 DEF PlaceInv, WaitExact
        <3> QED  BY <2>1, <3>2 DEF Types
    <2>4. g_wait_count \in [Graphs -> 0 .. MaxNodes]
        <3>1. \A g : Unfinished(g) \in SUBSET Nodes  BY DEF Unfinished
        <3>2. \A g \in Graphs : g_wait_count[g] \in 0 .. MaxNodes
            BY <2>1, <2>2, <3>1 DEF PlaceInv, GraphExact
        <3> QED  BY <2>1, <3>2 DEF Types
    <2>5. m_count \in [Limited -> -parallel .. MaxNodes]
        <3>1. ASSUME NEW g \in Limited PROVE m_count[g] \in -parallel .. MaxNodes
            <4>1. PICK m \in Int : m = m_count[g]  BY <2>1 DEF Types
            <4>2. PICK c \in 0 .. MaxNodes : c = Cardinality(CountedOf(g))
                <5>1. CountedOf(g) \in SUBSET Nodes  BY DEF CountedOf, LetNodes
                <5> QED  BY <2>2, <5>1
            <4>3. m + parallel = c  BY <1>1, <4>1, <4>2 DEF CountExact
            <4> QED  BY <4>1, <4>2, <4>3, LimitAssumption, BoundAssumption
        <3> QED  BY <2>1, <3>1 DEF Types
    <2>6. task_queue \in [Nodes -> 0 .. 1]
        <3>1. \A n \in Nodes : task_queue[n] \in 0 .. 1  BY <2>1 DEF PlaceInv, Once
        <3> QED  BY <2>1, <3>1 DEF Types
    <2>7. pc \in [Threads -> {"idle", "ready", "hold", "look", "claim", "put", "thrown"}
                                \cup WorkerPC]
        <3>1. Points = {"idle", "ready", "hold", "look", "claim", "put", "thrown"} \cup WorkerPC
            BY DEF Points, Calling
        <3> QED  BY <2>1, <3>1 DEF Types
    <2>8. ReadTypes  BY <1>1 DEF CountInv
    <2> QED  BY <2>1, <2>3, <2>4, <2>5, <2>6, <2>7, <2>8 DEF Types, ReadTypes, TypeOK
<1> QED  BY <1>1, CountInvariant, ExactCount, PTL

\* Where there is one limit graph only, nothing else is needed.
THEOREM OneLimitGraph ==
    ASSUME NEW g, Limited = {g}
    PROVE  Spec => [](WithinLimit /\ TypeOK)
<1>1. NoLimitedEdges  BY DEF NoLimitedEdges, limit_graph
<1> QED  BY <1>1, LimitKept, TypesKept, PTL
=============================================================================
