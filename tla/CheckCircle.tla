---------------------------- MODULE CheckCircle ----------------------------
(***************************************************************************)
(* Assistant::check_circle and do_check_circle (src/aspect.cpp), with      *)
(* enable_qf_check_circle on: before a task waits, require_node searches   *)
(* the up_streams of what it is going to wait for, and asserts that it     *)
(* does not meet the task itself.  wait_graph makes no such search, and    *)
(* its back node has no up_streams.                                        *)
(*                                                                         *)
(* The search takes no lock, and what a task is going to wait for is       *)
(* recorded after the search: in the up_streams of the task its back node, *)
(* in those of the back node the required nodes.  A task's up_streams keep *)
(* the back nodes of its earlier waits, which have been freed; Reuse says  *)
(* whether the allocator may give such an address to a new back node.      *)
(* Nodes are tasks, or addresses of back nodes.  flag_node, which is       *)
(* skipped, is left out, and so are null pointers.                         *)
(***************************************************************************)
EXTENDS Integers, FiniteSets

CONSTANTS
    Tasks,
    Graphs,        \* a graph is the set of the tasks it gets in its life
    Addresses,     \* bound: back nodes, if Reuse is FALSE
    MaxReqs,       \* bound: required nodes of one call
    Reuse

ASSUME CircleAssumption == Tasks \cap Addresses = {} /\ MaxReqs \in Nat /\ Reuse \in BOOLEAN

ASSUME GraphAssumption ==
    /\ UNION Graphs = Tasks
    /\ \A g, h \in Graphs : g # h => g \cap h = {}

VARIABLES
    status,
    up_streams,
    pc,
    nodes,         \* argument of require_node, or the graph wait_graph waits for
    a,             \* the set *a_ptr of do_check_circle
    back_node,
    waiters,       \* tasks whose back node is in the down_streams of a graph
    required,      \* history: what create_edges named for a task
    overlap        \* history: pairs of tasks that were in require_node at once

vars == <<status, up_streams, pc, nodes, a, back_node, waiters, required, overlap>>

Nodes == Tasks \cup Addresses
nullptr == "nullptr"

Init ==
    /\ status = [n \in Nodes |-> "none"]
    /\ up_streams = [n \in Nodes |-> {}]
    /\ pc = [t \in Tasks |-> "new"]
    /\ nodes = [t \in Tasks |-> {}]
    /\ a = [t \in Tasks |-> {}]
    /\ back_node = [t \in Tasks |-> nullptr]
    /\ waiters = {}
    /\ required = [t \in Tasks |-> {}]
    /\ overlap = {}

Unfinished(n) == status[n] \in {"Initing", "Running", "Yield"}      \* < Finish
Made == {t \in Tasks : pc[t] # "new"}
Requests == {S \in SUBSET Made : Cardinality(S) <= MaxReqs}
Calling == {t \in Tasks : pc[t] \in {"search", "record", "edges"}}

\* A failed assertion is an exception nobody catches.
Thrown == \E t \in Tasks : pc[t] = "thrown"

Go(t, from, to) == ~Thrown /\ pc[t] = from /\ pc' = [pc EXCEPT ![t] = to]

create_edges(t, R) ==
    /\ Go(t, "new", "ready")
    /\ status' = [status EXCEPT ![t] = "Initing"]
    /\ up_streams' = [up_streams EXCEPT ![t] = R]
    /\ required' = [required EXCEPT ![t] = R]
    /\ UNCHANGED <<nodes, a, back_node, waiters, overlap>>

Start(t) ==
    /\ Go(t, "ready", "run")
    /\ \A r \in required[t] : ~Unfinished(r)
    /\ status' = [status EXCEPT ![t] = "Running"]
    /\ UNCHANGED <<up_streams, nodes, a, back_node, waiters, required, overlap>>

\* Graph::finish: the last task of its graph to end has waiters to notify.
Last(t) == \A g \in Graphs : t \in g => \A n \in g \ {t} : ~Unfinished(n)

Finish(t) ==
    /\ Go(t, "run", IF Last(t) THEN "notify" ELSE "ended")
    /\ status' = [status EXCEPT ![t] = "Finish"]
    /\ UNCHANGED <<up_streams, nodes, a, back_node, waiters, required, overlap>>

\* Those that have come since are notified too.
Notify(t) ==
    /\ Go(t, "notify", "ended")
    /\ waiters' = {u \in waiters : t \notin nodes[u]}
    /\ UNCHANGED <<status, up_streams, nodes, a, back_node, required, overlap>>

\* require_node with nothing to wait for.
RequireFinished(t, S) ==
    /\ Go(t, "run", "run")
    /\ \A n \in S : ~Unfinished(n)
    /\ up_streams' = [up_streams EXCEPT ![t] = @ \cup S]
    /\ UNCHANGED <<status, nodes, a, back_node, waiters, required, overlap>>

\* require_node that will wait: check_circle looks at the nodes themselves,
\* then do_check_circle starts from those that have not finished.
require_node(t, S) ==
    /\ \E n \in S : Unfinished(n)
    /\ Go(t, "run", IF t \in S THEN "thrown" ELSE "search")
    /\ nodes' = [nodes EXCEPT ![t] = S]
    /\ a' = [a EXCEPT ![t] = {n \in S : Unfinished(n) /\ t \notin S}]
    /\ overlap' = overlap \cup (Calling \X {t}) \cup ({t} \X Calling)
    /\ UNCHANGED <<status, up_streams, back_node, waiters, required>>

\* wait_graph refuses the task's own graph only.
wait_graph(t, g) ==
    /\ \E n \in g : Unfinished(n)
    /\ Go(t, "run", IF t \in g THEN "thrown" ELSE "g_record")
    /\ nodes' = [nodes EXCEPT ![t] = g]
    /\ UNCHANGED <<status, up_streams, a, back_node, waiters, required, overlap>>

\* Mutant: the set is not cleared before the next round.
Upwards_Uncleared(S) == S \cup {n \in UNION {up_streams[m] : m \in S} : Unfinished(n)}

\* Mutant: the search goes on from tasks only.
Upwards_Tasks(S) == {n \in UNION {up_streams[m] : m \in S} \cap Tasks : Unfinished(n)}

\* One round: from *b_ptr to the next *a_ptr.
Upwards(S) == {n \in UNION {up_streams[m] : m \in S} : Unfinished(n)}

\* Mutant: the search ends after one round.
do_check_circle_OneRound(t) ==
    /\ Go(t, "search", IF t \in a[t] THEN "thrown" ELSE "record")
    /\ a' = [a EXCEPT ![t] = Upwards(@)]
    /\ UNCHANGED <<status, up_streams, nodes, back_node, waiters, required, overlap>>

do_check_circle(t) ==
    /\ Go(t, "search", CASE a[t] = {} -> "record" [] t \in a[t] -> "thrown" [] OTHER -> "search")
    /\ a' = [a EXCEPT ![t] = IF t \in @ THEN {} ELSE Upwards(@)]
    /\ UNCHANGED <<status, up_streams, nodes, back_node, waiters, required, overlap>>

\* What operator new may return.
Free(b) == status[b] = "none" \/ (Reuse /\ status[b] = "Destroy")

Record(t, b) ==
    /\ Go(t, "record", "edges") \/ Go(t, "g_record", "g_edges")
    /\ Free(b)
    /\ status' = [status EXCEPT ![b] = "Initing"]
    /\ up_streams' = [up_streams EXCEPT ![t] = @ \cup {b}, ![b] = {}]
    /\ back_node' = [back_node EXCEPT ![t] = b]
    /\ UNCHANGED <<nodes, a, waiters, required, overlap>>

\* sub_graph_.create_edges(back_node, nodes)
CreateEdges(t) ==
    /\ Go(t, "edges", "wait")
    /\ up_streams' = [up_streams EXCEPT ![back_node[t]] = nodes[t]]
    /\ status' = [status EXCEPT ![t] = "Yield"]
    /\ UNCHANGED <<nodes, a, back_node, waiters, required, overlap>>

\* sub_graph_.create_edges(back_node, *graph): no up_streams.
CreateGraphEdge(t) ==
    /\ Go(t, "g_edges", "g_wait")
    /\ waiters' = IF \E n \in nodes[t] : Unfinished(n) THEN waiters \cup {t} ELSE waiters
    /\ status' = [status EXCEPT ![t] = "Yield"]
    /\ UNCHANGED <<up_streams, nodes, a, back_node, required, overlap>>

\* The task goes on and frees its back node; the pointer stays.
Resumed(t) ==
    /\ \/ Go(t, "wait", "run") /\ \A n \in nodes[t] : ~Unfinished(n)
       \/ Go(t, "g_wait", "run") /\ t \notin waiters
    /\ status' = [status EXCEPT ![t] = "Running", ![back_node[t]] = "Destroy"]
    /\ up_streams' = [up_streams EXCEPT ![back_node[t]] = {}]
    /\ back_node' = [back_node EXCEPT ![t] = nullptr]
    /\ nodes' = [nodes EXCEPT ![t] = {}]
    /\ UNCHANGED <<a, waiters, required, overlap>>

\* A worker on behalf of task t.
Step(t) ==
    \/ Start(t) \/ Finish(t) \/ Notify(t)
    \/ do_check_circle(t) \/ CreateEdges(t) \/ CreateGraphEdge(t) \/ Resumed(t)
    \/ \E b \in Addresses : Record(t, b)
    \/ \E g \in Graphs : wait_graph(t, g)
    \/ \E S \in Requests : require_node(t, S) \/ RequireFinished(t, S)

Next == \E t \in Tasks : Step(t) \/ \E R \in Requests : create_edges(t, R)

Spec == Init /\ [][Next]_vars

\* A search is scheduled.
FairSpec == Spec /\ \A t \in Tasks : WF_vars(do_check_circle(t))

(***************************************************************************)
(* Reference: who really waits for whom                                    *)
(***************************************************************************)
WaitsFor(n) ==
    CASE pc[n] = "ready" -> {r \in required[n] : Unfinished(r)}
      [] pc[n] = "wait"  -> {r \in nodes[n] : Unfinished(r)}
      [] pc[n] = "g_wait" /\ n \in waiters -> {r \in nodes[n] : Unfinished(r)}
      [] OTHER -> {}

\* Each waits for another of them: a set of tasks that holds a circle.
Knot(C) == C # {} /\ \A m \in C : WaitsFor(m) \cap C # {}

\* One of them is in wait_graph.
InWaitGraph(C) == \E m \in C : pc[m] = "g_wait"

\* Waiting for S would close a circle through t.
Closes(t, S) ==
    \E C \in SUBSET (Tasks \ {t}) :
        /\ S \cap (C \cup {t}) # {}
        /\ \A m \in C : WaitsFor(m) \cap (C \cup {t}) # {}
        /\ ~\E D \in SUBSET C : Knot(D)

TypeOK ==
    /\ status \in [Nodes -> {"none", "Initing", "Running", "Yield", "Finish", "Destroy"}]
    /\ up_streams \in [Nodes -> SUBSET Nodes]
    /\ pc \in [Tasks -> {"new", "ready", "run", "search", "record", "edges", "wait",
                         "g_record", "g_edges", "g_wait", "notify", "ended", "thrown"}]
    /\ nodes \in [Tasks -> SUBSET Tasks] /\ required \in [Tasks -> SUBSET Tasks]
    /\ a \in [Tasks -> SUBSET Nodes]
    /\ \A t \in Tasks : a[t] # {} => pc[t] = "search"
    /\ back_node \in [Tasks -> Addresses \cup {nullptr}]
    /\ waiters \subseteq {t \in Tasks : pc[t] = "g_wait"}
    /\ overlap \subseteq Tasks \X Tasks

\* A circle of waits comes into being only if two of its tasks were in
\* require_node at the same time or one of them is in wait_graph, which checks
\* nothing and leaves no trace (aspect.cpp:161-202): a circle of waits in
\* require_node and of required nodes that was recorded before the search
\* began is never missed, however many back nodes and finished waits lie on
\* the way (aspect.cpp:73-105, 129-141).
MissedOnlyByOverlap ==
    \A C \in SUBSET Tasks : Knot(C) => (C \X C) \cap overlap # {} \/ InWaitGraph(C)

\* The assertion fails only for a task that would wait for itself
\* (aspect.cpp:129).
NoFalseAlarm == \A t \in Tasks : pc[t] = "thrown" => Closes(t, nodes[t])

\* Tasks in require_node, or not yet started, that wait for each other.
Deadlocked == \E C \in SUBSET Tasks : Knot(C) /\ ~InWaitGraph(C)

\* What a task still names as the back node of an earlier wait has been given
\* to another task.
Misled ==
    \E t \in Tasks : \E b \in up_streams[t] \cap Addresses : Unfinished(b) /\ b # back_node[t]

\* The search, which keeps no set of visited nodes (aspect.cpp:83-102), comes
\* to an end, unless tasks of require_node wait for each other already or an
\* address that was used again leads it on: one that goes on for ever has one
\* of the two before it from some time on.
CheckReturns ==
    \A t \in Tasks :
        <>[](pc[t] = "search" /\ ~Thrown) => <>[]Deadlocked \/ <>[]Misled
=============================================================================
