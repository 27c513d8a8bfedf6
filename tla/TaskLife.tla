------------------------------ MODULE TaskLife ------------------------------
(***************************************************************************)
(* What the coroutines of src/aspect.cpp and src/schedule.cpp promise a    *)
(* task: require_node and wait_graph look like blocking calls.  A task     *)
(* that waits for tasks goes on when they have ended, and not before; one  *)
(* that waits for a graph goes on when the graph is notified that its last *)
(* task has ended.  That may come late: a task added to the graph in the   *)
(* meantime may still run when those who wait for the graph go on, however *)
(* lately they began to wait.  A worker serves one task at a time, and a   *)
(* waiting task occupies none.                                             *)
(***************************************************************************)
EXTENDS Integers, FiniteSets

CONSTANTS Tasks, Graphs, GraphOf, NumWorkers

VARIABLES
    life,       \* "none", "ready", "running", "waiting" or "ended"
    needs,      \* the tasks and graphs a task still has to wait for
    notifying   \* tasks that were the last of their graph to end

vars == <<life, needs, notifying>>

Init ==
    /\ life = [n \in Tasks |-> "none"]
    /\ needs = [n \in Tasks |-> {}]
    /\ notifying = {}

Unended(g) == {n \in Tasks : GraphOf[n] = g /\ life[n] \in {"ready", "running", "waiting"}}

\* Whoever is not over yet.
Pending == {n \in Tasks : life[n] \in {"ready", "running", "waiting"}}
              \cup {g \in Graphs : Unended(g) # {}}

Become(n, from, to) == life[n] = from /\ life' = [life EXCEPT ![n] = to]

WorkerFree == Cardinality({n \in Tasks : life[n] = "running"}) < NumWorkers

Submit(n, R) ==
    /\ Become(n, "none", "ready")
    /\ needs' = [needs EXCEPT ![n] = R \cap Pending]
    /\ UNCHANGED notifying

Start(n) ==
    /\ WorkerFree /\ needs[n] = {}
    /\ Become(n, "ready", "running")
    /\ UNCHANGED <<needs, notifying>>

\* require_node, wait_graph: what is over already is not waited for.
Wait(n, S) ==
    /\ Become(n, "running", "waiting")
    /\ needs' = [needs EXCEPT ![n] = S \cap Pending]
    /\ UNCHANGED notifying

\* The call returns.
Return(n) ==
    /\ WorkerFree /\ needs[n] = {}
    /\ Become(n, "waiting", "running")
    /\ UNCHANGED <<needs, notifying>>

\* A task that ends is no longer waited for.  Its graph is as long as it is
\* not notified.
End(n) ==
    /\ Become(n, "running", "ended")
    /\ needs' = [m \in Tasks |-> needs[m] \ {n}]
    /\ notifying' = IF Unended(GraphOf[n]) = {n} THEN notifying \cup {n} ELSE notifying

Notify(n) ==
    /\ n \in notifying /\ notifying' = notifying \ {n}
    /\ needs' = [m \in Tasks |-> needs[m] \ {GraphOf[n]}]
    /\ UNCHANGED life

Next == \E n \in Tasks :
    \/ \E R \in SUBSET Tasks : Submit(n, R)
    \/ \E S \in SUBSET (Tasks \cup Graphs) : Wait(n, S)
    \/ Start(n) \/ Return(n) \/ End(n) \/ Notify(n)

Spec == Init /\ [][Next]_vars
=============================================================================
