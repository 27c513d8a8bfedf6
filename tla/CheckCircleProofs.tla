-------------------------- MODULE CheckCircleProofs --------------------------
(***************************************************************************)
(* Proofs about CheckCircle, for any sets of tasks and addresses, and      *)
(* whether or not the allocator uses an address again.                     *)
(*                                                                         *)
(* The search of task t stands in front of every chain of waits that leads *)
(* from what t is going to wait for back to t: one of the nodes it will    *)
(* look at next is on the chain.  A chain cannot be closed behind its back *)
(* except by a task that was in require_node at the same time.  So the     *)
(* search ends without a failure only if there is no other chain, and what *)
(* CreateEdges then closes is an overlap's doing.                          *)
(***************************************************************************)
EXTENDS CheckCircle, FiniteSetTheorems, TLAPS

\* What t is going to wait for.
Wants(t) == {n \in nodes[t] : Unfinished(n)}

\* Through the tasks of D, none of them in wait_graph, what t is going to wait
\* for leads back to t, or into a circle among D.
Chain(t, D) ==
    /\ D \subseteq Tasks \ {t} /\ ~InWaitGraph(D)
    /\ Wants(t) \cap (D \cup {t}) # {}
    /\ \A m \in D : WaitsFor(m) \cap (D \cup {t}) # {}

Overlaps(C) == (C \X C) \cap overlap # {}

\* The next round looks at a task of the chain, or at its back node.
Front(t, D) ==
    \E x \in a[t] : \/ x \in D \cup {t}
                    \/ \E m \in D : pc[m] = "wait" /\ x = back_node[m]

Searched(t) ==
    /\ pc[t] = "search" => \A D : Chain(t, D) => Overlaps(D \cup {t}) \/ Front(t, D)
    /\ pc[t] \in {"record", "edges"} => \A D : Chain(t, D) => Overlaps(D \cup {t})

\* The state of a task's node, by where the task is.
Places == {"new", "ready", "run", "search", "record", "edges", "wait", "g_record", "g_edges",
           "g_wait", "notify", "ended", "thrown"}
StatusAt == [ l \in Places |->
    CASE l = "new" -> "none" [] l = "ready" -> "Initing" [] l \in {"wait", "g_wait"} -> "Yield"
      [] l \in {"notify", "ended"} -> "Finish" [] OTHER -> "Running" ]

\* A task that has a back node.
Holds(t) == pc[t] \in {"edges", "wait", "g_edges", "g_wait"}

\* What the up_streams of task t say of its waits.
Recorded(t) ==
    /\ required[t] \subseteq Made
    /\ pc[t] \in {"search", "record", "edges", "wait"} => nodes[t] \subseteq Made
    /\ status[t] = StatusAt[pc[t]]
    /\ Holds(t) => /\ back_node[t] \in Addresses /\ status[back_node[t]] = "Initing"
                   /\ back_node[t] \in up_streams[t]
    /\ pc[t] = "ready" => required[t] \subseteq up_streams[t]
    /\ pc[t] = "wait" => up_streams[back_node[t]] = nodes[t]

\* No back node belongs to two tasks.
OneHolder == \A t, u \in Tasks : t # u /\ Holds(t) /\ Holds(u) => back_node[t] # back_node[u]

\* Tasks that are in require_node together are noted.
Noted == \A s, t \in Calling : s # t => <<s, t>> \in overlap

CircleInv ==
    /\ TypeOK /\ OneHolder /\ Noted
    /\ \A t \in Tasks : Recorded(t) /\ Searched(t)
    /\ MissedOnlyByOverlap

-----------------------------------------------------------------------------
(* The chains *)

WaitsForIs == \A n \in Tasks :
    /\ pc[n] = "ready" => WaitsFor(n) = {r \in required[n] : Unfinished(r)}
    /\ pc[n] = "wait" => WaitsFor(n) = {r \in nodes[n] : Unfinished(r)}
    /\ pc[n] \notin {"ready", "wait", "g_wait"} => WaitsFor(n) = {}

\* The CASE of WaitsFor, and the same after a step.
LEMMA WaitsForCases == WaitsForIs
<1> SUFFICES ASSUME NEW n \in Tasks
             PROVE  /\ pc[n] = "ready" => WaitsFor(n) = {r \in required[n] : Unfinished(r)}
                    /\ pc[n] = "wait" => WaitsFor(n) = {r \in nodes[n] : Unfinished(r)}
                    /\ pc[n] \notin {"ready", "wait", "g_wait"} => WaitsFor(n) = {}
    BY DEF WaitsForIs
<1>1. CASE pc[n] = "ready"  BY <1>1 DEF WaitsFor
<1>2. CASE pc[n] = "wait"  BY <1>2 DEF WaitsFor
<1>3. CASE pc[n] \notin {"ready", "wait", "g_wait"}  BY <1>3 DEF WaitsFor
<1>4. CASE pc[n] = "g_wait"  BY <1>4
<1> QED  BY <1>1, <1>2, <1>3, <1>4

LEMMA WaitsForCasesNext == WaitsForIs'
BY WaitsForCases, PTL

\* What a step of task u leaves alone.
Effects(u) ==
    /\ \A m \in Tasks : m # u =>
          /\ pc'[m] = pc[m] /\ nodes'[m] = nodes[m] /\ required'[m] = required[m]
          /\ a'[m] = a[m] /\ back_node'[m] = back_node[m] /\ status'[m] = status[m]
    /\ overlap \subseteq overlap'

\* How a step of task u may change the waits: after it u waits for nobody, or
\* in wait_graph; or u comes out of require_node; or u is made, and nobody knows it yet.
Frees(u) == pc'[u] \notin {"ready", "wait"} /\ (Unfinished(u)' => Unfinished(u))
Closing(u) == pc[u] = "edges" /\ (Unfinished(u)' <=> Unfinished(u))
Making(u) == pc[u] = "new"

\* Without u, waits after the step are waits before it.
LEMMA WaitsBefore ==
    ASSUME CircleInv, NEW u \in Tasks, Effects(u), NEW m \in Tasks, m # u, NEW C,
           pc[m] # "g_wait", u \in C => pc[u] = "new" \/ (Unfinished(u)' => Unfinished(u)),
           WaitsFor(m)' \cap C # {}
    PROVE  /\ WaitsFor(m) \cap C # {}
           /\ pc[u] = "new" => WaitsFor(m) \cap (C \ {u}) # {}
<1>1. PICK r : r \in WaitsFor(m)' /\ r \in C  OBVIOUS
<1>2. pc[m] \in {"ready", "wait"} /\ pc'[m] = pc[m]
    BY <1>1, WaitsForCasesNext DEF WaitsForIs, Effects
<1>3. /\ Unfinished(r)'
      /\ pc[m] = "ready" => r \in required[m]
      /\ pc[m] = "wait" => r \in nodes[m]
    BY <1>1, <1>2, WaitsForCasesNext DEF WaitsForIs, Effects
<1>4. r \in Made  BY <1>2, <1>3 DEF CircleInv, Recorded
<1>5. r \in Tasks /\ (r = u => pc[u] # "new")  BY <1>4 DEF Made
<1>6. Unfinished(r)
    <2>1. CASE r = u  BY <1>1, <1>3, <1>5, <2>1
    <2>2. CASE r # u  BY <1>3, <1>5, <2>2 DEF Effects, Unfinished
    <2> QED  BY <2>1, <2>2
<1>7. r \in WaitsFor(m)  BY <1>2, <1>3, <1>6, WaitsForCases DEF WaitsForIs
<1> QED  BY <1>1, <1>5, <1>7

\* The same for what t is going to wait for.
LEMMA WantsBefore ==
    ASSUME CircleInv, NEW u \in Tasks, Effects(u), NEW t \in Tasks, t # u, NEW C,
           t \in Calling, u \in C => pc[u] = "new" \/ (Unfinished(u)' => Unfinished(u)),
           Wants(t)' \cap C # {}
    PROVE  /\ Wants(t) \cap C # {}
           /\ pc[u] = "new" => Wants(t) \cap (C \ {u}) # {}
<1>1. PICK r : r \in Wants(t)' /\ r \in C  OBVIOUS
<1>2. Unfinished(r)' /\ r \in nodes[t]  BY <1>1 DEF Wants, Effects
<1>3. r \in Tasks /\ (r = u => pc[u] # "new")
    BY <1>2 DEF CircleInv, Recorded, Made, Calling
<1>4. Unfinished(r)
    <2>1. CASE r = u  BY <1>1, <1>2, <1>3, <2>1
    <2>2. CASE r # u  BY <1>2, <1>3, <2>2 DEF Effects, Unfinished
    <2> QED  BY <2>1, <2>2
<1>5. r \in Wants(t)  BY <1>2, <1>4 DEF Wants
<1> QED  BY <1>1, <1>3, <1>5

\* More overlap, more tasks.
LEMMA MoreOverlap ==
    ASSUME NEW u, Effects(u), NEW C, NEW D, C \subseteq D, Overlaps(C)
    PROVE  Overlaps(D)'
BY DEF Overlaps, Effects

\* A search stays in front of its chains while others move.
LEMMA OtherSearched ==
    ASSUME CircleInv, NEW u \in Tasks, NEW t \in Tasks, t # u, Effects(u),
           Frees(u) \/ Closing(u) \/ Making(u)
    PROVE  Searched(t)'
<1>1. pc'[t] = pc[t] /\ a'[t] = a[t]  BY DEF Effects
<1>2. ASSUME NEW D, pc[t] \in {"search", "record", "edges"}, Chain(t, D)'
      PROVE  \/ Overlaps(D \cup {t})'
             \/ /\ pc[t] = "search" => Front(t, D)'
                /\ pc[t] # "search" => Overlaps(D \cup {t})'
    <2>1. /\ D \subseteq Tasks \ {t} /\ Wants(t)' \cap (D \cup {t}) # {}
          /\ \A m \in D : WaitsFor(m)' \cap (D \cup {t}) # {} /\ pc'[m] # "g_wait"
        BY <1>2 DEF Chain, InWaitGraph
    <2>2. CASE Closing(u) /\ u \in D
        <3>1. u \in Calling /\ t \in Calling  BY <1>2, <2>2 DEF Calling, Closing
        <3>2. <<u, t>> \in overlap  BY <3>1 DEF CircleInv, Noted
        <3>3. <<u, t>> \in overlap'  BY <3>2 DEF Effects
        <3> QED  BY <2>2, <3>3 DEF Overlaps
    <2>3. CASE ~(Closing(u) /\ u \in D)
        <3> DEFINE E == D \ {u}
        <3>1. u \in D => pc[u] = "new"
            <4>1. Frees(u) /\ pc'[u] # "g_wait" => WaitsFor(u)' = {}
                BY WaitsForCasesNext DEF WaitsForIs, Frees
            <4> QED  BY <2>1, <2>3, <4>1 DEF Making
        <3>2. u \in D \cup {t} => pc[u] = "new" \/ (Unfinished(u)' => Unfinished(u))
            BY <3>1
        <3>3. Wants(t) \cap (E \cup {t}) # {}
            <4>1. /\ Wants(t) \cap (D \cup {t}) # {}
                  /\ pc[u] = "new" => Wants(t) \cap ((D \cup {t}) \ {u}) # {}
                <5>1. t \in Calling  BY <1>2 DEF Calling
                <5>2. Wants(t)' \cap (D \cup {t}) # {}  BY <2>1
                <5> HIDE DEF E
                <5> QED  BY <3>2, <5>1, <5>2, WantsBefore
            <4> QED  BY <3>1, <4>1
        <3>4. ASSUME NEW m \in E PROVE WaitsFor(m) \cap (E \cup {t}) # {}
            <4>1. /\ m \in Tasks /\ m # u /\ WaitsFor(m)' \cap (D \cup {t}) # {}
                  /\ pc[m] # "g_wait"
                BY <2>1, <3>4 DEF Effects
            <4>2. /\ WaitsFor(m) \cap (D \cup {t}) # {}
                  /\ pc[u] = "new" => WaitsFor(m) \cap ((D \cup {t}) \ {u}) # {}
                BY <3>2, <4>1, WaitsBefore
            <4> QED  BY <3>1, <4>2
        <3>5. Chain(t, E)
            <4>1. ~InWaitGraph(E)  BY <2>1 DEF InWaitGraph, Effects
            <4> QED  BY <2>1, <3>3, <3>4, <4>1 DEF Chain
        <3>6. /\ pc[t] = "search" => Overlaps(E \cup {t}) \/ Front(t, E)
              /\ pc[t] # "search" => Overlaps(E \cup {t})
            BY <1>2, <3>5 DEF CircleInv, Searched
        <3>7. Overlaps(E \cup {t}) => Overlaps(D \cup {t})'
            BY MoreOverlap
        <3>8. Front(t, E) => Front(t, D)'
            BY <1>1, <2>1 DEF Front, Effects
        <3> QED  BY <3>6, <3>7, <3>8
    <2> QED  BY <2>2, <2>3
<1> QED  BY <1>1, <1>2 DEF Searched

\* A circle that a step closes overlaps.
LEMMA KnotStep ==
    ASSUME CircleInv, NEW u \in Tasks, Effects(u),
           \/ Frees(u)
           \/ Closing(u) /\ nodes'[u] = nodes[u] /\ pc'[u] = "wait"
           \/ Making(u) /\ required'[u] \subseteq Made /\ pc'[u] = "ready"
    PROVE  MissedOnlyByOverlap'
<1> SUFFICES ASSUME NEW C, C \subseteq Tasks, Knot(C)', ~InWaitGraph(C)' PROVE Overlaps(C)'
    BY DEF MissedOnlyByOverlap, Overlaps
<1>1. C # {} /\ \A m \in C : WaitsFor(m)' \cap C # {} /\ pc'[m] # "g_wait"
    BY DEF Knot, InWaitGraph
<1>0. \A m \in C : m # u => pc[m] # "g_wait"  BY <1>1 DEF Effects
<1>2. CASE u \notin C
    <2>1. ASSUME NEW m \in C PROVE WaitsFor(m) \cap C # {}
        <3>1. m \in Tasks /\ m # u /\ WaitsFor(m)' \cap C # {}  BY <1>1, <1>2, <2>1
        <3>2. pc[m] # "g_wait"  BY <1>0, <2>1, <3>1
        <3> QED  BY <1>2, <3>1, <3>2, WaitsBefore
    <2>2. Knot(C) /\ ~InWaitGraph(C)  BY <1>0, <1>1, <1>2, <2>1 DEF Knot, InWaitGraph
    <2>3. Overlaps(C)  BY <2>2 DEF CircleInv, MissedOnlyByOverlap, Overlaps
    <2> QED  BY <2>3, MoreOverlap
<1>3. CASE u \in C /\ Frees(u)
    BY <1>1, <1>3, WaitsForCasesNext DEF WaitsForIs, Frees
<1>4. CASE u \in C /\ Closing(u) /\ nodes'[u] = nodes[u] /\ pc'[u] = "wait"
    <2> DEFINE D == C \ {u}
    <2>1. PICK r : r \in WaitsFor(u)' /\ r \in C  BY <1>1, <1>4
    <2>2. r \in nodes[u] /\ Unfinished(r)'
        BY <1>4, <2>1, WaitsForCasesNext DEF WaitsForIs
    <2>3. r \in Tasks  BY <2>1
    <2>4. Unfinished(r)
        <3>1. CASE r = u  BY <1>4, <2>2, <3>1 DEF Closing
        <3>2. CASE r # u  BY <2>2, <2>3, <3>2 DEF Effects, Unfinished
        <3> QED  BY <3>1, <3>2
    <2>5. r \in Wants(u) \cap (D \cup {u})  BY <2>1, <2>2, <2>4 DEF Wants
    <2>6. ASSUME NEW m \in D PROVE WaitsFor(m) \cap (D \cup {u}) # {}
        <3>1. m \in Tasks /\ m # u /\ WaitsFor(m)' \cap C # {}  BY <1>1, <2>6
        <3>2. pc[m] # "g_wait"  BY <1>0, <2>6, <3>1
        <3>3. WaitsFor(m) \cap C # {}  BY <1>4, <3>1, <3>2, WaitsBefore DEF Closing
        <3> QED  BY <1>4, <3>3
    <2>7. Chain(u, D)  BY <1>0, <2>5, <2>6 DEF Chain, InWaitGraph
    <2>8. Overlaps(D \cup {u})  BY <1>4, <2>7 DEF CircleInv, Searched, Closing
    <2> QED  BY <1>4, <2>8, MoreOverlap
<1>5. CASE u \in C /\ Making(u) /\ required'[u] \subseteq Made /\ pc'[u] = "ready"
    <2> DEFINE D == C \ {u}
    <2>1. PICK r : r \in WaitsFor(u)' /\ r \in C  BY <1>1, <1>5
    <2>2. r \in Made  BY <1>5, <2>1, WaitsForCasesNext DEF WaitsForIs
    <2>3. r \in D  BY <1>5, <2>1, <2>2 DEF Made, Making
    <2>4. ASSUME NEW m \in D PROVE WaitsFor(m) \cap D # {}
        <3>1. m \in Tasks /\ m # u /\ WaitsFor(m)' \cap C # {}  BY <1>1, <2>4
        <3>2. pc[m] # "g_wait"  BY <1>0, <2>4, <3>1
        <3> QED  BY <1>5, <3>1, <3>2, WaitsBefore DEF Making
    <2>5. Knot(D) /\ D \subseteq Tasks /\ ~InWaitGraph(D)
        BY <1>0, <2>3, <2>4 DEF Knot, InWaitGraph
    <2>6. Overlaps(D)  BY <2>5 DEF CircleInv, MissedOnlyByOverlap, Overlaps
    <2> QED  BY <2>6, MoreOverlap
<1> QED  BY <1>2, <1>3, <1>4, <1>5

-----------------------------------------------------------------------------
(* The search *)

\* A round of the search moves its front along every chain.
LEMMA FrontMoves ==
    ASSUME CircleInv, NEW t \in Tasks, pc[t] = "search", NEW D, Chain(t, D), Front(t, D),
           t \notin a[t]
    PROVE  \E x \in Upwards(a[t]) : \/ x \in D \cup {t}
                                    \/ \E m \in D : pc[m] = "wait" /\ x = back_node[m]
<1>1. PICK x \in a[t] : x \in D \/ \E m \in D : pc[m] = "wait" /\ x = back_node[m]
    BY DEF Front
<1>2. /\ D \subseteq Tasks
      /\ \A m \in D : WaitsFor(m) \cap (D \cup {t}) # {} /\ pc[m] # "g_wait"
    BY DEF Chain, InWaitGraph
<1>3. \A y : y \in up_streams[x] /\ Unfinished(y) => y \in Upwards(a[t])
    BY <1>1 DEF Upwards
<1>4. ASSUME x \in D, pc[x] = "wait"
      PROVE  back_node[x] \in up_streams[x] /\ Unfinished(back_node[x])
    BY <1>2, <1>4 DEF CircleInv, Recorded, Holds, Unfinished
<1>5. ASSUME x \in D, pc[x] = "ready"
      PROVE  \E y \in D \cup {t} : y \in up_streams[x] /\ Unfinished(y)
    <2>1. x \in Tasks /\ required[x] \subseteq up_streams[x]
        BY <1>2, <1>5 DEF CircleInv, Recorded
    <2>2. PICK y \in D \cup {t} : y \in WaitsFor(x)  BY <1>2, <1>5
    <2>3. y \in required[x] /\ Unfinished(y)
        BY <1>5, <2>1, <2>2, WaitsForCases DEF WaitsForIs
    <2> QED  BY <2>1, <2>2, <2>3
<1>6. ASSUME NEW m \in D, pc[m] = "wait", x = back_node[m]
      PROVE  \E y \in D \cup {t} : y \in up_streams[x] /\ Unfinished(y)
    <2>1. m \in Tasks /\ up_streams[x] = nodes[m]  BY <1>2, <1>6 DEF CircleInv, Recorded
    <2>2. PICK y \in D \cup {t} : y \in WaitsFor(m)  BY <1>2
    <2>3. y \in nodes[m] /\ Unfinished(y)
        BY <1>6, <2>1, <2>2, WaitsForCases DEF WaitsForIs
    <2> QED  BY <2>1, <2>2, <2>3
<1>7. x \in D => pc[x] \in {"ready", "wait"}
    <2>1. ASSUME x \in D, pc[x] \notin {"ready", "wait"} PROVE FALSE
        <3>1. x \in Tasks /\ WaitsFor(x) \cap (D \cup {t}) # {} /\ pc[x] # "g_wait"
            BY <1>2, <2>1
        <3> QED  BY <2>1, <3>1, WaitsForCases DEF WaitsForIs
    <2> QED  BY <2>1
<1>8. CASE x \in D /\ pc[x] = "wait"  BY <1>3, <1>4, <1>8
<1>9. CASE x \in D /\ pc[x] = "ready"
    <2>1. PICK y \in D \cup {t} : y \in up_streams[x] /\ Unfinished(y)  BY <1>5, <1>9
    <2> QED  BY <1>3, <2>1
<1>10. CASE x \notin D
    <2>1. PICK y \in D \cup {t} : y \in up_streams[x] /\ Unfinished(y)  BY <1>1, <1>6, <1>10
    <2> QED  BY <1>3, <2>1
<1> QED  BY <1>7, <1>8, <1>9, <1>10

\* What a chain of t's is does not change when only t's search moves on.
LEMMA SameChains ==
    ASSUME CircleInv, NEW t \in Tasks, pc[t] \in {"search", "record"},
           pc'[t] \in {"search", "record", "edges"},
           UNCHANGED <<nodes, required>>, \A m \in Tasks : m # t => pc'[m] = pc[m],
           \A m \in Tasks : Unfinished(m)' <=> Unfinished(m), NEW D, Chain(t, D)'
    PROVE  Chain(t, D)
<1>1. Wants(t)' = Wants(t)
    <2>1. nodes[t] \subseteq Tasks  BY DEF CircleInv, TypeOK
    <2> QED  BY <2>1 DEF Wants
<1>2. ASSUME NEW m \in Tasks, pc[m] # "g_wait" PROVE WaitsFor(m)' = WaitsFor(m)
    <2>1. nodes[m] \subseteq Tasks /\ required[m] \subseteq Tasks
        BY DEF CircleInv, TypeOK
    <2>2. CASE pc[m] = "ready"
        BY <2>1, <2>2, WaitsForCases, WaitsForCasesNext DEF WaitsForIs
    <2>3. CASE pc[m] = "wait"
        BY <2>1, <2>3, WaitsForCases, WaitsForCasesNext DEF WaitsForIs
    <2>4. CASE pc[m] \notin {"ready", "wait"}
        BY <1>2, <2>4, WaitsForCases, WaitsForCasesNext DEF WaitsForIs
    <2> QED  BY <2>2, <2>3, <2>4
<1>3. D \subseteq Tasks \ {t} /\ \A m \in D : pc[m] # "g_wait"
    BY DEF Chain, InWaitGraph
<1> QED  BY <1>1, <1>2, <1>3 DEF Chain, InWaitGraph

\* One round.
LEMMA RoundSearched ==
    ASSUME CircleInv, NEW t \in Tasks, do_check_circle(t)
    PROVE  Searched(t)'
<1>1. /\ pc[t] = "search" /\ UNCHANGED <<status, up_streams, nodes, back_node, waiters, required, overlap>>
      /\ pc' = [pc EXCEPT ![t] = CASE a[t] = {} -> "record" [] t \in a[t] -> "thrown"
                                   [] OTHER -> "search"]
      /\ a' = [a EXCEPT ![t] = IF t \in @ THEN {} ELSE Upwards(@)]
    BY DEF do_check_circle, Go
<1>2. pc \in [Tasks -> Places] /\ a \in [Tasks -> SUBSET Nodes]
    BY DEF CircleInv, TypeOK, Places
<1>3. \A m \in Tasks : m # t => pc'[m] = pc[m]  BY <1>1, <1>2
<1>4. \A m \in Tasks : Unfinished(m)' <=> Unfinished(m)  BY <1>1 DEF Unfinished
<1>5. CASE a[t] = {}
    <2>1. pc'[t] = "record"  BY <1>1, <1>2, <1>5
    <2>2. ASSUME NEW D, Chain(t, D)' PROVE Overlaps(D \cup {t})'
        <3>1. Chain(t, D)  BY <1>1, <1>3, <1>4, <2>1, <2>2, SameChains
        <3>2. ~Front(t, D)  BY <1>5 DEF Front
        <3>3. Overlaps(D \cup {t})  BY <1>1, <3>1, <3>2 DEF CircleInv, Searched
        <3> QED  BY <1>1, <3>3 DEF Overlaps
    <2> QED  BY <2>1, <2>2 DEF Searched
<1>6. CASE t \in a[t]
    <2>1. pc'[t] = "thrown"
        <3>1. a[t] # {}  BY <1>6
        <3> QED  BY <1>1, <1>2, <1>6, <3>1
    <2> QED  BY <2>1 DEF Searched
<1>7. CASE a[t] # {} /\ t \notin a[t]
    <2>1. pc'[t] = "search" /\ a'[t] = Upwards(a[t])  BY <1>1, <1>2, <1>7
    <2>2. ASSUME NEW D, Chain(t, D)' PROVE Overlaps(D \cup {t})' \/ Front(t, D)'
        <3>1. Chain(t, D)  BY <1>1, <1>3, <1>4, <2>1, <2>2, SameChains
        <3>2. CASE Overlaps(D \cup {t})  BY <1>1, <3>2 DEF Overlaps
        <3>3. CASE Front(t, D)
            <4>1. PICK x \in Upwards(a[t]) : \/ x \in D \cup {t}
                                             \/ \E m \in D : pc[m] = "wait" /\ x = back_node[m]
                BY <1>1, <1>7, <3>1, <3>3, FrontMoves
            <4>2. D \subseteq Tasks \ {t}  BY <3>1 DEF Chain
            <4> QED  BY <1>1, <1>3, <2>1, <4>1, <4>2 DEF Front
        <3> QED  BY <1>1, <3>1, <3>2, <3>3 DEF CircleInv, Searched
    <2> QED  BY <2>1, <2>2 DEF Searched
<1> QED  BY <1>5, <1>6, <1>7

\* The first look is at what t is going to wait for.
LEMMA CallSearched ==
    ASSUME CircleInv, NEW t \in Tasks, NEW S \in Requests, require_node(t, S)
    PROVE  Searched(t)'
<1>1. /\ pc[t] = "run" /\ UNCHANGED status
      /\ pc' = [pc EXCEPT ![t] = IF t \in S THEN "thrown" ELSE "search"]
      /\ nodes' = [nodes EXCEPT ![t] = S]
      /\ a' = [a EXCEPT ![t] = {n \in S : Unfinished(n) /\ t \notin S}]
    BY DEF require_node, Go
<1>2. pc' [t] = (IF t \in S THEN "thrown" ELSE "search") /\ nodes'[t] = S
      /\ a'[t] = {n \in S : Unfinished(n) /\ t \notin S}
    BY <1>1 DEF CircleInv, TypeOK
<1>3. CASE t \in S  BY <1>2, <1>3 DEF Searched
<1>4. CASE t \notin S
    <2>1. ASSUME NEW D, Chain(t, D)' PROVE Front(t, D)'
        <3>1. PICK n : n \in Wants(t)' /\ n \in D \cup {t}  BY <2>1 DEF Chain
        <3>2. n \in S /\ Unfinished(n)  BY <1>1, <1>2, <3>1 DEF Wants, Unfinished
        <3>3. n \in a'[t]  BY <1>2, <1>4, <3>2
        <3> QED  BY <3>1, <3>3 DEF Front
    <2> QED  BY <1>2, <1>4, <2>1 DEF Searched
<1> QED  BY <1>3, <1>4

\* Recording the back node changes nobody's waits.
LEMMA RecordSearched ==
    ASSUME CircleInv, NEW t \in Tasks, NEW b \in Addresses, Record(t, b)
    PROVE  Searched(t)'
<1>0. CASE pc[t] # "record"
    <2>1. pc[t] = "g_record" /\ pc' = [pc EXCEPT ![t] = "g_edges"]  BY <1>0 DEF Record, Go
    <2>2. pc'[t] = "g_edges"  BY <2>1 DEF CircleInv, TypeOK
    <2> QED  BY <2>2 DEF Searched
<1> SUFFICES ASSUME pc[t] = "record" PROVE Searched(t)'  BY <1>0
<1>1. /\ pc[t] = "record" /\ pc' = [pc EXCEPT ![t] = "edges"]
      /\ status' = [status EXCEPT ![b] = "Initing"] /\ UNCHANGED <<nodes, required, overlap>>
    BY DEF Record, Go
<1>2. pc'[t] = "edges" /\ \A m \in Tasks : m # t => pc'[m] = pc[m]
    BY <1>1 DEF CircleInv, TypeOK
<1>3. \A m \in Tasks : Unfinished(m)' <=> Unfinished(m)
    BY <1>1, CircleAssumption DEF CircleInv, TypeOK, Unfinished
<1>4. ASSUME NEW D, Chain(t, D)' PROVE Overlaps(D \cup {t})'
    <2>1. Chain(t, D)  BY <1>1, <1>2, <1>3, <1>4, SameChains
    <2>2. Overlaps(D \cup {t})  BY <1>1, <2>1 DEF CircleInv, Searched
    <2> QED  BY <1>1, <2>2 DEF Overlaps
<1> QED  BY <1>2, <1>4 DEF Searched

-----------------------------------------------------------------------------
(* The steps *)

LEMMA StatusIs ==
    /\ StatusAt["new"] = "none" /\ StatusAt["ready"] = "Initing"
    /\ \A l \in {"wait", "g_wait"} : StatusAt[l] = "Yield"
    /\ \A l \in {"notify", "ended"} : StatusAt[l] = "Finish"
    /\ \A l \in {"run", "search", "record", "edges", "g_record", "g_edges", "thrown"} :
          StatusAt[l] = "Running"
BY DEF StatusAt, Places

\* The invariant without the searches and the circles.
Books == /\ TypeOK /\ OneHolder /\ Noted
         /\ \A t \in Tasks : Recorded(t)

Kind(u) == \/ Frees(u)
           \/ Closing(u) /\ nodes'[u] = nodes[u] /\ pc'[u] = "wait"
           \/ Making(u) /\ required'[u] \subseteq Made /\ pc'[u] = "ready"

\* A step that keeps the books and is of a known kind keeps the invariant, if
\* the search of its own task does.
LEMMA TameStep ==
    ASSUME CircleInv, NEW u \in Tasks, Books', Effects(u), Kind(u), Searched(u)'
    PROVE  CircleInv'
<1>1. MissedOnlyByOverlap'  BY KnotStep DEF Kind
<1>2. ASSUME NEW t \in Tasks, t # u PROVE Searched(t)'
    BY <1>2, OtherSearched DEF Kind
<1> QED  BY <1>1, <1>2 DEF CircleInv, Books

\* What is recorded of another task stays.
LEMMA OtherRecorded ==
    ASSUME CircleInv, NEW u \in Tasks, Effects(u), NEW t \in Tasks, t # u,
           pc'[u] # "new" \/ pc[u] = "new",
           up_streams'[t] = up_streams[t],
           Holds(t) => /\ status'[back_node[t]] = status[back_node[t]]
                       /\ up_streams'[back_node[t]] = up_streams[back_node[t]]
    PROVE  Recorded(t)'
<1>1. Made \subseteq Made'  BY DEF Made, Effects
<1> QED  BY <1>1 DEF CircleInv, Recorded, Effects, Holds

\* Only a task that gets a back node can disturb OneHolder, and only one that
\* calls require_node can disturb Noted.
LEMMA HoldersStay ==
    ASSUME CircleInv, NEW u \in Tasks, Effects(u),
           Holds(u)' => Holds(u) /\ back_node'[u] = back_node[u]
    PROVE  OneHolder'
BY DEF CircleInv, OneHolder, Effects, Holds

LEMMA CallersStay ==
    ASSUME CircleInv, NEW u \in Tasks, Effects(u),
           pc'[u] \in {"search", "record", "edges"} => pc[u] \in {"search", "record", "edges"}
    PROVE  Noted'
BY DEF CircleInv, Noted, Effects, Calling

LEMMA CreateStep ==
    ASSUME CircleInv, NEW u \in Tasks, NEW R \in Requests, create_edges(u, R)
    PROVE  CircleInv'
<1>1. /\ pc[u] = "new" /\ pc' = [pc EXCEPT ![u] = "ready"]
      /\ status' = [status EXCEPT ![u] = "Initing"]
      /\ up_streams' = [up_streams EXCEPT ![u] = R]
      /\ required' = [required EXCEPT ![u] = R]
      /\ UNCHANGED <<nodes, a, back_node, waiters, overlap>>
    BY DEF create_edges, Go
<1>2. R \subseteq Made /\ Made \subseteq Tasks  BY DEF Requests, Made
<1>3. TypeOK'
    <2>1. waiters' \subseteq {t \in Tasks : pc'[t] = "g_wait"}
        BY <1>1 DEF CircleInv, TypeOK
    <2>2. pc' \in [Tasks -> Places]  BY <1>1 DEF CircleInv, TypeOK, Places
    <2> QED  BY <1>1, <1>2, <2>1, <2>2 DEF CircleInv, TypeOK, Nodes, Places
<1>4. Effects(u) /\ pc'[u] = "ready" /\ required'[u] = R /\ status'[u] = "Initing"
      /\ up_streams'[u] = R
    BY <1>1 DEF CircleInv, TypeOK, Effects, Nodes
<1>5. OneHolder' /\ Noted'
    BY <1>4, HoldersStay, CallersStay DEF Holds
<1>6. Recorded(u)'
    <2>1. Made \subseteq Made'  BY <1>4 DEF Made, Effects
    <2> QED  BY <1>1, <1>2, <1>4, <2>1, StatusIs DEF Recorded, Holds
<1>7. ASSUME NEW t \in Tasks, t # u PROVE Recorded(t)'
    <2>1. Holds(t) => back_node[t] \in Addresses /\ back_node[t] # u
        BY CircleAssumption DEF CircleInv, Recorded
    <2>2. /\ up_streams'[t] = up_streams[t]
          /\ Holds(t) => /\ status'[back_node[t]] = status[back_node[t]]
                         /\ up_streams'[back_node[t]] = up_streams[back_node[t]]
        BY <1>1, <1>7, <2>1 DEF CircleInv, TypeOK, Nodes
    <2> QED  BY <1>1, <1>4, <1>7, <2>2, OtherRecorded
<1>8. Kind(u) /\ Searched(u)'  BY <1>1, <1>2, <1>4 DEF Kind, Making, Searched
<1> QED  BY <1>3, <1>4, <1>5, <1>6, <1>7, <1>8, TameStep DEF Books

\* The same for all of them, if only what belongs to u itself is written.
LEMMA OnlyOwnRecord ==
    ASSUME CircleInv, NEW u \in Tasks, Effects(u), pc'[u] # "new",
           \A n \in Nodes : n # u => status'[n] = status[n] /\ up_streams'[n] = up_streams[n]
    PROVE  \A t \in Tasks : t # u => Recorded(t)'
<1> SUFFICES ASSUME NEW t \in Tasks, t # u PROVE Recorded(t)'  OBVIOUS
<1>1. Holds(t) => back_node[t] \in Addresses /\ back_node[t] # u
    BY CircleAssumption DEF CircleInv, Recorded
<1> QED  BY <1>1, OtherRecorded DEF Nodes

\* The steps that close no circle and record no back node.
LEMMA RunStep ==
    ASSUME CircleInv, NEW u \in Tasks,
           \/ Start(u) \/ Finish(u) \/ Notify(u) \/ CreateGraphEdge(u)
           \/ \E g \in Graphs : wait_graph(u, g)
           \/ \E S \in Requests : RequireFinished(u, S)
    PROVE  CircleInv'
<1>1. /\ pc[u] \in {"ready", "run", "notify", "g_edges"}
      /\ pc'[u] \in {"run", "notify", "ended", "thrown", "g_record", "g_wait"}
      /\ pc[u] = "notify" => pc'[u] = "ended"
      /\ pc'[u] = "g_wait" => pc[u] = "g_edges"
      /\ pc' = [pc EXCEPT ![u] = pc'[u]]
      /\ status' = [status EXCEPT ![u] = StatusAt[pc'[u]]]
      /\ \E S \in Requests : \/ up_streams' = [up_streams EXCEPT ![u] = @ \cup S]
                             \/ up_streams' = up_streams
      /\ \E g \in SUBSET Tasks : nodes' = [nodes EXCEPT ![u] = g]
      /\ waiters' \subseteq waiters \cup {t \in {u} : pc'[t] = "g_wait"}
      /\ UNCHANGED <<a, back_node, required, overlap>>
    <2>1. TypeOK /\ status[u] = StatusAt[pc[u]] /\ status = [status EXCEPT ![u] = status[u]]
        BY DEF CircleInv, Recorded, TypeOK
    <2>2. {} \in Requests
        BY CircleAssumption, FS_EmptySet DEF Requests
    <2>3. nodes = [nodes EXCEPT ![u] = nodes[u]] /\ nodes[u] \in SUBSET Tasks
        BY <2>1 DEF TypeOK
    <2>4. CASE Start(u)  BY <2>1, <2>2, <2>3, <2>4, StatusIs DEF Start, Go, TypeOK
    <2>5. CASE Finish(u)  BY <2>1, <2>2, <2>3, <2>5, StatusIs DEF Finish, Go, TypeOK
    <2>6. CASE Notify(u)
        <3>1. /\ pc[u] = "notify" /\ pc' = [pc EXCEPT ![u] = "ended"]
              /\ UNCHANGED <<status, up_streams, nodes, a, back_node, required, overlap>>
              /\ waiters' \subseteq waiters
            BY <2>6 DEF Notify, Go
        <3>2. pc'[u] = "ended"  BY <2>1, <3>1 DEF TypeOK
        <3>3. status[u] = StatusAt[pc'[u]]  BY <2>1, <3>1, <3>2, StatusIs
        <3> QED  BY <2>1, <2>2, <2>3, <3>1, <3>2, <3>3
    <2>7. CASE CreateGraphEdge(u)
        <3>1. /\ pc[u] = "g_edges" /\ pc' = [pc EXCEPT ![u] = "g_wait"]
              /\ status' = [status EXCEPT ![u] = "Yield"]
              /\ UNCHANGED <<up_streams, nodes, a, back_node, required, overlap>>
              /\ waiters' \subseteq waiters \cup {u}
            BY <2>7 DEF CreateGraphEdge, Go
        <3>2. pc'[u] = "g_wait"  BY <2>1, <3>1 DEF TypeOK
        <3> QED  BY <2>1, <2>2, <2>3, <3>1, <3>2, StatusIs
    <2>8. CASE \E g \in Graphs : wait_graph(u, g)
        <3>1. PICK g \in Graphs : wait_graph(u, g)  BY <2>8
        <3>2. /\ pc[u] = "run" /\ pc' = [pc EXCEPT ![u] = IF u \in g THEN "thrown" ELSE "g_record"]
              /\ nodes' = [nodes EXCEPT ![u] = g]
              /\ UNCHANGED <<status, up_streams, a, back_node, waiters, required, overlap>>
            BY <3>1 DEF wait_graph, Go
        <3>3. g \in SUBSET Tasks  BY GraphAssumption
        <3>4. pc'[u] \in {"thrown", "g_record"} /\ pc' = [pc EXCEPT ![u] = pc'[u]]
            BY <2>1, <3>2 DEF TypeOK
        <3>5. status[u] = StatusAt[pc'[u]]  BY <2>1, <3>2, <3>4, StatusIs
        <3> QED  BY <2>1, <2>2, <3>2, <3>3, <3>4, <3>5
    <2>9. CASE \E S \in Requests : RequireFinished(u, S)
        <3>1. PICK S \in Requests : RequireFinished(u, S)  BY <2>9
        <3>2. pc[u] = "run" /\ pc' = [pc EXCEPT ![u] = "run"] /\ UNCHANGED status
              /\ UNCHANGED <<nodes, a, back_node, waiters, required, overlap>>
              /\ up_streams' = [up_streams EXCEPT ![u] = @ \cup S]
            BY <3>1 DEF RequireFinished, Go
        <3>3. pc'[u] = "run"  BY <2>1, <3>2 DEF TypeOK
        <3>4. status[u] = StatusAt[pc'[u]]  BY <2>1, <3>2, <3>3
        <3> QED  BY <2>1, <2>3, <3>2, <3>3, <3>4
    <2> QED  BY <2>4, <2>5, <2>6, <2>7, <2>8, <2>9
<1>2. PICK S \in Requests : \/ up_streams' = [up_streams EXCEPT ![u] = @ \cup S]
                            \/ up_streams' = up_streams
    BY <1>1
<1>3. S \subseteq Tasks  BY DEF Requests, Made
<1>4. StatusAt[pc'[u]] \in {"Running", "Finish", "Yield"}  BY <1>1, StatusIs
<1>5. TypeOK'
    <2>1. status' \in [Nodes -> {"none", "Initing", "Running", "Yield", "Finish", "Destroy"}]
        BY <1>1, <1>4 DEF CircleInv, TypeOK
    <2>2. up_streams' \in [Nodes -> SUBSET Nodes]
        BY <1>2, <1>3 DEF CircleInv, TypeOK, Nodes
    <2>3. pc' \in [Tasks -> Places]
        BY <1>1 DEF CircleInv, TypeOK, Places
    <2>4. \A t \in Tasks : a'[t] # {} => pc'[t] = "search"
        BY <1>1 DEF CircleInv, TypeOK
    <2>5. waiters' \subseteq {t \in Tasks : pc'[t] = "g_wait"}
        BY <1>1 DEF CircleInv, TypeOK
    <2>6. nodes' \in [Tasks -> SUBSET Tasks]
        BY <1>1 DEF CircleInv, TypeOK
    <2> QED  BY <1>1, <2>1, <2>2, <2>3, <2>4, <2>5, <2>6 DEF CircleInv, TypeOK, Places
<1>6. Effects(u) /\ status'[u] = StatusAt[pc'[u]]
    <2>1. u \in Nodes /\ Tasks \subseteq Nodes  BY DEF Nodes
    <2> QED  BY <1>1, <2>1 DEF CircleInv, TypeOK, Effects
<1>7. OneHolder' /\ Noted'
    BY <1>1, <1>6, HoldersStay, CallersStay DEF Holds
<1>8. \A n \in Nodes : n # u => status'[n] = status[n] /\ up_streams'[n] = up_streams[n]
    BY <1>1, <1>2 DEF CircleInv, TypeOK
<1>9. \A t \in Tasks : t # u => Recorded(t)'  BY <1>1, <1>6, <1>8, OnlyOwnRecord
<1>10. Recorded(u)'
    <2>1. Made' = Made  BY <1>1, <1>6 DEF Made, Effects
    <2>2. Holds(u)' => Holds(u)  BY <1>1 DEF Holds
    <2>3. Recorded(u) /\ up_streams[u] \subseteq up_streams'[u]
        BY <1>2 DEF CircleInv, TypeOK, Nodes
    <2>4. ASSUME Holds(u)
          PROVE  /\ back_node[u] \in Addresses /\ status'[back_node[u]] = "Initing"
                 /\ back_node[u] \in up_streams'[u]
        <3>1. back_node[u] \in Addresses /\ status[back_node[u]] = "Initing"
              /\ back_node[u] \in up_streams[u]
            BY <2>3, <2>4 DEF Recorded
        <3>2. back_node[u] \in Nodes /\ back_node[u] # u  BY <3>1, CircleAssumption DEF Nodes
        <3> QED  BY <1>8, <2>3, <3>1, <3>2
    <2> QED  BY <1>1, <1>6, <2>1, <2>2, <2>3, <2>4 DEF Recorded
<1>11. Kind(u) /\ Searched(u)'
    <2>1. Unfinished(u)' => Unfinished(u)
        <3>1. status[u] = StatusAt[pc[u]]  BY DEF CircleInv, Recorded
        <3>2. CASE pc[u] = "notify"  BY <1>1, <1>6, <3>2, StatusIs DEF Unfinished
        <3>3. CASE pc[u] # "notify"  BY <1>1, <3>1, <3>3, StatusIs DEF Unfinished
        <3> QED  BY <3>2, <3>3
    <2> QED  BY <1>1, <2>1 DEF Kind, Frees, Searched
<1> QED  BY <1>5, <1>6, <1>7, <1>9, <1>10, <1>11, TameStep DEF Books

\* The search of u itself.
LEMMA RoundStep ==
    ASSUME CircleInv, NEW u \in Tasks, do_check_circle(u)
    PROVE  CircleInv'
<1>1. /\ pc[u] = "search" /\ UNCHANGED <<status, up_streams, nodes, back_node, waiters, required, overlap>>
      /\ pc' = [pc EXCEPT ![u] = CASE a[u] = {} -> "record" [] u \in a[u] -> "thrown"
                                   [] OTHER -> "search"]
      /\ a' = [a EXCEPT ![u] = IF u \in @ THEN {} ELSE Upwards(@)]
    BY DEF do_check_circle, Go
<1>2. TypeOK  BY DEF CircleInv
<1>3. \/ a[u] = {} /\ pc'[u] = "record"
      \/ a[u] # {} /\ u \in a[u] /\ pc'[u] = "thrown"
      \/ a[u] # {} /\ u \notin a[u] /\ pc'[u] = "search"
    <2>1. CASE a[u] = {}  BY <1>1, <1>2, <2>1 DEF TypeOK
    <2>2. CASE a[u] # {} /\ u \in a[u]  BY <1>1, <1>2, <2>2 DEF TypeOK
    <2>3. CASE a[u] # {} /\ u \notin a[u]  BY <1>1, <1>2, <2>3 DEF TypeOK
    <2> QED  BY <2>1, <2>2, <2>3
<1>4. Upwards(a[u]) \subseteq Nodes /\ (a[u] = {} => Upwards(a[u]) = {})
    BY <1>2 DEF TypeOK, Upwards
<1>5. a'[u] = IF u \in a[u] THEN {} ELSE Upwards(a[u])  BY <1>1, <1>2 DEF TypeOK
<1>6. /\ pc' = [pc EXCEPT ![u] = pc'[u]] /\ pc'[u] \in {"record", "thrown", "search"}
      /\ a' = [a EXCEPT ![u] = a'[u]] /\ a'[u] \subseteq Nodes
      /\ a'[u] # {} => pc'[u] = "search"
    <2>1. pc' = [pc EXCEPT ![u] = pc'[u]] /\ a' = [a EXCEPT ![u] = a'[u]]
        BY <1>1, <1>2 DEF TypeOK
    <2> QED  BY <1>3, <1>4, <1>5, <2>1
<1>7. TypeOK'
    <2>1. pc' \in [Tasks -> Places]
        BY <1>2, <1>6 DEF TypeOK, Places
    <2>2. a' \in [Tasks -> SUBSET Nodes]  BY <1>2, <1>6 DEF TypeOK
    <2>3. \A t \in Tasks : a'[t] # {} => pc'[t] = "search"  BY <1>2, <1>6 DEF TypeOK
    <2>9. waiters' \subseteq {t \in Tasks : pc'[t] = "g_wait"}
        BY <1>1, <1>2, <1>6 DEF TypeOK
    <2> QED  BY <1>1, <1>2, <2>1, <2>2, <2>3, <2>9 DEF TypeOK, Places
<1>8. Effects(u)  BY <1>1, <1>2, <1>6 DEF TypeOK, Effects
<1>9. OneHolder' /\ Noted'  BY <1>1, <1>6, <1>8, HoldersStay, CallersStay DEF Holds
<1>10. \A t \in Tasks : t # u => Recorded(t)'  BY <1>1, <1>6, <1>8, OnlyOwnRecord
<1>11. Recorded(u)'
    <2>1. Made' = Made  BY <1>1, <1>6, <1>8 DEF Made, Effects
    <2> QED  BY <1>1, <1>6, <2>1, StatusIs DEF CircleInv, Recorded, Holds
<1>12. Kind(u)  BY <1>1, <1>6 DEF Kind, Frees, Unfinished
<1> QED  BY <1>7, <1>8, <1>9, <1>10, <1>11, <1>12, RoundSearched, TameStep DEF Books

\* A call that will wait: from here on u is noted together with every task
\* that is in require_node.
LEMMA CallStep ==
    ASSUME CircleInv, NEW u \in Tasks, NEW S \in Requests, require_node(u, S)
    PROVE  CircleInv'
<1>1. /\ pc[u] = "run" /\ UNCHANGED <<status, up_streams, back_node, waiters, required>>
      /\ pc' = [pc EXCEPT ![u] = IF u \in S THEN "thrown" ELSE "search"]
      /\ nodes' = [nodes EXCEPT ![u] = S]
      /\ a' = [a EXCEPT ![u] = {n \in S : Unfinished(n) /\ u \notin S}]
      /\ overlap' = overlap \cup (Calling \X {u}) \cup ({u} \X Calling)
    BY DEF require_node, Go
<1>2. TypeOK /\ S \subseteq Made /\ Made \subseteq Tasks
    BY DEF CircleInv, Requests, Made
<1>3. /\ pc'[u] = (IF u \in S THEN "thrown" ELSE "search") /\ nodes'[u] = S
      /\ a'[u] = {n \in S : Unfinished(n) /\ u \notin S}
    BY <1>1, <1>2 DEF TypeOK
<1>4. pc'[u] \in {"thrown", "search"} /\ (a'[u] # {} => pc'[u] = "search")
      /\ a'[u] \subseteq Nodes
    BY <1>2, <1>3 DEF Nodes
<1>5. TypeOK'
    <2>1. pc' \in [Tasks -> Places]
        BY <1>1, <1>2 DEF TypeOK, Places
    <2>2. nodes' \in [Tasks -> SUBSET Tasks]  BY <1>1, <1>2 DEF TypeOK
    <2>3. a' \in [Tasks -> SUBSET Nodes]  BY <1>1, <1>2 DEF TypeOK, Nodes
    <2>4. \A t \in Tasks : a'[t] # {} => pc'[t] = "search"
        BY <1>1, <1>2, <1>4 DEF TypeOK
    <2>5. overlap' \subseteq Tasks \X Tasks  BY <1>1, <1>2 DEF TypeOK, Calling
    <2>9. waiters' \subseteq {t \in Tasks : pc'[t] = "g_wait"}
        BY <1>1, <1>2 DEF TypeOK
    <2> QED  BY <1>1, <1>2, <2>1, <2>2, <2>3, <2>4, <2>5, <2>9 DEF TypeOK, Places
<1>6. Effects(u)  BY <1>1, <1>2 DEF TypeOK, Effects
<1>7. OneHolder'  BY <1>4, <1>6, HoldersStay DEF Holds
<1>8. Noted'
    <2> SUFFICES ASSUME NEW s \in Calling', NEW t \in Calling', s # t PROVE <<s, t>> \in overlap'
        BY DEF Noted
    <2>1. s \in Tasks /\ t \in Tasks /\ (s # u => s \in Calling) /\ (t # u => t \in Calling)
        BY <1>6 DEF Calling, Effects
    <2>2. CASE s # u /\ t # u
        <3>1. <<s, t>> \in overlap  BY <2>1, <2>2 DEF CircleInv, Noted
        <3> QED  BY <1>1, <3>1
    <2>3. CASE s = u  BY <1>1, <2>1, <2>3
    <2>4. CASE t = u  BY <1>1, <2>1, <2>4
    <2> QED  BY <2>2, <2>3, <2>4
<1>9. \A t \in Tasks : t # u => Recorded(t)'  BY <1>1, <1>4, <1>6, OnlyOwnRecord
<1>10. Recorded(u)'
    <2>1. Made \subseteq Made'  BY <1>1, <1>4, <1>6 DEF Made, Effects
    <2> QED  BY <1>1, <1>2, <1>3, <1>4, <2>1, StatusIs DEF CircleInv, Recorded, Holds
<1>11. Kind(u)  BY <1>1, <1>4 DEF Kind, Frees, Unfinished
<1> QED  BY <1>5, <1>6, <1>7, <1>8, <1>9, <1>10, <1>11, CallSearched, TameStep DEF Books

\* A new back node is nobody's: the back nodes in use are Initing, the address
\* that is taken is not.
LEMMA RecordStep ==
    ASSUME CircleInv, NEW u \in Tasks, NEW b \in Addresses, Record(u, b)
    PROVE  CircleInv'
<1>1. /\ \/ pc[u] = "record" /\ pc' = [pc EXCEPT ![u] = "edges"]
         \/ pc[u] = "g_record" /\ pc' = [pc EXCEPT ![u] = "g_edges"]
      /\ status[b] # "Initing"
      /\ status' = [status EXCEPT ![b] = "Initing"]
      /\ up_streams' = [up_streams EXCEPT ![u] = @ \cup {b}, ![b] = {}]
      /\ back_node' = [back_node EXCEPT ![u] = b]
      /\ UNCHANGED <<nodes, a, waiters, required, overlap>>
    BY DEF Record, Go, Free
<1>2. TypeOK /\ b # u /\ b \in Nodes /\ u \in Nodes /\ \A t \in Tasks : t # b
    BY CircleAssumption DEF CircleInv, Nodes
<1>3. /\ \/ pc[u] = "record" /\ pc'[u] = "edges"
         \/ pc[u] = "g_record" /\ pc'[u] = "g_edges"
      /\ back_node'[u] = b /\ status'[b] = "Initing"
      /\ up_streams'[u] = up_streams[u] \cup {b}
    BY <1>1, <1>2 DEF TypeOK
<1>4. \A n \in Nodes : /\ n # b => status'[n] = status[n]
                       /\ n # b /\ n # u => up_streams'[n] = up_streams[n]
    BY <1>1, <1>2 DEF TypeOK
<1>5. TypeOK'
    <2>1. up_streams' \in [Nodes -> SUBSET Nodes]  BY <1>1, <1>2 DEF TypeOK
    <2>2. \A t \in Tasks : a'[t] # {} => pc'[t] = "search"  BY <1>1, <1>2 DEF TypeOK
    <2>3. pc' \in [Tasks -> Places]
        BY <1>1, <1>2 DEF TypeOK, Places
    <2>4. status' \in [Nodes -> {"none", "Initing", "Running", "Yield", "Finish", "Destroy"}]
        BY <1>1, <1>2 DEF TypeOK
    <2>5. back_node' \in [Tasks -> Addresses \cup {nullptr}]  BY <1>1, <1>2 DEF TypeOK
    <2>9. waiters' \subseteq {t \in Tasks : pc'[t] = "g_wait"}
        BY <1>1, <1>2 DEF TypeOK
    <2> QED  BY <1>1, <1>2, <2>1, <2>2, <2>3, <2>4, <2>5, <2>9 DEF TypeOK, Places
<1>6. Effects(u)
    <2>1. \A m \in Tasks : status'[m] = status[m]  BY <1>2, <1>4 DEF Nodes
    <2> QED  BY <1>1, <1>2, <2>1 DEF TypeOK, Effects
<1>7. ASSUME NEW t \in Tasks, t # u, Holds(t)
      PROVE  back_node[t] \in Nodes /\ back_node[t] # b /\ back_node[t] # u
    BY <1>1, <1>7, CircleAssumption DEF CircleInv, Recorded, Nodes
<1>8. OneHolder'
    <2>1. \A t \in Tasks : t # u => /\ Holds(t)' <=> Holds(t)
                                    /\ back_node'[t] = back_node[t]
        BY <1>6 DEF Effects, Holds
    <2> QED  BY <1>3, <1>7, <2>1 DEF CircleInv, OneHolder
<1>9. Noted'  BY <1>3, <1>6, CallersStay
<1>10. ASSUME NEW t \in Tasks, t # u PROVE Recorded(t)'
    <2>1. up_streams'[t] = up_streams[t]  BY <1>2, <1>4, <1>10 DEF Nodes
    <2>2. Holds(t) => /\ status'[back_node[t]] = status[back_node[t]]
                      /\ up_streams'[back_node[t]] = up_streams[back_node[t]]
        BY <1>4, <1>7, <1>10
    <2> QED  BY <1>3, <1>6, <1>10, <2>1, <2>2, OtherRecorded
<1>11. Recorded(u)'
    <2>1. Made' = Made  BY <1>1, <1>3, <1>6 DEF Made, Effects
    <2>2. status'[u] = status[u]  BY <1>2, <1>4
    <2>3. Recorded(u)  BY DEF CircleInv
    <2>4. /\ required[u] \subseteq Made /\ status[u] = "Running"
          /\ pc[u] = "record" => nodes[u] \subseteq Made
        BY <1>1, <2>3, StatusIs DEF Recorded
    <2> QED  BY <1>1, <1>3, <2>1, <2>2, <2>4, StatusIs DEF Recorded
<1>12. Kind(u)
    <2>1. status'[u] = status[u]  BY <1>2, <1>4
    <2> QED  BY <1>3, <2>1 DEF Kind, Frees, Unfinished
<1> QED  BY <1>5, <1>6, <1>8, <1>9, <1>10, <1>11, <1>12, RecordSearched, TameStep DEF Books

\* The step that closes circles.
LEMMA EdgesStep ==
    ASSUME CircleInv, NEW u \in Tasks, CreateEdges(u)
    PROVE  CircleInv'
<1>1. /\ pc[u] = "edges" /\ pc' = [pc EXCEPT ![u] = "wait"]
      /\ up_streams' = [up_streams EXCEPT ![back_node[u]] = nodes[u]]
      /\ status' = [status EXCEPT ![u] = "Yield"]
      /\ UNCHANGED <<nodes, a, back_node, waiters, required, overlap>>
    BY DEF CreateEdges, Go
<1>2. /\ TypeOK /\ Recorded(u) /\ u \in Nodes /\ Tasks \subseteq Nodes
      /\ back_node[u] \in Addresses /\ back_node[u] \in Nodes
      /\ status[u] = "Running" /\ status[back_node[u]] = "Initing"
      /\ back_node[u] \in up_streams[u] /\ back_node[u] \notin Tasks
    BY <1>1, StatusIs, CircleAssumption DEF CircleInv, Recorded, Holds, Nodes
<1>3. /\ pc'[u] = "wait" /\ status'[u] = "Yield" /\ up_streams'[back_node[u]] = nodes[u]
      /\ \A n \in Nodes : /\ n # u => status'[n] = status[n]
                          /\ n # back_node[u] => up_streams'[n] = up_streams[n]
    BY <1>1, <1>2 DEF TypeOK
<1>4. TypeOK'
    <2>1. up_streams' \in [Nodes -> SUBSET Nodes]  BY <1>1, <1>2 DEF TypeOK
    <2>2. \A t \in Tasks : a'[t] # {} => pc'[t] = "search"  BY <1>1, <1>2 DEF TypeOK
    <2>3. pc' \in [Tasks -> Places]
        BY <1>1, <1>2 DEF TypeOK, Places
    <2>4. status' \in [Nodes -> {"none", "Initing", "Running", "Yield", "Finish", "Destroy"}]
        BY <1>1, <1>2 DEF TypeOK
    <2>9. waiters' \subseteq {t \in Tasks : pc'[t] = "g_wait"}
        BY <1>1, <1>2 DEF TypeOK
    <2> QED  BY <1>1, <1>2, <2>1, <2>2, <2>3, <2>4, <2>9 DEF TypeOK, Places
<1>5. Effects(u)  BY <1>1, <1>2 DEF TypeOK, Effects
<1>6. OneHolder' /\ Noted'
    BY <1>1, <1>3, <1>5, HoldersStay, CallersStay DEF Holds
<1>7. ASSUME NEW t \in Tasks, t # u PROVE Recorded(t)'
    <2>1. up_streams'[t] = up_streams[t]  BY <1>2, <1>3
    <2>2. Holds(t) => /\ back_node[t] \in Nodes /\ back_node[t] # u
                      /\ back_node[t] # back_node[u]
        BY <1>1, <1>7, CircleAssumption DEF CircleInv, Recorded, OneHolder, Holds, Nodes
    <2> QED  BY <1>3, <1>5, <1>7, <2>1, <2>2, OtherRecorded
<1>8. Recorded(u)'
    <2>1. Made' = Made  BY <1>1, <1>3, <1>5 DEF Made, Effects
    <2>2. status'[back_node[u]] = "Initing" /\ up_streams'[u] = up_streams[u]
        BY <1>2, <1>3
    <2> QED  BY <1>1, <1>2, <1>3, <2>1, <2>2, StatusIs DEF Recorded, Holds
<1>9. Kind(u) /\ Searched(u)'
    BY <1>1, <1>2, <1>3 DEF Kind, Closing, Unfinished, Searched
<1> QED  BY <1>4, <1>5, <1>6, <1>7, <1>8, <1>9, TameStep DEF Books

\* The freed back node is reached by no other task's wait.
LEMMA ResumeStep ==
    ASSUME CircleInv, NEW u \in Tasks, Resumed(u)
    PROVE  CircleInv'
<1>1. /\ \/ pc[u] = "wait"
         \/ pc[u] = "g_wait" /\ u \notin waiters
      /\ pc' = [pc EXCEPT ![u] = "run"]
      /\ status' = [status EXCEPT ![u] = "Running", ![back_node[u]] = "Destroy"]
      /\ up_streams' = [up_streams EXCEPT ![back_node[u]] = {}]
      /\ back_node' = [back_node EXCEPT ![u] = nullptr]
      /\ nodes' = [nodes EXCEPT ![u] = {}]
      /\ UNCHANGED <<a, waiters, required, overlap>>
    BY DEF Resumed, Go
<1>2. /\ TypeOK /\ Recorded(u) /\ u \in Nodes /\ Tasks \subseteq Nodes
      /\ back_node[u] \in Addresses /\ back_node[u] \in Nodes
      /\ status[u] = "Yield" /\ back_node[u] \notin Tasks
    <2>1. TypeOK /\ Recorded(u) /\ Holds(u) /\ u \in Nodes /\ Tasks \subseteq Nodes
        BY <1>1 DEF CircleInv, Holds, Nodes
    <2>2. status[u] = "Yield"  BY <1>1, <2>1, StatusIs DEF Recorded
    <2> QED  BY <2>1, <2>2, CircleAssumption DEF Recorded, Nodes
<1>3. /\ pc'[u] = "run" /\ status'[u] = "Running" /\ nodes'[u] = {}
      /\ \A n \in Nodes : /\ n # u /\ n # back_node[u] => status'[n] = status[n]
                          /\ n # back_node[u] => up_streams'[n] = up_streams[n]
    BY <1>1, <1>2 DEF TypeOK
<1>4. TypeOK'
    <2>1. up_streams' \in [Nodes -> SUBSET Nodes]  BY <1>1, <1>2 DEF TypeOK
    <2>2. \A t \in Tasks : a'[t] # {} => pc'[t] = "search"  BY <1>1, <1>2 DEF TypeOK
    <2>3. pc' \in [Tasks -> Places]
        BY <1>1, <1>2 DEF TypeOK, Places
    <2>4. status' \in [Nodes -> {"none", "Initing", "Running", "Yield", "Finish", "Destroy"}]
        BY <1>1, <1>2 DEF TypeOK
    <2>5. back_node' \in [Tasks -> Addresses \cup {nullptr}]  BY <1>1, <1>2 DEF TypeOK
    <2>6. nodes' \in [Tasks -> SUBSET Tasks]  BY <1>1, <1>2 DEF TypeOK
    <2>9. waiters' \subseteq {t \in Tasks : pc'[t] = "g_wait"}
        BY <1>1, <1>2 DEF TypeOK
    <2> QED  BY <1>1, <1>2, <2>1, <2>2, <2>3, <2>4, <2>5, <2>6, <2>9 DEF TypeOK, Places
<1>5. Effects(u)
    <2>1. \A m \in Tasks : m # u => status'[m] = status[m]  BY <1>2, <1>3
    <2> QED  BY <1>1, <1>2, <2>1 DEF TypeOK, Effects
<1>6. OneHolder' /\ Noted'
    BY <1>3, <1>5, HoldersStay, CallersStay DEF Holds
<1>7. ASSUME NEW t \in Tasks, t # u PROVE Recorded(t)'
    <2>1. up_streams'[t] = up_streams[t]  BY <1>2, <1>3
    <2>2. Holds(t) => /\ back_node[t] \in Nodes /\ back_node[t] # u
                      /\ back_node[t] # back_node[u]
        BY <1>1, <1>7, CircleAssumption DEF CircleInv, Recorded, OneHolder, Holds, Nodes
    <2> QED  BY <1>3, <1>5, <1>7, <2>1, <2>2, OtherRecorded
<1>8. Recorded(u)'
    <2>1. Made' = Made  BY <1>1, <1>3, <1>5 DEF Made, Effects
    <2> QED  BY <1>1, <1>2, <1>3, <2>1, StatusIs DEF Recorded, Holds
<1>9. Kind(u) /\ Searched(u)'
    BY <1>2, <1>3 DEF Kind, Frees, Unfinished, Searched
<1> QED  BY <1>4, <1>5, <1>6, <1>7, <1>8, <1>9, TameStep DEF Books

-----------------------------------------------------------------------------
(* The specification *)

LEMMA InitCircle == Init => CircleInv
<1> SUFFICES ASSUME Init PROVE CircleInv  OBVIOUS
<1>1. TypeOK /\ \A t \in Tasks : pc[t] = "new"  BY DEF Init, TypeOK
<1>2. OneHolder /\ Noted  BY <1>1 DEF OneHolder, Holds, Noted, Calling
<1>3. ASSUME NEW t \in Tasks PROVE Recorded(t) /\ Searched(t)
    <2>1. status[t] = "none" /\ nodes[t] = {} /\ required[t] = {}  BY DEF Init, Nodes
    <2> QED  BY <1>1, <2>1, StatusIs DEF Recorded, Searched, Holds
<1>4. MissedOnlyByOverlap
    <2> SUFFICES ASSUME NEW C \in SUBSET Tasks, Knot(C) PROVE FALSE
        BY DEF MissedOnlyByOverlap
    <2>1. PICK m \in C : WaitsFor(m) # {}  BY DEF Knot
    <2> QED  BY <1>1, <2>1, WaitsForCases DEF WaitsForIs
<1> QED  BY <1>1, <1>2, <1>3, <1>4 DEF CircleInv

LEMMA CircleStep == CircleInv /\ [Next]_vars => CircleInv'
<1> SUFFICES ASSUME CircleInv, [Next]_vars PROVE CircleInv'  OBVIOUS
<1>1. ASSUME NEW u \in Tasks, NEW R \in Requests, create_edges(u, R) PROVE CircleInv'
    BY <1>1, CreateStep
<1>2. ASSUME NEW u \in Tasks, Step(u) PROVE CircleInv'
    <2>1. CASE \/ Start(u) \/ Finish(u) \/ Notify(u) \/ CreateGraphEdge(u)
               \/ \E g \in Graphs : wait_graph(u, g)
               \/ \E S \in Requests : RequireFinished(u, S)
        BY <2>1, RunStep
    <2>2. CASE do_check_circle(u)  BY <2>2, RoundStep
    <2>3. CASE CreateEdges(u)  BY <2>3, EdgesStep
    <2>4. CASE Resumed(u)  BY <2>4, ResumeStep
    <2>5. CASE \E b \in Addresses : Record(u, b)  BY <2>5, RecordStep
    <2>6. CASE \E S \in Requests : require_node(u, S)  BY <2>6, CallStep
    <2> QED  BY <1>2, <2>1, <2>2, <2>3, <2>4, <2>5, <2>6 DEF Step
<1>3. CASE UNCHANGED vars
    <2>1. UNCHANGED <<status, up_streams, pc, nodes, a, back_node, waiters, required, overlap>>
        BY <1>3 DEF vars
    <2>2. TypeOK' /\ OneHolder' /\ Noted'
        BY <2>1 DEF CircleInv, TypeOK, OneHolder, Noted, Holds, Calling
    <2>3. WaitsForIs /\ WaitsForIs'  BY WaitsForCases, WaitsForCasesNext
    <2>4. \A m \in Tasks : WaitsFor(m)' = WaitsFor(m)  BY <2>1 DEF WaitsFor, Unfinished
    <2>5. MissedOnlyByOverlap'
        BY <2>1, <2>4 DEF CircleInv, MissedOnlyByOverlap, Knot, InWaitGraph
    <2>6. ASSUME NEW t \in Tasks PROVE Recorded(t)' /\ Searched(t)'
        <3>1. Recorded(t)'  BY <2>1 DEF CircleInv, Recorded, Holds, Made
        <3>2. \A D : Chain(t, D)' => Chain(t, D)
            BY <2>1, <2>4 DEF Chain, Wants, Unfinished, InWaitGraph
        <3>3. Searched(t)'
            BY <2>1, <3>2 DEF CircleInv, Searched, Overlaps, Front
        <3> QED  BY <3>1, <3>3
    <2> QED  BY <2>2, <2>5, <2>6 DEF CircleInv
<1> QED  BY <1>1, <1>2, <1>3 DEF Next

\* What is recorded of the waits is true, and every search stands in front of
\* the chains that lead back to its task (aspect.cpp:73-141).
THEOREM CircleInvariant == Spec => []CircleInv
<1> QED  BY InitCircle, CircleStep, PTL DEF Spec

\* The types of the variables, with the set of the search left empty after it
\* (aspect.cpp:83-102).
THEOREM TypeCorrect == Spec => []TypeOK
<1>1. CircleInv => TypeOK  BY DEF CircleInv
<1> QED  BY <1>1, CircleInvariant, PTL

\* A circle of waits comes into being only if two of its tasks were in
\* require_node at the same time, or one of them is in wait_graph
\* (aspect.cpp:73-105, 129-141, 161-202).
THEOREM CirclesFound == Spec => []MissedOnlyByOverlap
<1>1. CircleInv => MissedOnlyByOverlap  BY DEF CircleInv
<1> QED  BY <1>1, CircleInvariant, PTL
=============================================================================
