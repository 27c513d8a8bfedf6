------------------------- MODULE FlowGraphEdgeProofs -------------------------
(***************************************************************************)
(* No node runs before the nodes it was told to run after, whatever path   *)
(* an edge takes and however it interleaves with finish().                 *)
(*                                                                         *)
(* Every count of wait_count[n] stands for one reason to be counted down   *)
(* again: a required node that create_edges has not looked at yet, or an   *)
(* edge that the end of a required node will follow.  wait_count[n] is     *)
(* never below the number of these reasons, and each required node that    *)
(* has not finished is one.  A bit that another client's store has         *)
(* overwritten still counts here: its node is never released, which is a   *)
(* fault of another kind.                                                  *)
(***************************************************************************)
EXTENDS FlowGraphProofs

\* Client c is linking its new node n; it is at r with the step pc.
Creating(c, n) == c_pc[c] \in Linking /\ new_node[c] = n
At(c, n, r, pc) == c_pc[c] = pc /\ new_node[c] = n /\ Head(todo[c]) = r

\* The required nodes c still has to count down for, or to link to.
Left(c) == IF c_pc[c] = "read_bak" THEN Len(todo[c]) - 1 ELSE Len(todo[c])
Ahead(n, r) == \E c \in Clients : Creating(c, n) /\ \E i \in DOMAIN todo[c] : todo[c][i] = r

\* The bit of n is in the bitmap of r, or in a bitmap about to be stored there.
HasBit(r, n) ==
    \/ node_id[n] \in fast_down_strams[r]
    \/ \E c \in Clients :
          c_pc[c] = "bit_store" /\ Head(todo[c]) = r /\ node_id[n] \in reg[c]

\* The end of r, or the rest of add_downstream, is still to count n down.
Working(r, pcs) == \E w \in Workers : w_pc[w] \in pcs /\ task[w] = r
FastOpen(r, n) ==
    /\ IsFast(r, n)
    /\ \/ /\ fast_down_strams_bak[r] = fast_down_strams_bak_init
          /\ \/ HasBit(r, n)
             \/ \E c \in Clients : At(c, n, r, "read_bak")
             \/ status[r] \notin Ended /\ r \in required[n] /\ ~Ahead(n, r)
       \/ /\ fast_down_strams_bak[r] # fast_down_strams_bak_init
          /\ node_id[n] \in fast_down_strams_bak[r]
          /\ Working(r, {"fast"})
       \/ /\ fast_down_strams_bak[r] # fast_down_strams_bak_init
          /\ node_id[n] \notin fast_down_strams_bak[r]
          /\ \E c \in Clients : \/ At(c, n, r, "read_bak")
                                \/ At(c, n, r, "bit_load") /\ HasBit(r, n)
SlowOpen(r) == status[r] \notin Ended \/ Working(r, {"take_bak", "fast", "down"})

\* The reasons, each a pair: place k of the list of required nodes is <<0, k>>,
\* an edge by bitmap from r is <<r, 0>>, one by down_streams[r][i] is <<r, i>>.
Open(n, r, i) ==
    \/ r = 0 /\ \E c \in Clients : Creating(c, n) /\ i \in 1 .. Left(c)
    \/ r \in Nodes /\ i = 0 /\ FastOpen(r, n)
    \/ r \in Nodes /\ i \in DOMAIN down_streams[r] /\ down_streams[r][i] = n /\ SlowOpen(r)
Reasons(n) == {t \in (0 .. MaxNodes) \X Nat : Open(n, t[1], t[2])}

Fits(T, k) == IsFiniteSet(T) /\ Cardinality(T) <= k

\* The nodes of the clients' graphs that wait.
Linked(n) == Committed(n) /\ parent_graph[n] \in Graphs

\* Required nodes are other nodes, in some client's graph.
Named == \A n \in Nodes : \A r \in required[n] : r # n /\ parent_graph[r] \in Graphs
\* A bitmap is taken once, by the worker that has finished the node.
TakenOnce ==
    /\ \A r \in Nodes : status[r] \notin Ended =>
          fast_down_strams_bak[r] = fast_down_strams_bak_init
    /\ \A w \in Workers : w_pc[w] = "take_bak" =>
          fast_down_strams_bak[task[w]] = fast_down_strams_bak_init
\* A call starts out with all it was asked for.
Asked == \A c \in Clients :
    /\ c_pc[c] \in {"register", "ready", "count"} =>
          \A r \in required[new_node[c]] : \E i \in DOMAIN todo[c] : todo[c][i] = r
    /\ c_pc[c] = "ready" => todo[c] = <<>>
\* An edge that is not a fast one is in down_streams.
Pushed == \A n \in Nodes : Linked(n) => \A r \in required[n] :
    status[r] \notin Ended /\ ~IsFast(r, n) /\ ~Ahead(n, r) =>
        \E i \in DOMAIN down_streams[r] : down_streams[r][i] = n
\* Mutual exclusion of the reasons with the count.
Counts == \A n \in Nodes : Linked(n) => Fits(Reasons(n), wait_count[n])

Edges == Named /\ TakenOnce /\ Asked /\ Pushed /\ Counts
EdgeInv == LifeInv /\ Edges

-----------------------------------------------------------------------------
(* Counting the reasons *)

\* A count that is enough for some reasons is enough for part of them.
LEMMA FitsSub ==
    ASSUME NEW T, NEW U, NEW k \in Int, Fits(T, k), U \subseteq T
    PROVE  Fits(U, k)
<1>1. IsFiniteSet(U) /\ Cardinality(U) <= Cardinality(T)  BY FS_Subset DEF Fits
<1>2. Cardinality(U) \in Nat /\ Cardinality(T) \in Nat  BY <1>1, FS_CardinalityType DEF Fits
<1> QED  BY <1>1, <1>2 DEF Fits

\* It may go down by one when one reason is gone.
LEMMA FitsLess ==
    ASSUME NEW T, NEW U, NEW k \in Int, NEW t \in T, Fits(T, k), U \subseteq T \ {t}
    PROVE  Fits(U, k - 1)
<1>1. IsFiniteSet(T \ {t}) /\ Cardinality(T \ {t}) = Cardinality(T) - 1
    BY FS_RemoveElement DEF Fits
<1>2. Cardinality(T) \in Nat  BY FS_CardinalityType DEF Fits
<1>3. Fits(T \ {t}, k - 1)  BY <1>1, <1>2 DEF Fits
<1> QED  BY <1>3, FitsSub

\* It must go up by one for one more reason.
LEMMA FitsMore ==
    ASSUME NEW T, NEW U, NEW k \in Int, NEW t, Fits(T, k), U \subseteq T \cup {t}
    PROVE  Fits(U, k + 1)
<1>1. IsFiniteSet(T \cup {t}) /\ Cardinality(T \cup {t}) <= Cardinality(T) + 1
    <2>1. Cardinality(T) \in Nat  BY FS_CardinalityType DEF Fits
    <2> QED  BY <2>1, FS_AddElement DEF Fits
<1>2. Cardinality(T) \in Nat /\ Cardinality(T \cup {t}) \in Nat
    BY <1>1, FS_CardinalityType DEF Fits
<1>3. Fits(T \cup {t}, k + 1)  BY <1>1, <1>2 DEF Fits
<1> QED  BY <1>3, FitsSub

\* It may go down by no more than the number of reasons that are gone.
LEMMA FitsMinus ==
    ASSUME NEW T, NEW U, NEW H, NEW k \in Int, NEW h \in Nat, Fits(T, k), H \subseteq T,
           h <= Cardinality(H), U \subseteq T \ H
    PROVE  Fits(U, k - h)
<1>1. /\ IsFiniteSet(T \ H) /\ T \cap H = H
      /\ Cardinality(T \ H) = Cardinality(T) - Cardinality(T \cap H)
    BY FS_Difference DEF Fits
<1>2. IsFiniteSet(H)  BY FS_Subset DEF Fits
<1>3. Cardinality(T) \in Nat /\ Cardinality(H) \in Nat /\ Cardinality(T \ H) \in Nat
    BY <1>1, <1>2, FS_CardinalityType DEF Fits
<1>4. Fits(T \ H, k - h)
    <2>1. Cardinality(T \ H) = Cardinality(T) - Cardinality(H)  BY <1>1
    <2> QED  BY <1>1, <1>3, <2>1 DEF Fits
<1> QED  BY <1>4, FitsSub

\* It is never negative, and positive as long as there is a reason.
LEMMA FitsBound ==
    ASSUME NEW T, NEW k \in Int, Fits(T, k)
    PROVE  k >= 0 /\ (T # {} => k >= 1)
<1>1. Cardinality(T) \in Nat /\ (Cardinality(T) = 0 <=> T = {})
    BY FS_CardinalityType, FS_EmptySet DEF Fits
<1> QED  BY <1>1 DEF Fits

\* A count that does not change, with no new reason.
SameReasons(n) == \A r \in 0 .. MaxNodes, i \in Nat : Open(n, r, i)' => Open(n, r, i)

\* The count of n still fits when neither it nor the reasons grow.
LEMMA ReasonsSame ==
    ASSUME Types, NEW n \in Nodes, Fits(Reasons(n), wait_count[n]), SameReasons(n),
           wait_count'[n] = wait_count[n]
    PROVE  Fits(Reasons(n), wait_count[n])'
<1>1. wait_count[n] \in Int  BY DEF Types, NodeTypes
<1>2. Reasons(n)' \subseteq Reasons(n)  BY DEF Reasons, SameReasons
<1>3. Fits(Reasons(n)', wait_count[n])  BY <1>1, <1>2, FitsSub
<1> QED  BY <1>3 DEF Fits

\* One reason goes with one count.
LessReasons(n, q, k) == \A r \in 0 .. MaxNodes, i \in Nat :
    Open(n, r, i)' => Open(n, r, i) /\ ~(r = q /\ i = k)

\* It still fits when it goes down together with one reason.
LEMMA ReasonsLess ==
    ASSUME Types, NEW n \in Nodes, Fits(Reasons(n), wait_count[n]),
           NEW q \in 0 .. MaxNodes, NEW k \in Nat, Open(n, q, k), LessReasons(n, q, k),
           wait_count'[n] = wait_count[n] - 1
    PROVE  Fits(Reasons(n), wait_count[n])'
<1>1. wait_count[n] \in Int  BY DEF Types, NodeTypes
<1>2. <<q, k>> \in Reasons(n)  BY DEF Reasons
<1>3. Reasons(n)' \subseteq Reasons(n) \ {<<q, k>>}  BY DEF Reasons, LessReasons
<1>4. Fits(Reasons(n)', wait_count[n] - 1)  BY <1>1, <1>2, <1>3, FitsLess
<1> QED  BY <1>4 DEF Fits

\* One reason becomes another.
SwapReasons(n, q, k, p, j) == \A r \in 0 .. MaxNodes, i \in Nat :
    Open(n, r, i)' => (Open(n, r, i) /\ ~(r = q /\ i = k)) \/ (r = p /\ i = j)

\* It still fits when one reason takes the place of another.
LEMMA ReasonsSwap ==
    ASSUME Types, NEW n \in Nodes, Fits(Reasons(n), wait_count[n]),
           NEW q \in 0 .. MaxNodes, NEW k \in Nat, Open(n, q, k),
           NEW p, NEW j, SwapReasons(n, q, k, p, j),
           wait_count'[n] = wait_count[n]
    PROVE  Fits(Reasons(n), wait_count[n])'
<1>1. wait_count[n] \in Int  BY DEF Types, NodeTypes
<1>2. <<q, k>> \in Reasons(n)  BY DEF Reasons
<1>3. Reasons(n)' \subseteq (Reasons(n) \ {<<q, k>>}) \cup {<<p, j>>}
    <2> SUFFICES ASSUME NEW r \in 0 .. MaxNodes, NEW i \in Nat, Open(n, r, i)'
                 PROVE  <<r, i>> \in (Reasons(n) \ {<<q, k>>}) \cup {<<p, j>>}
        BY DEF Reasons
    <2> QED  BY DEF Reasons, SwapReasons
<1>4. Fits(Reasons(n) \ {<<q, k>>}, wait_count[n] - 1)  BY <1>1, <1>2, FitsLess
<1>5. Fits(Reasons(n)', (wait_count[n] - 1) + 1)
    <2> DEFINE T == Reasons(n) \ {<<q, k>>}
               U == Reasons(n)'
               l == wait_count[n] - 1
    <2>1. l \in Int /\ Fits(T, l) /\ U \subseteq T \cup {<<p, j>>}  BY <1>1, <1>3, <1>4
    <2> HIDE DEF T, U, l
    <2>2. Fits(U, l + 1)  BY <2>1, FitsMore
    <2> QED  BY <2>2 DEF U, l
<1>6. (wait_count[n] - 1) + 1 = wait_count[n]  BY <1>1
<1> QED  BY <1>5, <1>6 DEF Fits

-----------------------------------------------------------------------------
(* Steps that leave the clients that link where they are *)

LinkersSame == \A d \in Clients :
    c_pc[d] \in Linking \/ c_pc'[d] \in Linking =>
        /\ c_pc'[d] = c_pc[d] /\ new_node'[d] = new_node[d]
        /\ todo'[d] = todo[d] /\ reg'[d] = reg[d]

\* What the clients are linking is read off the same calls as before.
LEMMA SameLinks ==
    ASSUME LinkersSame, NEW n, NEW r
    PROVE  /\ \A c \in Clients : Creating(c, n)' <=> Creating(c, n)
           /\ \A c \in Clients : Creating(c, n) => Left(c)' = Left(c)
           /\ \A pc \in Linking : \A c \in Clients : At(c, n, r, pc)' <=> At(c, n, r, pc)
           /\ Ahead(n, r)' <=> Ahead(n, r)
<1>1. \A c \in Clients : Creating(c, n)' <=> Creating(c, n)
    BY DEF LinkersSame, Creating
<1>2. \A c \in Clients : Creating(c, n) => Left(c)' = Left(c)
    BY DEF LinkersSame, Creating, Left
<1>3. \A pc \in Linking : \A c \in Clients : At(c, n, r, pc)' <=> At(c, n, r, pc)
    BY DEF LinkersSame, At
<1>4. \A c \in Clients : Creating(c, n) => todo'[c] = todo[c]
    BY DEF LinkersSame, Creating
<1>5. Ahead(n, r)' <=> Ahead(n, r)  BY <1>1, <1>4 DEF Ahead
<1> QED  BY <1>1, <1>2, <1>3, <1>5

\* A bit is in a bitmap, or about to be stored, as before.
LEMMA SameBits ==
    ASSUME LinkersSame, NEW n, NEW r, fast_down_strams' = fast_down_strams,
           node_id'[n] = node_id[n]
    PROVE  HasBit(r, n)' <=> HasBit(r, n)
BY DEF LinkersSame, HasBit, Linking

\* No node is taken back from its end, and no worker comes to follow its edges.
EndsStay == \A r \in Nodes : /\ status[r] \in Ended => status'[r] \in Ended
                             /\ Working(r, {"fast"})' => Working(r, {"fast"})
                             /\ SlowOpen(r)' => SlowOpen(r)

\* No fast edge opens while bitmaps and clients stay as they are.
LEMMA QuietFast ==
    ASSUME LinkersSame, EndsStay, UNCHANGED <<fast_down_strams, fast_down_strams_bak>>,
           NEW n, NEW r \in Nodes, node_id'[n] = node_id[n], required'[n] = required[n],
           FastOpen(r, n)' => IsFast(r, n)
    PROVE  FastOpen(r, n)' => FastOpen(r, n)
<1>1. /\ \A c \in Clients : At(c, n, r, "read_bak")' <=> At(c, n, r, "read_bak")
      /\ \A c \in Clients : At(c, n, r, "bit_load")' <=> At(c, n, r, "bit_load")
      /\ Ahead(n, r)' <=> Ahead(n, r)
    BY SameLinks DEF Linking
<1>2. HasBit(r, n)' <=> HasBit(r, n)  BY SameBits
<1>3. /\ status'[r] \notin Ended => status[r] \notin Ended
      /\ Working(r, {"fast"})' => Working(r, {"fast"})
    BY DEF EndsStay
<1> QED  BY <1>1, <1>2, <1>3 DEF FastOpen, fast_down_strams_bak_init

\* No reason at all appears then.
LEMMA QuietReasons ==
    ASSUME LinkersSame, EndsStay,
           UNCHANGED <<fast_down_strams, fast_down_strams_bak, down_streams>>,
           NEW n, node_id'[n] = node_id[n], required'[n] = required[n],
           \A r \in Nodes : FastOpen(r, n)' => IsFast(r, n)
    PROVE  SameReasons(n)
<1> SUFFICES ASSUME NEW r \in 0 .. MaxNodes, NEW i \in Nat, Open(n, r, i)'
             PROVE  Open(n, r, i)
    BY DEF SameReasons
<1>1. CASE r = 0 /\ \E c \in Clients : Creating(c, n)' /\ i \in 1 .. Left(c)'
    <2>1. \A c \in Clients : Creating(c, n)' => Creating(c, n) /\ Left(c)' = Left(c)
        BY SameLinks
    <2> QED  BY <1>1, <2>1 DEF Open
<1>2. CASE r \in Nodes /\ i = 0 /\ FastOpen(r, n)'
    BY <1>2, QuietFast DEF Open
<1>3. CASE r \in Nodes /\ i \in DOMAIN down_streams[r] /\ down_streams[r][i] = n /\ SlowOpen(r)'
    BY <1>3 DEF Open, EndsStay
<1> QED  BY <1>1, <1>2, <1>3 DEF Open

\* The nodes that wait stay the same.
LinkedSame == \A n \in Nodes : Linked(n)' => Linked(n)

\* What is in down_streams stays there.
LEMMA QuietPushed ==
    ASSUME Pushed, LinkersSame, LinkedSame, NEW n \in Nodes, Linked(n)',
           UNCHANGED down_streams, required'[n] = required[n],
           \A r \in Nodes : status[r] \in Ended => status'[r] \in Ended,
           \A r \in required[n] : r \in Nodes /\ (IsFast(r, n) => IsFast(r, n)')
    PROVE  \A r \in required'[n] :
              status'[r] \notin Ended /\ ~IsFast(r, n)' /\ ~Ahead(n, r)' =>
                 \E i \in DOMAIN down_streams'[r] : down_streams'[r][i] = n
<1> SUFFICES ASSUME NEW r \in required[n],
                    status'[r] \notin Ended, ~IsFast(r, n)', ~Ahead(n, r)'
             PROVE  \E i \in DOMAIN down_streams[r] : down_streams[r][i] = n
    OBVIOUS
<1>1. ~Ahead(n, r)  BY SameLinks
<1> QED  BY <1>1 DEF Pushed, LinkedSame

\* What an edge of n depends on stays the same.
NodeSame(n) ==
    /\ wait_count'[n] = wait_count[n] /\ node_id'[n] = node_id[n] /\ required'[n] = required[n]
    /\ \A r \in Nodes : FastOpen(r, n)' => IsFast(r, n)
    /\ \A r \in required[n] : IsFast(r, n) => IsFast(r, n)'

\* So Pushed and Counts survive such a step.
LEMMA QuietEdges ==
    ASSUME EdgeInv, LinkersSame, EndsStay, LinkedSame,
           UNCHANGED <<fast_down_strams, fast_down_strams_bak, down_streams>>,
           \A n \in Nodes : Linked(n) => NodeSame(n)
    PROVE  Pushed' /\ Counts'
<1> USE DEF EdgeInv, LifeInv, Edges
<1>1. Counts'
    <2> SUFFICES ASSUME NEW n \in Nodes, Linked(n)'
                 PROVE  Fits(Reasons(n), wait_count[n])'
        BY DEF Counts
    <2>1. Linked(n) /\ NodeSame(n)  BY DEF LinkedSame
    <2>2. SameReasons(n)  BY <2>1, QuietReasons DEF NodeSame
    <2> QED  BY <2>1, <2>2, ReasonsSame DEF Counts, NodeSame
<1>2. Pushed'
    <2> SUFFICES ASSUME NEW n \in Nodes, Linked(n)'
                 PROVE  \A r \in required'[n] :
              status'[r] \notin Ended /\ ~IsFast(r, n)' /\ ~Ahead(n, r)' =>
                 \E i \in DOMAIN down_streams'[r] : down_streams'[r][i] = n
        BY DEF Pushed
    <2>1. Linked(n) /\ NodeSame(n)  BY DEF LinkedSame
    <2>2. \A r \in required[n] : r \in Nodes  BY DEF Types, NodeTypes
    <2> QED  BY <2>1, <2>2, QuietPushed DEF NodeSame, EndsStay
<1> QED  BY <1>1, <1>2

\* TakenOnce survives when no bitmap is taken.
LEMMA QuietTaken ==
    ASSUME TakenOnce, UNCHANGED fast_down_strams_bak,
           \A r \in Nodes : status[r] \in Ended => status'[r] \in Ended,
           \A w \in Workers : w_pc'[w] = "take_bak" =>
              \/ w_pc[w] = "take_bak" /\ task'[w] = task[w]
              \/ task'[w] \in Nodes /\ status[task'[w]] \notin Ended
    PROVE  TakenOnce'
BY DEF TakenOnce

-----------------------------------------------------------------------------
(* The workers *)

\* A worker's step that changes neither bitmaps nor counts keeps the edges.
LEMMA WorkerQuiet ==
    ASSUME EdgeInv, EndsStay,
           UNCHANGED <<clientVars, made, required, parent_graph, node_id, fast_down_strams,
                       fast_down_strams_bak, down_streams>>,
           \A n \in Nodes : Linked(n) => wait_count'[n] = wait_count[n],
           \A w \in Workers : w_pc'[w] = "take_bak" =>
              \/ w_pc[w] = "take_bak" /\ task'[w] = task[w]
              \/ task'[w] \in Nodes /\ status[task'[w]] \notin Ended
    PROVE  Edges'
<1> USE DEF EdgeInv, Edges
<1>1. Named'  BY DEF Named
<1>2. TakenOnce'  BY QuietTaken DEF EndsStay
<1>3. Asked'  BY DEF Asked, clientVars
<1>4. LinkersSame  BY DEF LinkersSame, clientVars
<1>5. LinkedSame  BY DEF LinkedSame, Linked, Committed, clientVars
<1>6. ASSUME NEW n \in Nodes, Linked(n) PROVE NodeSame(n)
    <2>1. \A r : IsFast(r, n)' <=> IsFast(r, n)  BY DEF IsFast
    <2>2. \A r \in Nodes : FastOpen(r, n)' => IsFast(r, n)  BY <2>1 DEF FastOpen
    <2> QED  BY <1>6, <2>1, <2>2 DEF NodeSame
<1>7. Pushed' /\ Counts'  BY <1>4, <1>5, <1>6, QuietEdges
<1> QED  BY <1>1, <1>2, <1>3, <1>7


\* A task is taken from the queue.
LEMMA DequeueEdges ==
    ASSUME EdgeInv, NEW w \in Workers, NEW n0 \in Nodes, Dequeue(w, n0)
    PROVE  Edges'
<1> USE DEF EdgeInv, LifeInv
<1>1. UNCHANGED <<clientVars, made, required, parent_graph, node_id, fast_down_strams,
                  fast_down_strams_bak, down_streams>>
    BY DEF Dequeue, WGo, nodeVars, boundVars
<1>2. \A n \in Nodes : Linked(n) => wait_count'[n] = wait_count[n]
    BY DEF Dequeue, WGo, nodeVars, graphVars, clientVars, workerVars, boundVars
<1>3. EndsStay
    <2>1. \A r \in Nodes : status[r] \in Ended <=> status'[r] \in Ended
        BY DEF Dequeue, WGo, nodeVars, graphVars, clientVars, workerVars, boundVars, Types,
           NodeTypes, WorkerTypes, Ended
    <2>2. \A r \in Nodes : Working(r, {"fast"})' => Working(r, {"fast"})
        BY DEF Dequeue, WGo, Types, WorkerTypes, Working
    <2>3. \A r \in Nodes : SlowOpen(r)' => SlowOpen(r)
        BY <2>1 DEF Dequeue, WGo, Types, WorkerTypes, Working, SlowOpen
    <2> QED  BY <2>1, <2>2, <2>3 DEF EndsStay
<1>4. \A v \in Workers : w_pc'[v] = "take_bak" =>
          \/ w_pc[v] = "take_bak" /\ task'[v] = task[v]
          \/ task'[v] \in Nodes /\ status[task'[v]] \notin Ended
    BY DEF Dequeue, WGo, Types, WorkerTypes
<1> QED  BY <1>1, <1>2, <1>3, <1>4, WorkerQuiet

\* The task begins.
LEMMA ResumeEdges ==
    ASSUME EdgeInv, NEW w \in Workers, Resume(w)
    PROVE  Edges'
<1> USE DEF EdgeInv, LifeInv
<1>0. status[task[w]] = "Initing" /\ task[w] \in Nodes
    <2>1. w_pc[w] = "start" /\ task[w] \in Nodes /\ Doing(w, task[w])
        BY DEF Resume, WGo, Types, WorkerTypes, Doing
    <2> QED  BY <2>1 DEF Placement, NotStarted
<1>1. UNCHANGED <<clientVars, made, required, parent_graph, node_id, fast_down_strams,
                  fast_down_strams_bak, down_streams>>
    BY DEF Resume, WGo, nodeVars, boundVars
<1>2. \A n \in Nodes : Linked(n) => wait_count'[n] = wait_count[n]
    BY DEF Resume, WGo, nodeVars, graphVars, clientVars, workerVars, boundVars
<1>3. EndsStay
    <2>1. \A r \in Nodes : status[r] \in Ended <=> status'[r] \in Ended
        BY <1>0 DEF Resume, WGo, nodeVars, graphVars, clientVars, workerVars, boundVars,
           Types, NodeTypes, WorkerTypes, Ended
    <2>2. \A r \in Nodes : Working(r, {"fast"})' => Working(r, {"fast"})
        BY DEF Resume, WGo, Types, WorkerTypes, Working
    <2>3. \A r \in Nodes : SlowOpen(r)' => SlowOpen(r)
        BY <2>1 DEF Resume, WGo, Types, WorkerTypes, Working, SlowOpen
    <2> QED  BY <2>1, <2>2, <2>3 DEF EndsStay
<1>4. \A v \in Workers : w_pc'[v] = "take_bak" =>
          \/ w_pc[v] = "take_bak" /\ task'[v] = task[v]
          \/ task'[v] \in Nodes /\ status[task'[v]] \notin Ended
    BY DEF Resume, WGo, Types, WorkerTypes
<1> QED  BY <1>1, <1>2, <1>3, <1>4, WorkerQuiet

\* The task runs.
LEMMA RunEdges ==
    ASSUME EdgeInv, NEW w \in Workers, Run(w)
    PROVE  Edges'
<1> USE DEF EdgeInv, LifeInv
<1>1. UNCHANGED <<clientVars, made, required, parent_graph, node_id, fast_down_strams,
                  fast_down_strams_bak, down_streams>>
    BY DEF Run, WGo, nodeVars, boundVars
<1>2. \A n \in Nodes : Linked(n) => wait_count'[n] = wait_count[n]
    BY DEF Run, WGo, nodeVars, graphVars, clientVars, workerVars, boundVars
<1>3. EndsStay
    <2>1. \A r \in Nodes : status[r] \in Ended <=> status'[r] \in Ended
        BY DEF Run, WGo, nodeVars, graphVars, clientVars, workerVars, boundVars, Types,
           NodeTypes, WorkerTypes, Ended
    <2>2. \A r \in Nodes : Working(r, {"fast"})' => Working(r, {"fast"})
        BY DEF Run, WGo, Types, WorkerTypes, Working
    <2>3. \A r \in Nodes : SlowOpen(r)' => SlowOpen(r)
        BY <2>1 DEF Run, WGo, Types, WorkerTypes, Working, SlowOpen
    <2> QED  BY <2>1, <2>2, <2>3 DEF EndsStay
<1>4. \A v \in Workers : w_pc'[v] = "take_bak" =>
          \/ w_pc[v] = "take_bak" /\ task'[v] = task[v]
          \/ task'[v] \in Nodes /\ status[task'[v]] \notin Ended
    BY DEF Run, WGo, Types, WorkerTypes
<1> QED  BY <1>1, <1>2, <1>3, <1>4, WorkerQuiet

\* The task has finished; its edges are still to be followed.
LEMMA FinishEdges ==
    ASSUME EdgeInv, NEW w \in Workers, Finish(w)
    PROVE  Edges'
<1> USE DEF EdgeInv, LifeInv
<1>0. status[task[w]] \notin Ended /\ task[w] \in Nodes
    BY DEF Finish, WGo, Types, WorkerTypes, Placement, Started, Ended
<1>1. UNCHANGED <<clientVars, made, required, parent_graph, node_id, fast_down_strams,
                  fast_down_strams_bak, down_streams>>
    BY DEF Finish, WGo, nodeVars, boundVars
<1>2. \A n \in Nodes : Linked(n) => wait_count'[n] = wait_count[n]
    BY DEF Finish, WGo, nodeVars, graphVars, clientVars, workerVars, boundVars
<1>3. EndsStay
    <2>1. \A r \in Nodes : r # task[w] => status'[r] = status[r]
        BY DEF Finish, Types, NodeTypes
    <2>2. \A r \in Nodes : Working(r, {"fast"})' => Working(r, {"fast"})
        BY DEF Finish, WGo, Types, WorkerTypes, Working
    <2>3. \A r \in Nodes : SlowOpen(r)' => SlowOpen(r)
        <3> SUFFICES ASSUME NEW r \in Nodes, SlowOpen(r)' PROVE SlowOpen(r)  OBVIOUS
        <3>1. CASE r = task[w]  BY <1>0, <3>1 DEF SlowOpen
        <3>2. CASE r # task[w]
            BY <2>1, <3>2 DEF Finish, WGo, Types, WorkerTypes, Working, SlowOpen
        <3> QED  BY <3>1, <3>2
    <2> QED  BY <1>0, <2>1, <2>2, <2>3 DEF EndsStay
<1>4. \A v \in Workers : w_pc'[v] = "take_bak" =>
          \/ w_pc[v] = "take_bak" /\ task'[v] = task[v]
          \/ task'[v] \in Nodes /\ status[task'[v]] \notin Ended
    BY <1>0 DEF Finish, WGo, Types, WorkerTypes
<1> QED  BY <1>1, <1>2, <1>3, <1>4, WorkerQuiet

\* The graph's count.
LEMMA LeaveGraphEdges ==
    ASSUME EdgeInv, NEW w \in Workers, LeaveGraph(w)
    PROVE  Edges'
<1> USE DEF EdgeInv, LifeInv
<1>1. UNCHANGED <<clientVars, made, required, parent_graph, node_id, fast_down_strams,
                  fast_down_strams_bak, down_streams>>
    BY DEF LeaveGraph, WGo, nodeVars, boundVars
<1>2. \A n \in Nodes : Linked(n) => wait_count'[n] = wait_count[n]
    BY DEF LeaveGraph, WGo, nodeVars, graphVars, clientVars, workerVars, boundVars
<1>3. EndsStay
    <2>1. \A r \in Nodes : status[r] \in Ended <=> status'[r] \in Ended
        BY DEF LeaveGraph, WGo, nodeVars, graphVars, clientVars, workerVars, boundVars,
           Types, NodeTypes, WorkerTypes, Ended
    <2>2. \A r \in Nodes : Working(r, {"fast"})' => Working(r, {"fast"})
        BY DEF LeaveGraph, WGo, Types, WorkerTypes, Working
    <2>3. \A r \in Nodes : SlowOpen(r)' => SlowOpen(r)
        BY <2>1 DEF LeaveGraph, WGo, Types, WorkerTypes, Working, SlowOpen
    <2> QED  BY <2>1, <2>2, <2>3 DEF EndsStay
<1>4. \A v \in Workers : w_pc'[v] = "take_bak" =>
          \/ w_pc[v] = "take_bak" /\ task'[v] = task[v]
          \/ task'[v] \in Nodes /\ status[task'[v]] \notin Ended
    BY DEF LeaveGraph, WGo, Types, WorkerTypes
<1> QED  BY <1>1, <1>2, <1>3, <1>4, WorkerQuiet

\* The notified nodes are handed on.
LEMMA PickNextEdges ==
    ASSUME EdgeInv, NEW w \in Workers, PickNext(w)
    PROVE  Edges'
<1> USE DEF EdgeInv, LifeInv
<1>1. UNCHANGED <<clientVars, made, required, parent_graph, node_id, fast_down_strams,
                  fast_down_strams_bak, down_streams>>
    BY DEF PickNext, WGo, nodeVars, boundVars
<1>2. \A n \in Nodes : Linked(n) => wait_count'[n] = wait_count[n]
    BY DEF PickNext, WGo, nodeVars, graphVars, clientVars, workerVars, boundVars
<1>3. EndsStay
    <2>1. \A r \in Nodes : status[r] \in Ended <=> status'[r] \in Ended
        BY DEF PickNext, WGo, nodeVars, graphVars, clientVars, workerVars, boundVars, Types,
           NodeTypes, WorkerTypes, Ended
    <2>2. \A r \in Nodes : Working(r, {"fast"})' => Working(r, {"fast"})
        BY DEF PickNext, WGo, Types, WorkerTypes, Working
    <2>3. \A r \in Nodes : SlowOpen(r)' => SlowOpen(r)
        BY <2>1 DEF PickNext, WGo, Types, WorkerTypes, Working, SlowOpen
    <2> QED  BY <2>1, <2>2, <2>3 DEF EndsStay
<1>4. \A v \in Workers : w_pc'[v] = "take_bak" =>
          \/ w_pc[v] = "take_bak" /\ task'[v] = task[v]
          \/ task'[v] \in Nodes /\ status[task'[v]] \notin Ended
    BY DEF PickNext, WGo, Types, WorkerTypes
<1> QED  BY <1>1, <1>2, <1>3, <1>4, WorkerQuiet

\* The task is over.
LEMMA RecoverEdges ==
    ASSUME EdgeInv, NEW w \in Workers, Recover(w)
    PROVE  Edges'
<1> USE DEF EdgeInv, LifeInv
<1>0. status[task[w]] = "Finish" /\ task[w] \in Nodes
    BY DEF Recover, WGo, Types, WorkerTypes, Placement, Started, Leaving
<1>1. UNCHANGED <<clientVars, made, required, parent_graph, node_id, fast_down_strams,
                  fast_down_strams_bak, down_streams>>
    BY DEF Recover, WGo, nodeVars, boundVars
<1>2. \A n \in Nodes : Linked(n) => wait_count'[n] = wait_count[n]
    BY DEF Recover, WGo, nodeVars, graphVars, clientVars, workerVars, boundVars
<1>3. EndsStay
    <2>1. \A r \in Nodes : status[r] \in Ended <=> status'[r] \in Ended
        BY <1>0 DEF Recover, Types, NodeTypes, Ended
    <2>2. \A r \in Nodes : Working(r, {"fast"})' => Working(r, {"fast"})
        BY DEF Recover, WGo, Types, WorkerTypes, Working
    <2>3. \A r \in Nodes : SlowOpen(r)' => SlowOpen(r)
        BY <2>1 DEF Recover, WGo, Types, WorkerTypes, Working, SlowOpen
    <2> QED  BY <2>1, <2>2, <2>3 DEF EndsStay
<1>4. \A v \in Workers : w_pc'[v] = "take_bak" =>
          \/ w_pc[v] = "take_bak" /\ task'[v] = task[v]
          \/ task'[v] \in Nodes /\ status[task'[v]] \notin Ended
    BY DEF Recover, WGo, Types, WorkerTypes
<1> QED  BY <1>1, <1>2, <1>3, <1>4, WorkerQuiet

\* Only waiters wait for a graph.
LEMMA NotifyWaitersEdges ==
    ASSUME EdgeInv, NEW w \in Workers, NotifyWaiters(w)
    PROVE  Edges'
<1> USE DEF EdgeInv, LifeInv
<1> DEFINE g == parent_graph[task[w]]
           ds == g_down_streams[g]
<1>0. /\ ds \in Seq(Nodes) /\ Notify(w, ds)
      /\ \A i \in DOMAIN ds : parent_graph[ds[i]] \in Clients
    <2>1. task[w] \in Nodes /\ Committed(task[w])
        BY OwnTask DEF NotifyWaiters, WGo
    <2>2. g \in AllGraphs  BY <2>1, HasGraph
    <2> QED  BY <2>2 DEF NotifyWaiters, Types, GraphTypes, Structure, Listed
<1> HIDE DEF ds, g
<1>1. UNCHANGED <<clientVars, made, required, parent_graph, node_id, fast_down_strams,
                  fast_down_strams_bak, down_streams>>
    BY DEF NotifyWaiters, WGo, nodeVars, boundVars
<1>2. \A n \in Nodes : Linked(n) => wait_count'[n] = wait_count[n]
    <2> SUFFICES ASSUME NEW n \in Nodes, Linked(n) PROVE wait_count'[n] = wait_count[n]
        OBVIOUS
    <2>1. \A i \in DOMAIN ds : ds[i] # n  BY <1>0, NameAssumption DEF Linked
    <2>2. Hits(ds, n, Len(ds)) = 0  BY <1>0, <2>1, HitsBound
    <2>3. wait_count'[n] = wait_count[n] - Hits(ds, n, Len(ds)) /\ wait_count[n] \in Int
        BY <1>0, NotifyEffect DEF Types, NodeTypes
    <2> QED  BY <2>2, <2>3
<1>3. EndsStay
    <2>1. \A r \in Nodes : status[r] \in Ended <=> status'[r] \in Ended
        BY DEF NotifyWaiters, WGo, nodeVars, graphVars, clientVars, workerVars, boundVars,
           Types, NodeTypes, WorkerTypes, Ended
    <2>2. \A r \in Nodes : Working(r, {"fast"})' => Working(r, {"fast"})
        BY DEF NotifyWaiters, WGo, Types, WorkerTypes, Working
    <2>3. \A r \in Nodes : SlowOpen(r)' => SlowOpen(r)
        BY <2>1 DEF NotifyWaiters, WGo, Types, WorkerTypes, Working, SlowOpen
    <2> QED  BY <2>1, <2>2, <2>3 DEF EndsStay
<1>4. \A v \in Workers : w_pc'[v] = "take_bak" =>
          \/ w_pc[v] = "take_bak" /\ task'[v] = task[v]
          \/ task'[v] \in Nodes /\ status[task'[v]] \notin Ended
    BY DEF NotifyWaiters, WGo, Types, WorkerTypes
<1> QED  BY <1>1, <1>2, <1>3, <1>4, WorkerQuiet

\* What the steps that follow the edges of a task leave alone.
LEMMA WorkerRest ==
    ASSUME EdgeInv,
           UNCHANGED <<clientVars, made, required, parent_graph, node_id, status, down_streams>>
    PROVE  Named' /\ Asked' /\ Pushed' /\ LinkersSame /\ LinkedSame
<1> USE DEF EdgeInv, LifeInv, Edges
<1>1. Named' /\ Asked'  BY DEF Named, Asked, clientVars
<1>2. LinkersSame  BY DEF LinkersSame, clientVars
<1>3. LinkedSame  BY DEF LinkedSame, Linked, Committed, clientVars
<1>4. Pushed'
    <2> SUFFICES ASSUME NEW n \in Nodes, Linked(n)'
                 PROVE  \A r \in required'[n] :
              status'[r] \notin Ended /\ ~IsFast(r, n)' /\ ~Ahead(n, r)' =>
                 \E i \in DOMAIN down_streams'[r] : down_streams'[r][i] = n
        BY DEF Pushed
    <2>1. \A r \in required[n] : r \in Nodes /\ (IsFast(r, n) => IsFast(r, n)')
        BY DEF Types, NodeTypes, IsFast
    <2> QED  BY <1>2, <1>3, <2>1, QuietPushed
<1> QED  BY <1>1, <1>2, <1>3, <1>4

\* The bitmap is taken: a bit that is in it will be followed, a client that was
\* too late will see it.
LEMMA TakeBakEdges ==
    ASSUME EdgeInv, NEW w \in Workers, TakeBak(w)
    PROVE  Edges'
<1> USE DEF EdgeInv, LifeInv
<1> DEFINE r0 == task[w]
<1>0. /\ w_pc[w] = "take_bak" /\ w_pc' = [w_pc EXCEPT ![w] = "fast"] /\ r0 \in Nodes
      /\ fast_down_strams_bak' = [fast_down_strams_bak EXCEPT ![r0] = fast_down_strams[r0]]
      /\ UNCHANGED <<status, wait_count, parent_graph, node_id, fast_down_strams,
                     down_streams, clientVars, task, made, required>>
    BY DEF TakeBak, WGo, Types, WorkerTypes, boundVars
<1>1. /\ fast_down_strams_bak[r0] = fast_down_strams_bak_init
      /\ fast_down_strams_bak'[r0] = fast_down_strams[r0]
      /\ \A r \in Nodes \ {r0} : fast_down_strams_bak'[r] = fast_down_strams_bak[r]
      /\ fast_down_strams[r0] # fast_down_strams_bak_init
    BY <1>0 DEF Edges, TakenOnce, Types, NodeTypes, NodeBits, fast_down_strams_bak_init
<1>2. Named' /\ Asked' /\ Pushed' /\ LinkersSame /\ LinkedSame
    BY <1>0, WorkerRest
<1>3. \A v \in Workers \ {w} : Doing(v, r0) => FALSE  BY <1>0, OwnTask
<1>4. \A v \in Workers \ {w} : w_pc'[v] = w_pc[v] /\ (w_pc[v] # "idle" => task[v] # r0)
    BY <1>0, <1>3 DEF Doing, Types, WorkerTypes
<1> HIDE DEF r0
<1>5. TakenOnce'
    <2>1. status[r0] = "Finish" /\ r0 = task[w]
        BY <1>0 DEF Placement, Started, Leaving, r0
    <2>2. \A r \in Nodes : status[r] \notin Ended => r # r0  BY <2>1 DEF Ended
    <2>3. \A v \in Workers : w_pc'[v] = "take_bak" => v # w /\ w_pc[v] = "take_bak"
        BY <1>0 DEF Types, WorkerTypes
    <2>4. \A v \in Workers : w_pc[v] = "take_bak" => task[v] \in Nodes
        BY DEF Types, WorkerTypes
    <2> QED  BY <1>0, <1>1, <1>4, <2>2, <2>3, <2>4 DEF Edges, TakenOnce
<1>6. \A r \in Nodes : SlowOpen(r)' => SlowOpen(r)
    <2>1. \A v \in Workers : \A r : (w_pc'[v] \in {"take_bak", "fast", "down"} /\ task'[v] = r)
                    => (w_pc[v] \in {"take_bak", "fast", "down"} /\ task[v] = r)
        BY <1>0 DEF Types, WorkerTypes
    <2> QED  BY <1>0, <2>1 DEF SlowOpen, Working
<1>7. ASSUME NEW n \in Nodes, NEW r \in Nodes, FastOpen(r, n)' PROVE FastOpen(r, n)
    <2>1. /\ \A c \in Clients : At(c, n, r, "read_bak")' <=> At(c, n, r, "read_bak")
          /\ \A c \in Clients : At(c, n, r, "bit_load")' <=> At(c, n, r, "bit_load")
          /\ Ahead(n, r)' <=> Ahead(n, r)
        BY <1>2, SameLinks DEF Linking
    <2>2. HasBit(r, n)' <=> HasBit(r, n)  BY <1>0, <1>2, SameBits
    <2>3. IsFast(r, n)  BY <1>0, <1>7 DEF FastOpen, IsFast
    <2>4. CASE r = r0
        <3>1. node_id[n] \in fast_down_strams[r] => HasBit(r, n)  BY DEF HasBit
        <3> QED  BY <1>0, <1>1, <1>7, <2>1, <2>2, <2>3, <2>4, <3>1
                 DEF FastOpen, fast_down_strams_bak_init
    <2>5. CASE r # r0
        <3>1. Working(r, {"fast"})' => Working(r, {"fast"})
            BY <1>0, <1>4, <2>5 DEF Working, r0
        <3> QED  BY <1>0, <1>1, <1>7, <2>1, <2>2, <2>3, <2>5, <3>1
                 DEF FastOpen, fast_down_strams_bak_init
    <2> QED  BY <2>4, <2>5
<1>8. Counts'
    <2> SUFFICES ASSUME NEW n \in Nodes, Linked(n)'
                 PROVE  Fits(Reasons(n), wait_count[n])'
        BY DEF Counts
    <2>1. Linked(n)  BY <1>2 DEF LinkedSame
    <2>2. SameReasons(n)
        <3> SUFFICES ASSUME NEW r \in 0 .. MaxNodes, NEW i \in Nat, Open(n, r, i)'
                     PROVE  Open(n, r, i)
            BY DEF SameReasons
        <3>1. \A c \in Clients : Creating(c, n)' => Creating(c, n) /\ Left(c)' = Left(c)
            BY <1>2, SameLinks
        <3> QED  BY <1>0, <1>6, <1>7, <3>1 DEF Open
    <2> QED  BY <1>0, <2>1, <2>2, ReasonsSame DEF Edges, Counts
<1> QED  BY <1>2, <1>5, <1>8 DEF Edges

\* The nodes of the bits are counted down, once each.
LEMMA NotifyFastEdges ==
    ASSUME EdgeInv, NEW w \in Workers, NotifyFast(w)
    PROVE  Edges'
<1> USE DEF EdgeInv, LifeInv
<1>r. PICK r0 \in Nodes : r0 = task[w]
    BY DEF NotifyFast, WGo, Types, WorkerTypes
<1>0. /\ w_pc[w] = "fast" /\ w_pc' = [w_pc EXCEPT ![w] = "down"] /\ r0 = task[w]
      /\ UNCHANGED <<status, parent_graph, node_id, fast_down_strams, fast_down_strams_bak,
                     down_streams, clientVars, task, made, required>>
    BY <1>r DEF NotifyFast, WGo, Types, WorkerTypes, boundVars
<1>i. PICK ids \in bit_map_idx(fast_down_strams_bak[r0]) :
          Notify(w, [i \in DOMAIN ids |-> get_node(r0, ids[i])])
    BY <1>r DEF NotifyFast
<1>e. PICK ds : ds = [i \in DOMAIN ids |-> get_node(r0, ids[i])]
    OBVIOUS
<1>d. /\ ds \in Seq(Nodes) /\ Notify(w, ds)
      /\ \A i \in DOMAIN ds : /\ ids[i] \in fast_down_strams_bak[r0] \ {fast_node_max_num}
                              /\ ds[i] = get_node(r0, ids[i])
      /\ \A i, j \in DOMAIN ds : i < j => ids[i] < ids[j]
    BY <1>0, <1>i, <1>e, BitNodes
<1>1. Named' /\ Asked' /\ Pushed' /\ LinkersSame /\ LinkedSame
    BY <1>0, WorkerRest
<1>2. \A v \in Workers \ {w} : w_pc'[v] = w_pc[v] /\ (w_pc[v] # "idle" => task[v] # r0)
    <2>1. \A v \in Workers \ {w} : ~Doing(v, r0)  BY <1>0, OwnTask
    <2> QED  BY <1>0, <2>1 DEF Doing, Types, WorkerTypes
<1>3. TakenOnce'
    <2>1. \A v \in Workers : w_pc'[v] = "take_bak" => w_pc[v] = "take_bak"
        BY <1>0 DEF Types, WorkerTypes
    <2> QED  BY <1>0, <2>1, QuietTaken DEF Edges
<1>4. EndsStay /\ ~Working(r0, {"fast"})'
    <2>1. \A v \in Workers : \A r : (w_pc'[v] \in {"take_bak", "fast", "down"} /\ task'[v] = r)
                    => (w_pc[v] \in {"take_bak", "fast", "down"} /\ task[v] = r)
        BY <1>0 DEF Types, WorkerTypes
    <2>2. \A v \in Workers : w_pc'[v] = "fast" => w_pc[v] = "fast" /\ task[v] # r0
        BY <1>0, <1>2 DEF Types, WorkerTypes
    <2> QED  BY <1>0, <2>1, <2>2 DEF EndsStay, SlowOpen, Working
<1>5. ASSUME NEW k \in DOMAIN ds, NEW n \in Nodes, n = ds[k]
      PROVE  node_id[n] = ids[k] /\ FastOpen(r0, n) /\ ~FastOpen(r0, n)'
    <2>0. PICK b : b = ids[k]  OBVIOUS
    <2>1. b \in fast_down_strams_bak[r0] \ {fast_node_max_num} /\ n = get_node(r0, b)
        BY <1>d, <1>5, <2>0
    <2>2. b \in Nat /\ b < fast_node_max_num
        <3>1. fast_down_strams_bak[r0] \subseteq 0 .. fast_node_max_num
            BY <1>0 DEF Types, NodeTypes, NodeBits, Bits
        <3> QED  BY <2>1, <3>1, BoundAssumption
    <2>3. Owned(r0, b)  BY <1>0, <2>1 DEF Structure, BitsOwned
    <2>4. parent_graph[n] = parent_graph[r0] /\ node_id[n] = b
        <3>1. PICK g : g = parent_graph[r0]  OBVIOUS
        <3>2. PICK i : i = b + 1  OBVIOUS
        <3>3. g \in Graphs /\ i \in DOMAIN g_nodes[g] /\ n = g_nodes[g][i]
            BY <2>1, <2>3, <3>1, <3>2 DEF Owned, get_node
        <3>4. g \in AllGraphs  BY <3>3 DEF AllGraphs
        <3>5. parent_graph[n] = g /\ node_id[n] = i - 1
            BY <3>3, <3>4 DEF Structure, GraphLists
        <3>6. i - 1 = b  BY <2>2, <3>2
        <3> QED  BY <3>1, <3>5, <3>6
    <2>5. fast_down_strams_bak[r0] # fast_down_strams_bak_init
        BY <2>1 DEF fast_down_strams_bak_init
    <2>6. Working(r0, {"fast"})  BY <1>0 DEF Working
    <2>7. IsFast(r0, n)  BY <2>2, <2>4 DEF IsFast
    <2>8. FastOpen(r0, n)  BY <2>1, <2>4, <2>5, <2>6, <2>7 DEF FastOpen
    <2>9. ~FastOpen(r0, n)'
        BY <1>0, <1>4, <2>1, <2>4, <2>5 DEF FastOpen, fast_down_strams_bak_init
    <2> QED  BY <2>0, <2>4, <2>8, <2>9
<1>6. Counts'
    <2> SUFFICES ASSUME NEW n \in Nodes, Linked(n)'
                 PROVE  Fits(Reasons(n), wait_count[n])'
        BY DEF Counts
    <2>1. Linked(n) /\ Fits(Reasons(n), wait_count[n])
        BY <1>1 DEF LinkedSame, Edges, Counts
    <2>2. /\ wait_count'[n] = wait_count[n] - Hits(ds, n, Len(ds)) /\ wait_count[n] \in Int
        BY <1>d, NotifyEffect DEF Types, NodeTypes
    <2>3. SameReasons(n)
        <3>1. \A r \in Nodes : FastOpen(r, n)' => IsFast(r, n)
            BY <1>0 DEF FastOpen, IsFast
        <3> QED  BY <1>0, <1>1, <1>4, <3>1, QuietReasons
    <2>4. CASE \A k \in DOMAIN ds : ds[k] # n
        <3>1. Hits(ds, n, Len(ds)) = 0  BY <1>d, <2>4, HitsBound
        <3>2. wait_count'[n] = wait_count[n]  BY <2>2, <3>1
        <3> QED  BY <2>1, <2>3, <3>2, ReasonsSame
    <2>5. CASE \E k \in DOMAIN ds : ds[k] = n
        <3>1. PICK k \in DOMAIN ds : ds[k] = n  BY <2>5
        <3>2. {i \in 1 .. Len(ds) : ds[i] = n} = {k}
            <4>1. ASSUME NEW i \in DOMAIN ds, ds[i] = n PROVE i = k
                <5>1. ids[i] = ids[k]  BY <1>5, <3>1, <4>1
                <5>2. ~(i < k) /\ ~(k < i)
                    <6>0. fast_down_strams_bak[r0] \subseteq 0 .. fast_node_max_num
                        BY DEF Types, NodeTypes, NodeBits, Bits
                    <6>1. ids[i] \in Nat /\ ids[k] \in Nat
                        BY <1>d, <3>1, <4>1, <6>0, BoundAssumption
                    <6> QED  BY <1>d, <5>1, <6>1
                <5>3. i \in Nat /\ k \in Nat  BY <1>d
                <5> QED  BY <5>2, <5>3
            <4> QED  BY <1>d, <3>1, <4>1
        <3>3. Hits(ds, n, Len(ds)) = 1  BY <3>2, FS_Singleton DEF Hits
        <3>4. wait_count'[n] = wait_count[n] - 1  BY <2>2, <3>3
        <3>5. FastOpen(r0, n) /\ ~FastOpen(r0, n)'  BY <1>5, <3>1
        <3>6. Open(n, r0, 0) /\ r0 \in 0 .. MaxNodes  BY <1>0, <3>5 DEF Open, Nodes
        <3>7. LessReasons(n, r0, 0)
            <4> SUFFICES ASSUME NEW r \in 0 .. MaxNodes, NEW i \in Nat, Open(n, r, i)'
                         PROVE  Open(n, r, i) /\ ~(r = r0 /\ i = 0)
                BY DEF LessReasons
            <4>1. Open(n, r, i)  BY <2>3 DEF SameReasons
            <4>2. ~(r = r0 /\ i = 0)
                <5>1. r0 # 0 /\ down_streams[r0] \in Seq(Nodes)
                    BY <1>0 DEF Nodes, Types, NodeTypes
                <5>2. 0 \notin DOMAIN down_streams[r0]  BY <5>1
                <5> QED  BY <1>0, <3>5, <5>1, <5>2 DEF Open
            <4> QED  BY <4>1, <4>2
        <3> QED  BY <2>1, <3>4, <3>6, <3>7, ReasonsLess
    <2> QED  BY <2>4, <2>5
<1> QED  BY <1>1, <1>3, <1>6 DEF Edges

\* The nodes in down_streams are counted down, as often as they are in it.
LEMMA NotifyDownEdges ==
    ASSUME EdgeInv, NEW w \in Workers, NotifyDown(w)
    PROVE  Edges'
<1> USE DEF EdgeInv, LifeInv
<1>r. PICK r0 \in Nodes : r0 = task[w]
    BY DEF NotifyDown, WGo, Types, WorkerTypes
<1>e. PICK ds : ds = down_streams[r0]
    OBVIOUS
<1>0. /\ w_pc[w] = "down" /\ w_pc' = [w_pc EXCEPT ![w] = "leave"] /\ r0 = task[w]
      /\ UNCHANGED <<status, parent_graph, node_id, fast_down_strams, fast_down_strams_bak,
                     down_streams, clientVars, task, made, required>>
    BY <1>r DEF NotifyDown, WGo, Types, WorkerTypes, boundVars
<1>d. ds \in Seq(Nodes) /\ Notify(w, ds)
    BY <1>0, <1>e DEF NotifyDown, Types, NodeTypes
<1>1. Named' /\ Asked' /\ Pushed' /\ LinkersSame /\ LinkedSame
    BY <1>0, WorkerRest
<1>2. \A v \in Workers \ {w} : w_pc'[v] = w_pc[v] /\ (w_pc[v] # "idle" => task[v] # r0)
    <2>1. \A v \in Workers \ {w} : ~Doing(v, r0)  BY <1>0, OwnTask
    <2> QED  BY <1>0, <2>1 DEF Doing, Types, WorkerTypes
<1>3. TakenOnce'
    <2>1. \A v \in Workers : w_pc'[v] = "take_bak" => w_pc[v] = "take_bak"
        BY <1>0 DEF Types, WorkerTypes
    <2> QED  BY <1>0, <2>1, QuietTaken DEF Edges
<1>4. EndsStay /\ SlowOpen(r0) /\ ~SlowOpen(r0)'
    <2>1. \A v \in Workers : \A r : (w_pc'[v] \in {"take_bak", "fast", "down"} /\ task'[v] = r)
                    => (w_pc[v] \in {"take_bak", "fast", "down"} /\ task[v] = r /\ r # r0)
        BY <1>0, <1>2 DEF Types, WorkerTypes
    <2>2. \A v \in Workers : w_pc'[v] = "fast" => w_pc[v] = "fast"
        BY <1>0 DEF Types, WorkerTypes
    <2>3. status[r0] \in Ended  BY <1>0 DEF Placement, Started, Leaving, Ended
    <2>4. Working(r0, {"take_bak", "fast", "down"})  BY <1>0 DEF Working
    <2>5. ~Working(r0, {"take_bak", "fast", "down"})'  BY <2>1 DEF Working
    <2>6. SlowOpen(r0) /\ ~SlowOpen(r0)'  BY <1>0, <2>3, <2>4, <2>5 DEF SlowOpen
    <2> QED  BY <1>0, <2>1, <2>2, <2>6 DEF EndsStay, SlowOpen, Working
<1>6. Counts'
    <2> SUFFICES ASSUME NEW n \in Nodes, Linked(n)'
                 PROVE  Fits(Reasons(n), wait_count[n])'
        BY DEF Counts
    <2>1. Linked(n) /\ Fits(Reasons(n), wait_count[n])
        BY <1>1 DEF LinkedSame, Edges, Counts
    <2>2. /\ wait_count'[n] = wait_count[n] - Hits(ds, n, Len(ds)) /\ wait_count[n] \in Int
          /\ Hits(ds, n, Len(ds)) \in Nat
        BY <1>d, NotifyEffect, HitsBound DEF Types, NodeTypes
    <2>3. SameReasons(n)
        <3>1. \A r \in Nodes : FastOpen(r, n)' => IsFast(r, n)
            BY <1>0 DEF FastOpen, IsFast
        <3> QED  BY <1>0, <1>1, <1>4, <3>1, QuietReasons
    <2> DEFINE I == {i \in 1 .. Len(ds) : ds[i] = n}
               H == {<<r0, i>> : i \in I}
    <2>4. H \subseteq Reasons(n)
        <3> SUFFICES ASSUME NEW i \in I PROVE <<r0, i>> \in Reasons(n)  OBVIOUS
        <3>1. i \in DOMAIN ds /\ ds[i] = n /\ i \in Nat /\ r0 \in 0 .. MaxNodes
            BY <1>0, <1>d DEF Nodes
        <3>2. Open(n, r0, i)  BY <1>0, <1>e, <1>4, <3>1 DEF Open
        <3> QED  BY <3>1, <3>2 DEF Reasons
    <2>5. Reasons(n)' \subseteq Reasons(n) \ H
        <3> SUFFICES ASSUME NEW r \in 0 .. MaxNodes, NEW i \in Nat, Open(n, r, i)'
                     PROVE  <<r, i>> \in Reasons(n) \ H
            BY DEF Reasons
        <3>1. <<r, i>> \in Reasons(n)  BY <2>3 DEF SameReasons, Reasons
        <3>2. r = r0 => i \notin I
            <4>1. r0 # 0  BY <1>0 DEF Nodes
            <4>2. i \in I => i \in DOMAIN down_streams[r0] /\ i # 0  BY <1>d, <1>e
            <4> QED  BY <1>0, <1>4, <4>1, <4>2 DEF Open
        <3> QED  BY <3>1, <3>2
    <2>6. Hits(ds, n, Len(ds)) <= Cardinality(H)
        <3>1. IsFiniteSet(H)  BY <2>1, <2>4, FS_Subset DEF Fits
        <3>2. [i \in I |-> <<r0, i>>] \in Injection(I, H)
            BY DEF Injection, IsInjective
        <3>3. Cardinality(I) <= Cardinality(H)  BY <3>1, <3>2, FS_Injection
        <3> QED  BY <3>3 DEF Hits
    <2> DEFINE h == Hits(ds, n, Len(ds))
    <2> HIDE DEF h, H, I
    <2>7. Fits(Reasons(n)', wait_count[n] - h)
        <3>1. h \in Nat /\ h <= Cardinality(H) /\ wait_count[n] \in Int  BY <2>2, <2>6 DEF h
        <3> QED  BY <2>1, <2>4, <2>5, <3>1, FitsMinus
    <2>8. wait_count'[n] = wait_count[n] - h  BY <2>2 DEF h
    <2> QED  BY <2>7, <2>8 DEF Fits
<1> QED  BY <1>1, <1>3, <1>6 DEF Edges

-----------------------------------------------------------------------------
(* A client that links its node: the other nodes *)

\* A step of c alone, which leaves the nodes' states and places as they are.
ClientStep(c) ==
    /\ UNCHANGED <<status, parent_graph, node_id, fast_down_strams_bak, new_node,
                   w_pc, task, made, required>>
    /\ \A d \in Clients \ {c} :
          c_pc'[d] = c_pc[d] /\ todo'[d] = todo[d] /\ reg'[d] = reg[d]

\* c goes on with add_downstream for the same required node, or with the next.
LinkStep(c) ==
    /\ c_pc[c] \in Linking /\ ClientStep(c)
    /\ \/ c_pc'[c] \in Linking /\ todo'[c] = todo[c]
       \/ /\ c_pc'[c] = IF Len(todo[c]) = 1 THEN "idle" ELSE "edge"
          /\ todo'[c] = Tail(todo[c])

\* A step of add_downstream changes the state of no node and no worker.
LEMMA LinkRest ==
    ASSUME EdgeInv, NEW c \in Clients, LinkStep(c)
    PROVE  /\ Named' /\ TakenOnce' /\ Asked' /\ Linked(new_node[c])
           /\ \A n \in Nodes : Linked(n)' <=> Linked(n)
           /\ \A r, n : IsFast(r, n)' <=> IsFast(r, n)
           /\ \A r : SlowOpen(r)' <=> SlowOpen(r)
           /\ \A r : Working(r, {"fast"})' <=> Working(r, {"fast"})
<1> USE DEF EdgeInv, LifeInv, Edges
<1>1. Named'  BY DEF Named, LinkStep, ClientStep
<1>2. TakenOnce'  BY DEF TakenOnce, LinkStep, ClientStep
<1>3. Asked'  BY DEF Asked, LinkStep, ClientStep, Linking
<1>4. c_pc[c] \notin Early /\ c_pc'[c] \notin Early  BY DEF LinkStep, ClientStep, Linking, Early
<1>5. Linked(new_node[c])
    <2>1. new_node[c] \in 1 .. made /\ parent_graph[new_node[c]] \in Graphs
        BY InCall DEF LinkStep, ClientStep, Structure, Belongs, Linking
    <2>2. ASSUME NEW d \in Clients, new_node[d] = new_node[c] PROVE c_pc[d] \notin Early
        BY <1>4, <2>2 DEF Structure, Distinct, LinkStep, ClientStep, Linking, Early
    <2> QED  BY <2>1, <2>2 DEF Linked, Committed
<1>6. \A n \in Nodes : Linked(n)' <=> Linked(n)
    <2>1. \A d \in Clients : c_pc'[d] \in Early <=> c_pc[d] \in Early
        BY <1>4 DEF LinkStep, ClientStep
    <2> QED  BY <2>1 DEF LinkStep, ClientStep, Linked, Committed
<1>7. \A r, n : IsFast(r, n)' <=> IsFast(r, n)  BY DEF LinkStep, ClientStep, IsFast
<1>8. /\ \A r : SlowOpen(r)' <=> SlowOpen(r)
      /\ \A r : Working(r, {"fast"})' <=> Working(r, {"fast"})
    BY DEF LinkStep, ClientStep, SlowOpen, Working
<1> QED  BY <1>1, <1>2, <1>3, <1>5, <1>6, <1>7, <1>8

\* Nothing that is c's doing for its new node is a reason for another one.
NoNewBit(n) == \A r \in Nodes : IsFast(r, n) /\ HasBit(r, n)' => HasBit(r, n)
SameDown(n) == \A r \in Nodes :
    /\ \A i \in DOMAIN down_streams'[r] : down_streams'[r][i] = n =>
          i \in DOMAIN down_streams[r] /\ down_streams[r][i] = n
    /\ \A i \in DOMAIN down_streams[r] : down_streams[r][i] = n =>
          i \in DOMAIN down_streams'[r] /\ down_streams'[r][i] = n

\* What holds another node up stays what it was.
LEMMA LinkOthers ==
    ASSUME EdgeInv, NEW c \in Clients, ClientStep(c), NEW n \in Nodes, n # new_node[c],
           Linked(n), NoNewBit(n), SameDown(n), wait_count'[n] = wait_count[n]
    PROVE  /\ Fits(Reasons(n), wait_count[n])'
           /\ \A r \in required[n] :
                 status[r] \notin Ended /\ ~IsFast(r, n) /\ ~Ahead(n, r)' =>
                    \E i \in DOMAIN down_streams'[r] : down_streams'[r][i] = n
<1> USE DEF EdgeInv, LifeInv, Edges
<1>1. /\ \A d \in Clients : Creating(d, n)' <=> Creating(d, n)
      /\ \A d \in Clients : Creating(d, n) => Left(d)' = Left(d) /\ todo'[d] = todo[d]
    BY DEF LinkStep, ClientStep, Creating, Left
<1>2. \A r : Ahead(n, r)' <=> Ahead(n, r)  BY <1>1 DEF Ahead
<1>3. ASSUME NEW r, NEW d \in Clients
      PROVE  /\ At(d, n, r, "read_bak")' <=> At(d, n, r, "read_bak")
             /\ At(d, n, r, "bit_load")' <=> At(d, n, r, "bit_load")
    BY DEF ClientStep, At
<1>4. /\ \A r : IsFast(r, n)' <=> IsFast(r, n)
      /\ \A r : SlowOpen(r)' <=> SlowOpen(r)
      /\ \A r : Working(r, {"fast"})' <=> Working(r, {"fast"})
    BY DEF ClientStep, IsFast, SlowOpen, Working
<1>5. ASSUME NEW r \in Nodes, FastOpen(r, n)' PROVE FastOpen(r, n)
    <2>1. IsFast(r, n) /\ (HasBit(r, n)' => HasBit(r, n))
        BY <1>4, <1>5 DEF FastOpen, NoNewBit
    <2>2. UNCHANGED <<status, node_id, fast_down_strams_bak, required>>  BY DEF LinkStep,
        ClientStep
    <2> QED  BY <1>2, <1>3, <1>4, <1>5, <2>1, <2>2 DEF FastOpen, fast_down_strams_bak_init
<1>6. SameReasons(n)
    <2> SUFFICES ASSUME NEW r \in 0 .. MaxNodes, NEW i \in Nat, Open(n, r, i)'
                 PROVE  Open(n, r, i)
        BY DEF SameReasons
    <2>1. CASE r = 0 /\ \E d \in Clients : Creating(d, n)' /\ i \in 1 .. Left(d)'
        BY <1>1, <2>1 DEF Open
    <2>2. CASE r \in Nodes /\ i = 0 /\ FastOpen(r, n)'
        BY <1>5, <2>2 DEF Open
    <2>3. CASE r \in Nodes /\ i \in DOMAIN down_streams'[r] /\ down_streams'[r][i] = n /\ SlowOpen(r)'
        BY <1>4, <2>3 DEF Open, SameDown
    <2> QED  BY <2>1, <2>2, <2>3 DEF Open
<1>7. Fits(Reasons(n), wait_count[n])'  BY <1>6, ReasonsSame DEF Counts
<1>8. ASSUME NEW r \in required[n], status[r] \notin Ended, ~IsFast(r, n), ~Ahead(n, r)'
      PROVE  \E i \in DOMAIN down_streams'[r] : down_streams'[r][i] = n
    <2>1. r \in Nodes  BY DEF Types, NodeTypes
    <2>2. PICK i \in DOMAIN down_streams[r] : down_streams[r][i] = n
        BY <1>2, <1>8 DEF Pushed
    <2> QED  BY <2>1, <2>2 DEF SameDown
<1> QED  BY <1>7, <1>8

-----------------------------------------------------------------------------
(* A client that links its node: that node *)

\* How an edge by bitmap can become open: the bit is stored, add_downstream
\* stands before its last look at r, or it has gone on from r.
NewlyOpen(c, n, r) ==
    \/ HasBit(r, n)' /\ ~HasBit(r, n)
    \/ c_pc'[c] = "read_bak" /\ r = Head(todo[c])
    \/ /\ status[r] \notin Ended /\ r \in required[n] /\ r = Head(todo[c])
       /\ todo'[c] = Tail(todo[c]) /\ c_pc'[c] \in {"edge", "idle"}
    \/ /\ fast_down_strams_bak[r] # fast_down_strams_bak_init
       /\ r = Head(todo[c]) /\ c_pc'[c] = "bit_load"

\* Only its creator is linking a node; what it has still to look at goes down by
\* the first.
LEMMA LinkOwn ==
    ASSUME EdgeInv, NEW c \in Clients, LinkStep(c), NEW n \in Nodes, n = new_node[c],
           NEW r \in Nodes
    PROVE  /\ \A d \in Clients : Creating(d, n)' => d = c /\ c_pc'[c] \in Linking
           /\ FastOpen(r, n)' => IsFast(r, n) /\ (FastOpen(r, n) \/ NewlyOpen(c, n, r))
           /\ ~Ahead(n, r)' => \/ ~Ahead(n, r)
                               \/ /\ r = Head(todo[c]) /\ todo'[c] = Tail(todo[c])
                                  /\ c_pc'[c] \in {"edge", "idle"}
<1> USE DEF EdgeInv, LifeInv, Edges
<1>1. Creating(c, n) /\ \A d \in Clients \ {c} : ~Creating(d, n) /\ ~Creating(d, n)'
    BY DEF LinkStep, ClientStep, Creating, Structure, Distinct, Linking
<1>2. ASSUME NEW d \in Clients, Creating(d, n)' PROVE d = c /\ c_pc'[c] \in Linking
    BY <1>1, <1>2 DEF Creating
<1>3. ASSUME NEW d \in Clients, NEW pc \in Linking, At(d, n, r, pc)'
      PROVE  d = c /\ c_pc'[c] = pc /\ r = Head(todo'[c])
    <2>1. Creating(d, n)'  BY <1>3 DEF At, Creating
    <2>2. d = c  BY <1>2, <2>1
    <2> QED  BY <1>3, <2>2 DEF At
<1>4. ~Ahead(n, r)' => \/ ~Ahead(n, r)
                       \/ /\ r = Head(todo[c]) /\ todo'[c] = Tail(todo[c])
                          /\ c_pc'[c] \in {"edge", "idle"}
    <2> SUFFICES ASSUME ~Ahead(n, r)', Ahead(n, r)
                 PROVE  /\ r = Head(todo[c]) /\ todo'[c] = Tail(todo[c])
                        /\ c_pc'[c] \in {"edge", "idle"}
        OBVIOUS
    <2>1. PICK i \in DOMAIN todo[c] : todo[c][i] = r  BY <1>1 DEF Ahead
    <2>2. CASE c_pc'[c] \in Linking /\ todo'[c] = todo[c]
        <3>1. Creating(c, n)'  BY <2>2 DEF LinkStep, ClientStep, Creating
        <3> QED  BY <2>1, <2>2, <3>1 DEF Ahead
    <2>3. CASE /\ c_pc'[c] = IF Len(todo[c]) = 1 THEN "idle" ELSE "edge"
               /\ todo'[c] = Tail(todo[c])
        <3>1. /\ todo[c] \in Seq(Nodes \cup {nullptr}) /\ Head(todo[c]) = todo[c][1]
            BY HeadOfTodo DEF LinkStep, ClientStep
        <3>2. CASE i = 1  BY <2>1, <2>3, <3>1, <3>2
        <3>3. CASE i # 1
            <4>1. /\ i - 1 \in DOMAIN Tail(todo[c]) /\ Tail(todo[c])[i - 1] = r
                  /\ Len(todo[c]) # 1
                BY <2>1, <3>1, <3>3
            <4>2. c_pc'[c] = "edge" => Creating(c, n)'
                BY DEF LinkStep, ClientStep, Creating, Linking
            <4>3. c_pc'[c] = "edge"
                BY <2>3, <4>1
            <4> QED  BY <2>3, <4>1, <4>2, <4>3 DEF Ahead
        <3> QED  BY <3>2, <3>3
    <2> QED  BY <2>2, <2>3 DEF LinkStep, ClientStep
<1>5. ASSUME FastOpen(r, n)' PROVE IsFast(r, n) /\ (FastOpen(r, n) \/ NewlyOpen(c, n, r))
    <2>1. IsFast(r, n) /\ (Working(r, {"fast"})' => Working(r, {"fast"}))
        BY <1>5, LinkRest DEF FastOpen
    <2>2. UNCHANGED <<status, node_id, fast_down_strams_bak, required>>  BY DEF LinkStep,
        ClientStep
    <2>3. (\E d \in Clients : At(d, n, r, "read_bak")') => c_pc'[c] = "read_bak" /\ r = Head(todo[c])
        BY <1>3 DEF LinkStep, ClientStep, Linking
    <2>4. (\E d \in Clients : At(d, n, r, "bit_load")') => c_pc'[c] = "bit_load" /\ r = Head(todo[c])
        BY <1>3 DEF LinkStep, ClientStep, Linking
    <2> QED  BY <1>4, <1>5, <2>1, <2>2, <2>3, <2>4
             DEF FastOpen, NewlyOpen, fast_down_strams_bak_init
<1> QED  BY <1>2, <1>4, <1>5

\* The edge from the first required node is no longer the call's to make: it
\* holds nothing up, is a fast one, or is in down_streams.
Settled(c, n) == c_pc'[c] \in {"edge", "idle"} => LET r == Head(todo[c]) IN
    \/ r \in {nullptr, n} \/ status[r] \in Ended \/ IsFast(r, n)
    \/ \E i \in DOMAIN down_streams'[r] : down_streams'[r][i] = n
DownGrows == \A r \in Nodes : \A i \in DOMAIN down_streams[r] :
    i \in DOMAIN down_streams'[r] /\ down_streams'[r][i] = down_streams[r][i]

\* A step of add_downstream keeps the edges if it settles the first required
\* node, leaves the other nodes alone and counts right for the new one.
LEMMA LinkEdges ==
    ASSUME EdgeInv, NEW c \in Clients, LinkStep(c), NEW n \in Nodes, n = new_node[c],
           \A m \in Nodes : m # n /\ Linked(m) =>
               NoNewBit(m) /\ SameDown(m) /\ wait_count'[m] = wait_count[m],
           DownGrows, Settled(c, n), Fits(Reasons(n), wait_count[n])'
    PROVE  Edges'
<1> USE DEF EdgeInv, LifeInv, Edges
<1>1. Named' /\ TakenOnce' /\ Asked' /\ Linked(n)  BY LinkRest
<1>2. /\ \A m \in Nodes : Linked(m)' => Linked(m)
      /\ \A r, m : IsFast(r, m)' <=> IsFast(r, m)
    BY LinkRest
<1>3. Counts'
    <2> SUFFICES ASSUME NEW m \in Nodes, Linked(m)'
                 PROVE  Fits(Reasons(m), wait_count[m])'
        BY DEF Counts
    <2>1. CASE m = n  BY <2>1
    <2>2. CASE m # n  BY <1>2, <2>2, LinkOthers DEF LinkStep
    <2> QED  BY <2>1, <2>2
<1>4. ASSUME NEW r \in required[n], status[r] \notin Ended, ~IsFast(r, n), ~Ahead(n, r)'
      PROVE  \E i \in DOMAIN down_streams'[r] : down_streams'[r][i] = n
    <2>1. r \in Nodes /\ r # n /\ r # nullptr  BY DEF Types, NodeTypes, Named, Nodes, nullptr
    <2>2. CASE ~Ahead(n, r)
        <3>1. PICK i \in DOMAIN down_streams[r] : down_streams[r][i] = n
            BY <1>1, <1>4, <2>2 DEF Pushed
        <3> QED  BY <2>1, <3>1 DEF DownGrows
    <2>3. CASE r = Head(todo[c]) /\ c_pc'[c] \in {"edge", "idle"}
        BY <1>4, <2>1, <2>3 DEF Settled
    <2> QED  BY <1>4, <2>1, <2>2, <2>3, LinkOwn
<1>5. Pushed'
    <2> SUFFICES ASSUME NEW m \in Nodes, Linked(m)', NEW r \in required'[m],
                        status'[r] \notin Ended, ~IsFast(r, m)', ~Ahead(m, r)'
                 PROVE  \E i \in DOMAIN down_streams'[r] : down_streams'[r][i] = m
        BY DEF Pushed
    <2>1. r \in required[m] /\ status[r] \notin Ended /\ ~IsFast(r, m) /\ Linked(m)
        BY <1>2 DEF LinkStep, ClientStep
    <2>2. CASE m = n  BY <1>4, <2>1, <2>2
    <2>3. CASE m # n  BY <2>1, <2>3, LinkOthers DEF LinkStep
    <2> QED  BY <2>2, <2>3
<1> QED  BY <1>1, <1>3, <1>5

FastSame(n) == \A r \in Nodes : FastOpen(r, n)' => FastOpen(r, n)

\* The counts of the new node when no edge becomes open.
LEMMA OwnCount ==
    ASSUME EdgeInv, NEW c \in Clients, LinkStep(c), NEW n \in Nodes, n = new_node[c],
           FastSame(n), UNCHANGED down_streams,
           \/ /\ c_pc'[c] \in Linking => Left(c)' <= Left(c)
              /\ wait_count'[n] = wait_count[n]
           \/ /\ c_pc[c] # "read_bak"
              /\ c_pc'[c] \in Linking => Left(c)' <= Left(c) - 1
              /\ wait_count'[n] = wait_count[n] - 1
    PROVE  Fits(Reasons(n), wait_count[n])'
<1> USE DEF EdgeInv, LifeInv, Edges
<1>0. /\ Linked(n) /\ Creating(c, n) /\ Len(todo[c]) \in Nat \ {0}
      /\ \A r : SlowOpen(r)' <=> SlowOpen(r)
    BY LinkRest, HeadOfTodo DEF Creating, LinkStep, ClientStep
<1>l. Left(c) \in Int  BY <1>0 DEF Left
<1>1. ASSUME NEW r \in 0 .. MaxNodes, NEW i \in Nat, Open(n, r, i)'
      PROVE  \/ r = 0 /\ c_pc'[c] \in Linking /\ i \in 1 .. Left(c)'
             \/ r \in Nodes /\ i = 0 /\ FastOpen(r, n)
             \/ /\ r \in Nodes /\ i \in DOMAIN down_streams[r] /\ down_streams[r][i] = n
                /\ SlowOpen(r)
    <2>1. CASE r = 0 /\ \E d \in Clients : Creating(d, n)' /\ i \in 1 .. Left(d)'
        <3>1. 1 \in Nodes  BY BoundAssumption DEF Nodes
        <3>2. PICK d \in Clients : Creating(d, n)' /\ i \in 1 .. Left(d)'  BY <2>1
        <3>3. d = c /\ c_pc'[c] \in Linking  BY <3>1, <3>2, LinkOwn
        <3> QED  BY <2>1, <3>2, <3>3
    <2>2. CASE r \in Nodes /\ i = 0 /\ FastOpen(r, n)'
        BY <2>2 DEF FastSame
    <2>3. CASE r \in Nodes /\ i \in DOMAIN down_streams'[r] /\ down_streams'[r][i] = n /\ SlowOpen(r)'
        BY <1>0, <2>3
    <2> QED  BY <1>1, <2>1, <2>2, <2>3 DEF Open
<1>t. Left(c)' \in Int
    <2>1. todo'[c] \in Seq(Nodes \cup {nullptr})
        BY HeadOfTodo DEF LinkStep, ClientStep
    <2> QED  BY <2>1 DEF Left
<1>2. CASE (c_pc'[c] \in Linking => Left(c)' <= Left(c)) /\ wait_count'[n] = wait_count[n]
    <2>1. SameReasons(n)
        <3> SUFFICES ASSUME NEW r \in 0 .. MaxNodes, NEW i \in Nat, Open(n, r, i)'
                     PROVE  Open(n, r, i)
            BY DEF SameReasons
        <3>1. c_pc'[c] \in Linking /\ i \in 1 .. Left(c)' => i \in 1 .. Left(c)
            BY <1>2, <1>l, <1>t
        <3> QED  BY <1>0, <1>1, <3>1 DEF Open
    <2> QED  BY <1>0, <1>2, <2>1, ReasonsSame DEF Counts
<1>3. CASE /\ c_pc[c] # "read_bak"
           /\ c_pc'[c] \in Linking => Left(c)' <= Left(c) - 1
           /\ wait_count'[n] = wait_count[n] - 1
    <2> DEFINE k == Len(todo[c])
    <2>1. Left(c) = k /\ k \in Nat /\ k # 0  BY <1>0, <1>3 DEF Left
    <2>2. Open(n, 0, k)  BY <1>0, <2>1 DEF Open
    <2>3. PICK l \in Nat : l = k  BY <2>1
    <2> HIDE DEF k
    <2>4. LessReasons(n, 0, l)
        <3> SUFFICES ASSUME NEW r \in 0 .. MaxNodes, NEW i \in Nat, Open(n, r, i)'
                     PROVE  Open(n, r, i) /\ ~(r = 0 /\ i = l)
            BY DEF LessReasons
        <3>1. c_pc'[c] \in Linking /\ i \in 1 .. Left(c)' => i \in 1 .. Left(c) /\ i # l
            BY <1>3, <1>l, <1>t, <2>1, <2>3
        <3>2. 0 \notin Nodes  BY DEF Nodes
        <3> QED  BY <1>0, <1>1, <3>1, <3>2 DEF Open
    <2>5. 0 \in 0 .. MaxNodes  BY BoundAssumption
    <2> QED  BY <1>0, <1>3, <2>1, <2>2, <2>3, <2>4, <2>5, ReasonsLess DEF Counts
<1> QED  BY <1>2, <1>3

-----------------------------------------------------------------------------
(* A client that links its node, step by step *)

\* The call for the first required node returns, or goes on.
LEMMA NextLink ==
    ASSUME Types, NEW c \in Clients, NEW from \in Linking, NextEdge(c, from),
           UNCHANGED <<status, parent_graph, node_id, fast_down_strams_bak, new_node, reg,
                       w_pc, task, made, required>>
    PROVE  /\ LinkStep(c) /\ c_pc[c] = from /\ c_pc'[c] \in {"edge", "idle"}
           /\ Len(todo[c]) \in Nat \ {0}
           /\ c_pc'[c] \in Linking => Left(c)' = Len(todo[c]) - 1
<1>1. /\ c_pc[c] = from /\ from \in Linking
      /\ c_pc' = [c_pc EXCEPT ![c] = IF Len(todo[c]) = 1 THEN "idle" ELSE "edge"]
      /\ todo' = [todo EXCEPT ![c] = Tail(@)]
    BY DEF NextEdge, CGo
<1>2. /\ \A d \in Clients \ {c} : c_pc'[d] = c_pc[d] /\ todo'[d] = todo[d]
      /\ c_pc'[c] = IF Len(todo[c]) = 1 THEN "idle" ELSE "edge"
      /\ todo'[c] = Tail(todo[c])
    BY <1>1 DEF Types, ClientTypes
<1>3. Len(todo[c]) \in Nat \ {0} /\ Len(Tail(todo[c])) = Len(todo[c]) - 1
    BY <1>1, HeadOfTodo
<1>4. LinkStep(c)  BY <1>1, <1>2 DEF LinkStep, ClientStep
<1>5. c_pc'[c] \in Linking => Left(c)' = Len(todo[c]) - 1
    BY <1>2, <1>3 DEF Left, Linking
<1> QED  BY <1>1, <1>2, <1>3, <1>4, <1>5

\* The call for the first required node is at another point.
LEMMA StayLink ==
    ASSUME Types, NEW c \in Clients, NEW from \in Linking, NEW to \in Linking, CGo(c, from, to),
           UNCHANGED <<status, parent_graph, node_id, fast_down_strams_bak, new_node, todo,
                       w_pc, task, made, required>>,
           \A d \in Clients \ {c} : reg'[d] = reg[d]
    PROVE  /\ LinkStep(c) /\ c_pc[c] = from /\ c_pc'[c] = to
           /\ Len(todo[c]) \in Nat \ {0}
<1>1. c_pc[c] = from /\ c_pc' = [c_pc EXCEPT ![c] = to]  BY DEF CGo
<1>2. c_pc'[c] = to /\ \A d \in Clients \ {c} : c_pc'[d] = c_pc[d]
    BY <1>1 DEF Types, ClientTypes
<1>3. Len(todo[c]) \in Nat \ {0}  BY <1>1, HeadOfTodo
<1>4. LinkStep(c)  BY <1>1, <1>2 DEF LinkStep, ClientStep
<1> QED  BY <1>1, <1>2, <1>3, <1>4

\* The stores a step makes do not touch the edges of other nodes.
LEMMA SameOthers ==
    ASSUME NEW c \in Clients, LinkStep(c), UNCHANGED fast_down_strams,
           c_pc'[c] # "bit_store", UNCHANGED down_streams
    PROVE  /\ \A r, m : HasBit(r, m)' => HasBit(r, m)
           /\ \A m : NoNewBit(m) /\ SameDown(m)
           /\ DownGrows
<1>1. \A r, m : HasBit(r, m)' => HasBit(r, m)
    BY DEF HasBit, LinkStep, ClientStep
<1>2. \A m : NoNewBit(m)  BY <1>1 DEF NoNewBit
<1>3. \A m : SameDown(m)  BY DEF SameDown
<1>4. DownGrows  BY DEF DownGrows
<1> QED  BY <1>1, <1>2, <1>3, <1>4

\* What Release does to the counts.
LEMMA ReleaseCount ==
    ASSUME Types, NEW n \in Nodes, Release(n)
    PROVE  /\ wait_count'[n] = wait_count[n] - 1
           /\ \A m \in Nodes : m # n => wait_count'[m] = wait_count[m]
BY DEF Release, Types, NodeTypes

\* add_downstream finds nothing to wait for.
LEMMA SkipEdgeEdges ==
    ASSUME EdgeInv, NEW c \in Clients, SkipEdge(c)
    PROVE  Edges'
<1> USE DEF EdgeInv, LifeInv, Edges
<1>1. /\ LinkStep(c) /\ c_pc[c] = "edge" /\ c_pc'[c] \in {"edge", "idle"}
      /\ Len(todo[c]) \in Nat \ {0}
      /\ c_pc'[c] \in Linking => Left(c)' = Len(todo[c]) - 1
    BY NextLink DEF SkipEdge, workerVars, boundVars, Linking
<1>2. PICK n \in Nodes : n = new_node[c]  BY <1>1, InCall DEF LinkStep, ClientStep, Linking
<1>3. UNCHANGED <<fast_down_strams, down_streams>> /\ Release(n)  BY <1>2 DEF SkipEdge
<1>4. /\ \A r, m : HasBit(r, m)' => HasBit(r, m)
      /\ \A m : NoNewBit(m) /\ SameDown(m)
      /\ DownGrows
    BY <1>1, <1>3, SameOthers
<1>5. Settled(c, n)  BY <1>2 DEF Settled, SkipEdge, EdgeHolds
<1>6. FastSame(n)
    <2> SUFFICES ASSUME NEW r \in Nodes, FastOpen(r, n)' PROVE FastOpen(r, n)
        BY DEF FastSame
    <2>1. FastOpen(r, n) \/ NewlyOpen(c, n, r)  BY <1>1, <1>2, LinkOwn
    <2>2. ASSUME r \in required[n], r = Head(todo[c]) PROVE status[r] \in Ended
        BY <1>2, <2>2 DEF SkipEdge, EdgeHolds, Named, nullptr, Nodes
    <2> QED  BY <1>1, <1>4, <2>1, <2>2 DEF NewlyOpen
<1>7. Left(c) = Len(todo[c])  BY <1>1 DEF Left
<1>8. /\ c_pc[c] # "read_bak" /\ c_pc'[c] \in Linking => Left(c)' <= Left(c) - 1
      /\ wait_count'[n] = wait_count[n] - 1
      /\ \A m \in Nodes : m # n => wait_count'[m] = wait_count[m]
    BY <1>1, <1>3, <1>7, ReleaseCount
<1>9. Fits(Reasons(n), wait_count[n])'
    BY <1>1, <1>2, <1>3, <1>6, <1>8, OwnCount
<1> QED  BY <1>1, <1>2, <1>4, <1>5, <1>8, <1>9, LinkEdges

\* add_downstream takes one of its two ways.
LEMMA TryEdgeEdges ==
    ASSUME EdgeInv, NEW c \in Clients, TryEdge(c)
    PROVE  Edges'
<1> USE DEF EdgeInv, LifeInv, Edges
<1>1. /\ LinkStep(c) /\ c_pc[c] = "edge" /\ c_pc'[c] \in {"bit_load", "push"}
      /\ Len(todo[c]) \in Nat \ {0}
    <2>1. PICK to \in {"bit_load", "push"} : CGo(c, "edge", to)  BY DEF TryEdge
    <2> QED  BY <2>1, StayLink DEF TryEdge, nodeVars, workerVars, boundVars, Linking
<1>2. PICK n \in Nodes : n = new_node[c]  BY <1>1, InCall DEF LinkStep, ClientStep, Linking
<1>3. UNCHANGED <<fast_down_strams, down_streams, wait_count, todo>>
    BY DEF TryEdge, nodeVars
<1>4. /\ \A r, m : HasBit(r, m)' => HasBit(r, m)
      /\ \A m : NoNewBit(m) /\ SameDown(m)
      /\ DownGrows
    BY <1>1, <1>3, SameOthers
<1>5. Settled(c, n)  BY <1>1 DEF Settled
<1>6. FastSame(n)
    <2> SUFFICES ASSUME NEW r \in Nodes, FastOpen(r, n)' PROVE FastOpen(r, n)
        BY DEF FastSame
    <2>1. FastOpen(r, n) \/ NewlyOpen(c, n, r)  BY <1>1, <1>2, LinkOwn
    <2>2. r = Head(todo[c]) => fast_down_strams_bak[r] = fast_down_strams_bak_init
        BY DEF TryEdge, EdgeHolds, TakenOnce
    <2> QED  BY <1>1, <1>4, <2>1, <2>2 DEF NewlyOpen
<1>7. Left(c) = Len(todo[c]) /\ Left(c)' = Len(todo[c])  BY <1>1, <1>3 DEF Left
<1>8. c_pc'[c] \in Linking => Left(c)' <= Left(c)  BY <1>1, <1>7
<1>9. Fits(Reasons(n), wait_count[n])'
    BY <1>1, <1>2, <1>3, <1>6, <1>8, OwnCount
<1> QED  BY <1>1, <1>2, <1>3, <1>4, <1>5, <1>9, LinkEdges

\* The bit is set already: the new node is counted down again.  Otherwise the
\* bitmap is loaded.
LEMMA BitLoadEdges ==
    ASSUME EdgeInv, NEW c \in Clients, BitLoad(c)
    PROVE  Edges'
<1> USE DEF EdgeInv, LifeInv, Edges
<1>0. PICK r0 \in Nodes : r0 = Head(todo[c])
    BY HeadOfTodo DEF BitLoad, Structure, Tested, Linking, nullptr, Nodes
<1>p. PICK n \in Nodes : n = new_node[c]  BY InCall DEF BitLoad
<1>f. IsFast(r0, n) /\ c_pc[c] = "bit_load"
    BY <1>0, <1>p DEF BitLoad, Structure, Tested
<1>u. UNCHANGED <<fast_down_strams, down_streams, todo>>
    BY DEF BitLoad
<1>1. CASE bit_map_get(fast_down_strams[r0], node_id[n])
    <2>1. CGo(c, "bit_load", "read_bak") /\ Release(n) /\ UNCHANGED reg
        BY <1>0, <1>p, <1>1 DEF BitLoad
    <2>2. /\ LinkStep(c) /\ c_pc[c] = "bit_load" /\ c_pc'[c] = "read_bak"
          /\ Len(todo[c]) \in Nat \ {0}
        BY <2>1, StayLink DEF BitLoad, workerVars, boundVars, Linking
    <2>4. /\ \A r, m : HasBit(r, m)' => HasBit(r, m)
          /\ \A m : NoNewBit(m) /\ SameDown(m)
          /\ DownGrows
        BY <1>u, <2>2, SameOthers
    <2>5. Settled(c, n)  BY <2>2 DEF Settled
    <2>6. FastSame(n)
        <3> SUFFICES ASSUME NEW r \in Nodes, FastOpen(r, n)' PROVE FastOpen(r, n)
            BY DEF FastSame
        <3>1. FastOpen(r, n) \/ NewlyOpen(c, n, r)  BY <1>p, <2>2, LinkOwn
        <3>2. CASE r = r0
            <4>1. HasBit(r, n)  BY <1>1, <3>2 DEF HasBit, bit_map_get
            <4>2. At(c, n, r, "bit_load")  BY <1>0, <1>p, <1>f, <3>2 DEF At
            <4>3. Working(r, {"fast"})' => Working(r, {"fast"})  BY <2>2, LinkRest
            <4>4. UNCHANGED <<fast_down_strams_bak, node_id>>  BY DEF BitLoad
            <4> QED  BY <1>f, <3>2, <4>1, <4>2, <4>3, <4>4 DEF FastOpen,
                fast_down_strams_bak_init
        <3>3. CASE r # r0
            BY <1>0, <2>2, <2>4, <3>1, <3>3 DEF NewlyOpen
        <3> QED  BY <3>2, <3>3
    <2>7. Left(c) = Len(todo[c]) /\ Left(c)' = Len(todo[c]) - 1  BY <1>u, <2>2 DEF Left
    <2>8. /\ c_pc[c] # "read_bak" /\ c_pc'[c] \in Linking => Left(c)' <= Left(c) - 1
          /\ wait_count'[n] = wait_count[n] - 1
          /\ \A m \in Nodes : m # n => wait_count'[m] = wait_count[m]
        BY <2>1, <2>2, <2>7, ReleaseCount
    <2>9. Fits(Reasons(n), wait_count[n])'
        BY <1>p, <1>u, <2>2, <2>6, <2>8, OwnCount
    <2> QED  BY <1>p, <2>2, <2>4, <2>5, <2>8, <2>9, LinkEdges
<1>2. CASE ~bit_map_get(fast_down_strams[r0], node_id[n])
    <2>1. /\ CGo(c, "bit_load", "bit_store") /\ UNCHANGED wait_count
          /\ reg' = [reg EXCEPT ![c] = fast_down_strams[r0]]
        BY <1>0, <1>p, <1>2 DEF BitLoad
    <2>r. reg'[c] = fast_down_strams[r0] /\ \A d \in Clients \ {c} : reg'[d] = reg[d]
        BY <2>1 DEF Types, ClientTypes
    <2>2. /\ LinkStep(c) /\ c_pc[c] = "bit_load" /\ c_pc'[c] = "bit_store"
          /\ Len(todo[c]) \in Nat \ {0}
        BY <2>1, <2>r, StayLink DEF BitLoad, workerVars, boundVars, Linking
    <2>4. /\ \A r, m : HasBit(r, m)' => HasBit(r, m)
          /\ \A m : NoNewBit(m) /\ SameDown(m)
          /\ DownGrows
        <3>1. \A r, m : HasBit(r, m)' => HasBit(r, m)
            BY <1>0, <1>u, <2>r, <2>2 DEF HasBit, LinkStep, ClientStep
        <3> QED  BY <1>u, <3>1 DEF NoNewBit, SameDown, DownGrows
    <2>5. Settled(c, n)  BY <2>2 DEF Settled
    <2>6. FastSame(n)
        <3> SUFFICES ASSUME NEW r \in Nodes, FastOpen(r, n)' PROVE FastOpen(r, n)
            BY DEF FastSame
        <3>1. FastOpen(r, n) \/ NewlyOpen(c, n, r)  BY <1>p, <2>2, LinkOwn
        <3> QED  BY <2>2, <2>4, <3>1 DEF NewlyOpen
    <2>7. Left(c) = Len(todo[c]) /\ Left(c)' = Len(todo[c])  BY <1>u, <2>2 DEF Left
    <2>8. (c_pc'[c] \in Linking => Left(c)' <= Left(c)) /\ wait_count'[n] = wait_count[n]
        BY <2>1, <2>2, <2>7
    <2>9. Fits(Reasons(n), wait_count[n])'
        BY <1>p, <1>u, <2>2, <2>6, <2>8, OwnCount
    <2> QED  BY <1>p, <2>1, <2>2, <2>4, <2>5, <2>9, LinkEdges
<1> QED  BY <1>1, <1>2

\* What may be open of the new node after a step, in terms of the state before.
LEMMA OwnOpen ==
    ASSUME EdgeInv, NEW c \in Clients, LinkStep(c), NEW n \in Nodes, n = new_node[c],
           NEW r \in 0 .. MaxNodes, NEW i \in Nat, Open(n, r, i)'
    PROVE  \/ r = 0 /\ c_pc'[c] \in Linking /\ i \in 1 .. Left(c)'
           \/ r \in Nodes /\ i = 0 /\ FastOpen(r, n)'
           \/ /\ r \in Nodes /\ i \in DOMAIN down_streams'[r] /\ down_streams'[r][i] = n
              /\ SlowOpen(r)
<1>1. CASE r = 0 /\ \E d \in Clients : Creating(d, n)' /\ i \in 1 .. Left(d)'
    <2>1. 1 \in Nodes  BY BoundAssumption DEF Nodes
    <2>2. PICK d \in Clients : Creating(d, n)' /\ i \in 1 .. Left(d)'  BY <1>1
    <2>3. d = c /\ c_pc'[c] \in Linking  BY <2>1, <2>2, LinkOwn
    <2> QED  BY <1>1, <2>2, <2>3
<1>2. CASE r \in Nodes /\ i = 0 /\ FastOpen(r, n)'
    BY <1>2
<1>3. CASE r \in Nodes /\ i \in DOMAIN down_streams'[r] /\ down_streams'[r][i] = n /\ SlowOpen(r)'
    BY <1>3, LinkRest
<1> QED  BY <1>1, <1>2, <1>3 DEF Open

\* The bit of the new node is stored: a place in the list of requirements
\* becomes an edge by bitmap.  The bits of other nodes only get fewer.
LEMMA BitStoreEdges ==
    ASSUME EdgeInv, NEW c \in Clients, BitStore(c)
    PROVE  Edges'
<1> USE DEF EdgeInv, LifeInv, Edges
<1>0. PICK r0 \in Nodes : r0 = Head(todo[c])
    BY HeadOfTodo DEF BitStore, CGo, Structure, Tested, Linking, nullptr, Nodes
<1>p. PICK n \in Nodes : n = new_node[c]  BY InCall DEF BitStore, CGo
<1>1. /\ CGo(c, "bit_store", "read_bak") /\ UNCHANGED <<wait_count, down_streams, todo>>
      /\ fast_down_strams' =
            [fast_down_strams EXCEPT ![r0] = bit_map_set(reg[c], node_id[n])]
      /\ reg' = [reg EXCEPT ![c] = {}]
    BY <1>0, <1>p DEF BitStore
<1>2. /\ LinkStep(c) /\ c_pc[c] = "bit_store" /\ c_pc'[c] = "read_bak"
      /\ Len(todo[c]) \in Nat \ {0}
    <2>1. \A d \in Clients \ {c} : reg'[d] = reg[d]  BY <1>1 DEF Types, ClientTypes
    <2> QED  BY <1>1, <2>1, StayLink DEF BitStore, workerVars, boundVars, Linking
<1>3. /\ IsFast(r0, n) /\ Linked(n)
      /\ \A r \in Nodes : r # r0 => fast_down_strams'[r] = fast_down_strams[r]
      /\ fast_down_strams'[r0] \subseteq reg[c] \cup {node_id[n]}
      /\ \A d \in Clients : c_pc'[d] = "bit_store" => d # c /\ c_pc[d] = "bit_store"
              /\ reg'[d] = reg[d] /\ todo'[d] = todo[d]
    <2>1. IsFast(r0, n)  BY <1>0, <1>p, <1>2 DEF Structure, Tested
    <2>2. Linked(n)  BY <1>p, <1>2, LinkRest
    <2>3. \A d \in Clients : c_pc'[d] = "bit_store" => d # c  BY <1>2
    <2> QED  BY <1>1, <1>2, <2>1, <2>2, <2>3 DEF Types, NodeTypes, bit_map_set, LinkStep,
        ClientStep
<1>4. ASSUME NEW m, NEW r \in Nodes, HasBit(r, m)'
      PROVE  HasBit(r, m) \/ (r = r0 /\ node_id[m] = node_id[n])
    <2>1. node_id' = node_id  BY DEF BitStore
    <2>2. CASE node_id[m] \in fast_down_strams'[r]
        BY <1>0, <1>2, <1>3, <2>2 DEF HasBit
    <2>3. CASE \E d \in Clients :
              c_pc'[d] = "bit_store" /\ Head(todo'[d]) = r /\ node_id[m] \in reg'[d]
        BY <1>3, <2>3 DEF HasBit
    <2> QED  BY <1>4, <2>1, <2>2, <2>3 DEF HasBit
<1>5. ASSUME NEW m \in Nodes, m # n, Linked(m)
      PROVE  NoNewBit(m) /\ SameDown(m) /\ wait_count'[m] = wait_count[m]
    <2>1. SameDown(m) /\ wait_count'[m] = wait_count[m]  BY <1>1 DEF SameDown
    <2>2. ASSUME NEW r \in Nodes, IsFast(r, m), HasBit(r, m)' PROVE HasBit(r, m)
        <3>1. CASE r = r0 /\ node_id[m] = node_id[n]
            <4>1. parent_graph[m] = parent_graph[n] /\ parent_graph[n] \in Graphs
                BY <1>3, <2>2, <3>1 DEF IsFast, Linked
            <4>2. m = n  BY <3>1, <4>1 DEF Structure, InGraph
            <4> QED  BY <1>5, <4>2
        <3> QED  BY <1>4, <2>2, <3>1
    <2> QED  BY <2>1, <2>2 DEF NoNewBit
<1>6. DownGrows /\ Settled(c, n)  BY <1>1, <1>2 DEF DownGrows, Settled
<1>7. Fits(Reasons(n), wait_count[n])'
    <2>1. PICK k \in Nat : k = Len(todo[c]) /\ k # 0  BY <1>2
    <2>2. Left(c) = k /\ Left(c)' = k - 1  BY <1>1, <1>2, <2>1 DEF Left
    <2>3. Open(n, 0, k)
        <3>1. Creating(c, n)  BY <1>p, <1>2 DEF Creating, Linking
        <3> QED  BY <2>1, <2>2, <3>1 DEF Open
    <2>4. SwapReasons(n, 0, k, r0, 0)
        <3> SUFFICES ASSUME NEW r \in 0 .. MaxNodes, NEW i \in Nat, Open(n, r, i)'
                     PROVE  (Open(n, r, i) /\ ~(r = 0 /\ i = k)) \/ (r = r0 /\ i = 0)
            BY DEF SwapReasons
        <3>1. CASE r = 0 /\ i \in 1 .. Left(c)'
            <4>1. i \in 1 .. k /\ i # k  BY <2>1, <2>2, <3>1
            <4>2. Creating(c, n)  BY <1>p, <1>2 DEF Creating, Linking
            <4> QED  BY <2>2, <3>1, <4>1, <4>2 DEF Open
        <3>2. CASE r \in Nodes /\ i = 0 /\ FastOpen(r, n)' /\ r # r0
            <4>1. FastOpen(r, n) \/ NewlyOpen(c, n, r)  BY <1>p, <1>2, <3>2, LinkOwn
            <4>2. FastOpen(r, n)
                BY <1>0, <1>2, <1>4, <3>2, <4>1 DEF NewlyOpen
            <4>3. r # 0  BY <3>2 DEF Nodes
            <4> QED  BY <3>2, <4>2, <4>3 DEF Open
        <3>3. CASE /\ r \in Nodes /\ i \in DOMAIN down_streams'[r] /\ down_streams'[r][i] = n
                   /\ SlowOpen(r)
            <4>1. r # 0  BY <3>3 DEF Nodes
            <4> QED  BY <1>1, <3>3, <4>1 DEF Open
        <3> QED  BY <1>p, <1>2, <3>1, <3>2, <3>3, OwnOpen
    <2>5. 0 \in 0 .. MaxNodes  BY BoundAssumption
    <2>6. wait_count'[n] = wait_count[n] /\ Fits(Reasons(n), wait_count[n])
        BY <1>1, <1>3 DEF Counts
    <2> QED  BY <2>1, <2>3, <2>4, <2>5, <2>6, ReasonsSwap
<1> QED  BY <1>p, <1>2, <1>5, <1>6, <1>7, LinkEdges

\* The last look at r: if its end took the bitmap without the bit, the new node
\* takes the count back itself.
LEMMA ReadBakEdges ==
    ASSUME EdgeInv, NEW c \in Clients, ReadBak(c)
    PROVE  Edges'
<1> USE DEF EdgeInv, LifeInv, Edges
<1>0. PICK r0 \in Nodes : r0 = Head(todo[c])
    BY HeadOfTodo DEF ReadBak, NextEdge, CGo, Structure, Tested, Linking, nullptr, Nodes
<1>p. PICK n \in Nodes : n = new_node[c]  BY InCall DEF ReadBak, NextEdge, CGo
<1>u. /\ UNCHANGED <<fast_down_strams, fast_down_strams_bak, down_streams, node_id,
                     status, required>>
      /\ NextEdge(c, "read_bak")
    BY DEF ReadBak, boundVars
<1>2. /\ LinkStep(c) /\ c_pc[c] = "read_bak" /\ c_pc'[c] \in {"edge", "idle"}
      /\ Len(todo[c]) \in Nat \ {0}
      /\ c_pc'[c] \in Linking => Left(c)' = Len(todo[c]) - 1
    BY NextLink DEF ReadBak, workerVars, boundVars, Linking
<1>3. IsFast(r0, n) /\ Linked(n) /\ Creating(c, n)
    <2>1. IsFast(r0, n)  BY <1>0, <1>p, <1>2 DEF Structure, Tested
    <2>2. Linked(n)  BY <1>p, <1>2, LinkRest
    <2> QED  BY <1>p, <1>2, <2>1, <2>2 DEF Creating, Linking
<1>4. /\ \A r, m : HasBit(r, m)' => HasBit(r, m)
      /\ \A m : NoNewBit(m) /\ SameDown(m)
      /\ DownGrows
    BY <1>u, <1>2, SameOthers
<1>5. Settled(c, n)  BY <1>0, <1>3 DEF Settled
<1>6. Left(c) = Len(todo[c]) - 1 /\ (c_pc'[c] \in Linking => Left(c)' = Left(c))
    BY <1>2 DEF Left
<1>7. ASSUME NEW r \in Nodes, r # r0, FastOpen(r, n)' PROVE FastOpen(r, n)
    BY <1>0, <1>p, <1>2, <1>4, <1>7, LinkOwn DEF NewlyOpen
<1>8. At(c, n, r0, "read_bak")  BY <1>0, <1>p, <1>2 DEF At
<1>9. CASE /\ fast_down_strams_bak[r0] # fast_down_strams_bak_init
           /\ ~bit_map_get(fast_down_strams_bak[r0], node_id[n])
    <2>1. Release(n)  BY <1>0, <1>p, <1>9 DEF ReadBak
    <2>2. /\ wait_count'[n] = wait_count[n] - 1
          /\ \A m \in Nodes : m # n => wait_count'[m] = wait_count[m]
        BY <2>1, ReleaseCount
    <2>3. node_id[n] \notin fast_down_strams_bak[r0]  BY <1>3, <1>9 DEF bit_map_get, IsFast
    <2>4. FastOpen(r0, n)  BY <1>3, <1>8, <1>9, <2>3 DEF FastOpen
    <2>5. ~FastOpen(r0, n)'
        <3>1. ASSUME NEW d \in Clients, NEW pc \in {"read_bak", "bit_load"},
                     At(d, n, r0, pc)'
              PROVE  FALSE
            <4>1. Creating(d, n)'  BY <3>1 DEF At, Creating, Linking
            <4>2. d = c  BY <1>p, <1>2, <4>1, LinkOwn
            <4> QED  BY <1>2, <3>1, <4>2 DEF At
        <3> QED  BY <1>u, <1>9, <2>3, <3>1 DEF FastOpen, fast_down_strams_bak_init
    <2>6. Fits(Reasons(n), wait_count[n])'
        <3>1. LessReasons(n, r0, 0)
            <4> SUFFICES ASSUME NEW r \in 0 .. MaxNodes, NEW i \in Nat, Open(n, r, i)'
                         PROVE  Open(n, r, i) /\ ~(r = r0 /\ i = 0)
                BY DEF LessReasons
            <4>1. r0 # 0  BY DEF Nodes
            <4>2. CASE r = 0 /\ c_pc'[c] \in Linking /\ i \in 1 .. Left(c)'
                BY <1>3, <1>6, <4>1, <4>2 DEF Open
            <4>3. CASE r \in Nodes /\ i = 0 /\ FastOpen(r, n)'
                <5>1. r # r0  BY <2>5, <4>3
                <5> QED  BY <1>7, <4>3, <5>1 DEF Open
            <4>4. CASE /\ r \in Nodes /\ i \in DOMAIN down_streams'[r]
                       /\ down_streams'[r][i] = n /\ SlowOpen(r)
                <5>1. down_streams[r] \in Seq(Nodes)  BY <4>4 DEF Types, NodeTypes
                <5>2. i # 0  BY <1>u, <4>4, <5>1
                <5> QED  BY <1>u, <4>4, <5>2 DEF Open
            <4> QED  BY <1>p, <1>2, <4>2, <4>3, <4>4, OwnOpen
        <3>2. Open(n, r0, 0) /\ r0 \in 0 .. MaxNodes  BY <2>4 DEF Open, Nodes
        <3> QED  BY <1>3, <2>2, <3>1, <3>2, ReasonsLess DEF Counts
    <2> QED  BY <1>p, <1>2, <1>4, <1>5, <2>2, <2>6, LinkEdges
<1>10. CASE ~/\ fast_down_strams_bak[r0] # fast_down_strams_bak_init
             /\ ~bit_map_get(fast_down_strams_bak[r0], node_id[n])
    <2>1. wait_count' = wait_count  BY <1>0, <1>p, <1>10 DEF ReadBak
    <2>2. FastSame(n)
        <3> SUFFICES ASSUME FastOpen(r0, n)' PROVE FastOpen(r0, n)
            BY <1>7 DEF FastSame
        <3>1. CASE fast_down_strams_bak[r0] = fast_down_strams_bak_init
            BY <1>3, <1>8, <3>1 DEF FastOpen
        <3>2. CASE fast_down_strams_bak[r0] # fast_down_strams_bak_init
            <4>1. node_id[n] \in fast_down_strams_bak[r0]  BY <1>10, <3>2 DEF bit_map_get
            <4>2. Working(r0, {"fast"})' => Working(r0, {"fast"})  BY <1>2, LinkRest
            <4> QED  BY <1>3, <1>u, <3>2, <4>1, <4>2 DEF FastOpen, fast_down_strams_bak_init
        <3> QED  BY <3>1, <3>2
    <2>3. c_pc'[c] \in Linking => Left(c)' <= Left(c)  BY <1>2, <1>6
    <2>4. Fits(Reasons(n), wait_count[n])'
        BY <1>p, <1>u, <1>2, <2>1, <2>2, <2>3, OwnCount
    <2> QED  BY <1>p, <1>2, <1>4, <1>5, <2>1, <2>4, LinkEdges
<1> QED  BY <1>9, <1>10

\* Under r's mutex: r has ended, or it will find the new node in down_streams.
LEMMA PushDownstreamEdges ==
    ASSUME EdgeInv, NEW c \in Clients, PushDownstream(c)
    PROVE  Edges'
<1> USE DEF EdgeInv, LifeInv, Edges
<1>0. PICK r0 \in Nodes : r0 = Head(todo[c])
    BY HeadOfTodo DEF PushDownstream, NextEdge, CGo, Structure, Tested, Linking, nullptr, Nodes
<1>p. PICK n \in Nodes : n = new_node[c]  BY InCall DEF PushDownstream, NextEdge, CGo
<1>u. UNCHANGED <<fast_down_strams, fast_down_strams_bak, node_id, status, required>>
    BY DEF PushDownstream, boundVars
<1>2. /\ LinkStep(c) /\ c_pc[c] = "push" /\ c_pc'[c] \in {"edge", "idle"}
      /\ Len(todo[c]) \in Nat \ {0}
      /\ c_pc'[c] \in Linking => Left(c)' = Len(todo[c]) - 1
    BY NextLink DEF PushDownstream, workerVars, boundVars, Linking
<1>3. ~IsFast(r0, n) /\ Linked(n) /\ Creating(c, n)
    <2>1. ~IsFast(r0, n)  BY <1>0, <1>p, <1>2 DEF Structure, Tested
    <2>2. Linked(n)  BY <1>p, <1>2, LinkRest
    <2> QED  BY <1>p, <1>2, <2>1, <2>2 DEF Creating, Linking
<1>4. \A r, m : HasBit(r, m)' => HasBit(r, m)  BY <1>u, <1>2 DEF HasBit, LinkStep, ClientStep
<1>5. FastSame(n)
    <2> SUFFICES ASSUME NEW r \in Nodes, FastOpen(r, n)' PROVE FastOpen(r, n)
        BY DEF FastSame
    <2>1. IsFast(r, n) /\ (FastOpen(r, n) \/ NewlyOpen(c, n, r))
        BY <1>p, <1>2, LinkOwn
    <2> QED  BY <1>0, <1>2, <1>3, <1>4, <2>1 DEF NewlyOpen
<1>6. Left(c) = Len(todo[c])  BY <1>2 DEF Left
<1>7. CASE status[r0] \in Ended /\ Release(n) /\ UNCHANGED down_streams
    <2>1. /\ wait_count'[n] = wait_count[n] - 1
          /\ \A m \in Nodes : m # n => wait_count'[m] = wait_count[m]
        BY <1>7, ReleaseCount
    <2>2. /\ \A m : NoNewBit(m) /\ SameDown(m)
          /\ DownGrows
        BY <1>u, <1>2, <1>7, SameOthers
    <2>3. Settled(c, n)  BY <1>0, <1>7 DEF Settled
    <2>4. c_pc[c] # "read_bak" /\ (c_pc'[c] \in Linking => Left(c)' <= Left(c) - 1)
        BY <1>2, <1>6
    <2>5. Fits(Reasons(n), wait_count[n])'
        BY <1>p, <1>2, <1>5, <1>7, <2>1, <2>4, OwnCount
    <2> QED  BY <1>p, <1>2, <2>1, <2>2, <2>3, <2>5, LinkEdges
<1>8. CASE /\ down_streams' = [down_streams EXCEPT ![r0] = Append(@, n)]
           /\ UNCHANGED wait_count
    <2>1. PICK s \in Seq(Nodes) : s = down_streams[r0]  BY DEF Types, NodeTypes
    <2>2. /\ down_streams'[r0] = Append(s, n)
          /\ \A r \in Nodes : r # r0 => down_streams'[r] = down_streams[r]
        BY <1>8, <2>1 DEF Types, NodeTypes
    <2>3. /\ \A i \in DOMAIN Append(s, n) :
                (i \in DOMAIN s /\ Append(s, n)[i] = s[i])
                    \/ (i = Len(s) + 1 /\ Append(s, n)[i] = n)
          /\ \A i \in DOMAIN s : i \in DOMAIN Append(s, n) /\ Append(s, n)[i] = s[i]
          /\ Len(s) + 1 \in DOMAIN Append(s, n) /\ Append(s, n)[Len(s) + 1] = n
        BY AppendItem
    <2>4. DownGrows
        <3> SUFFICES ASSUME NEW r \in Nodes, NEW i \in DOMAIN down_streams[r]
                     PROVE  /\ i \in DOMAIN down_streams'[r]
                            /\ down_streams'[r][i] = down_streams[r][i]
            BY DEF DownGrows
        <3>1. CASE r = r0  BY <2>1, <2>2, <2>3, <3>1
        <3>2. CASE r # r0  BY <2>2, <3>2
        <3> QED  BY <3>1, <3>2
    <2>5. ASSUME NEW m \in Nodes, m # n
          PROVE  NoNewBit(m) /\ SameDown(m) /\ wait_count'[m] = wait_count[m]
        <3>1. NoNewBit(m)  BY <1>4 DEF NoNewBit
        <3>2. ASSUME NEW r \in Nodes, NEW i \in DOMAIN down_streams'[r], down_streams'[r][i] = m
              PROVE  i \in DOMAIN down_streams[r] /\ down_streams[r][i] = m
            <4>1. CASE r = r0  BY <2>1, <2>2, <2>3, <2>5, <3>2, <4>1
            <4>2. CASE r # r0  BY <2>2, <3>2, <4>2
            <4> QED  BY <4>1, <4>2
        <3>3. SameDown(m)  BY <2>4, <3>2 DEF SameDown, DownGrows
        <3> QED  BY <1>8, <3>1, <3>3
    <2>6. Settled(c, n)
        BY <1>0, <2>2, <2>3 DEF Settled
    <2>7. Fits(Reasons(n), wait_count[n])'
        <3>1. PICK k \in Nat : k = Len(todo[c]) /\ k # 0  BY <1>2
        <3>2. PICK j : j = Len(s) + 1  OBVIOUS
        <3>3. Open(n, 0, k)  BY <1>3, <1>6, <3>1 DEF Open
        <3>4. SwapReasons(n, 0, k, r0, j)
            <4> SUFFICES ASSUME NEW r \in 0 .. MaxNodes, NEW i \in Nat, Open(n, r, i)'
                         PROVE  (Open(n, r, i) /\ ~(r = 0 /\ i = k)) \/ (r = r0 /\ i = j)
                BY DEF SwapReasons
            <4>0. 0 \notin Nodes  BY DEF Nodes
            <4>1. CASE r = 0 /\ c_pc'[c] \in Linking /\ i \in 1 .. Left(c)'
                <5>1. i \in 1 .. Left(c) /\ i # k  BY <1>2, <1>6, <3>1, <4>1
                <5> QED  BY <1>3, <4>1, <5>1 DEF Open
            <4>2. CASE r \in Nodes /\ i = 0 /\ FastOpen(r, n)'
                BY <1>5, <4>0, <4>2 DEF Open, FastSame
            <4>3. CASE /\ r \in Nodes /\ i \in DOMAIN down_streams'[r]
                       /\ down_streams'[r][i] = n /\ SlowOpen(r)
                <5>1. CASE r # r0  BY <2>2, <4>0, <4>3, <5>1 DEF Open
                <5>2. CASE r = r0
                    BY <2>1, <2>2, <2>3, <3>2, <4>0, <4>3, <5>2 DEF Open
                <5> QED  BY <5>1, <5>2
            <4> QED  BY <1>p, <1>2, <4>1, <4>2, <4>3, OwnOpen
        <3>5. 0 \in 0 .. MaxNodes  BY BoundAssumption
        <3>6. wait_count'[n] = wait_count[n] /\ Fits(Reasons(n), wait_count[n])
            BY <1>3, <1>8 DEF Counts
        <3> QED  BY <3>1, <3>3, <3>4, <3>5, <3>6, ReasonsSwap
    <2> QED  BY <1>p, <1>2, <2>4, <2>5, <2>6, <2>7, LinkEdges
<1>9. \/ status[r0] \in Ended /\ Release(n) /\ UNCHANGED down_streams
      \/ down_streams' = [down_streams EXCEPT ![r0] = Append(@, n)] /\ UNCHANGED wait_count
    BY <1>0, <1>p DEF PushDownstream
<1> QED  BY <1>7, <1>8, <1>9

-----------------------------------------------------------------------------
(* A client that links no node *)

\* No client is linking when c steps, or c is not one that does.
LEMMA ClientQuiet ==
    ASSUME EdgeInv, NEW c \in Clients,
           UNCHANGED <<parent_graph, node_id, fast_down_strams, fast_down_strams_bak,
                       down_streams, new_node, todo, reg, w_pc, task, made, required>>,
           \A d \in Clients \ {c} : c_pc'[d] = c_pc[d],
           c_pc[c] \notin Linking,
           c_pc'[c] \notin Linking \cup {"register", "ready", "count"},
           \A n \in Nodes : status'[n] = status[n]
              \/ (status[n] \in Ended /\ status'[n] \in Ended),
           \A n \in Nodes : Linked(n)' => Linked(n),
           \A n \in Nodes : Linked(n) => wait_count'[n] = wait_count[n]
    PROVE  Edges'
<1> USE DEF EdgeInv, LifeInv, Edges
<1>1. Named'  BY DEF Named
<1>2. Asked'  BY DEF Asked
<1>3. TakenOnce'
    <2>1. \A r \in Nodes : status[r] \in Ended => status'[r] \in Ended  OBVIOUS
    <2> QED  BY <2>1, QuietTaken
<1>4. LinkersSame /\ LinkedSame
    <2>1. \A d \in Clients : c_pc[d] \in Linking \/ c_pc'[d] \in Linking => d # c
        OBVIOUS
    <2> QED  BY <2>1 DEF LinkersSame, LinkedSame
<1>5. EndsStay
    <2>1. \A r : Working(r, {"fast"})' <=> Working(r, {"fast"})  BY DEF Working
    <2>2. ASSUME NEW r \in Nodes, SlowOpen(r)' PROVE SlowOpen(r)
        <3>1. Working(r, {"take_bak", "fast", "down"})' => Working(r, {"take_bak", "fast", "down"})
            BY DEF Working
        <3>2. status'[r] \notin Ended => status[r] \notin Ended  OBVIOUS
        <3> QED  BY <2>2, <3>1, <3>2 DEF SlowOpen
    <2> QED  BY <2>1, <2>2 DEF EndsStay
<1>6. ASSUME NEW n \in Nodes, Linked(n) PROVE NodeSame(n)
    <2>1. \A r : IsFast(r, n)' <=> IsFast(r, n)  BY DEF IsFast
    <2>2. \A r \in Nodes : FastOpen(r, n)' => IsFast(r, n)  BY <2>1 DEF FastOpen
    <2> QED  BY <1>6, <2>1, <2>2 DEF NodeSame
<1>7. Pushed' /\ Counts'  BY <1>4, <1>5, <1>6, QuietEdges
<1> QED  BY <1>1, <1>2, <1>3, <1>7

\* The calls of block_thread_for_group handle the waiter only.
LEMMA WaiterCommits ==
    ASSUME EdgeInv, NEW c \in Clients, UNCHANGED <<parent_graph, new_node, made>>,
           \A d \in Clients \ {c} : c_pc'[d] = c_pc[d],
           parent_graph[new_node[c]] \in Clients \/ c_pc[c] \notin Early
    PROVE  \A n \in Nodes : Linked(n)' => Linked(n)
<1> SUFFICES ASSUME NEW n \in Nodes, Linked(n)', NEW d \in Clients, new_node[d] = n,
                    c_pc[d] \in Early
             PROVE  FALSE
    BY DEF Linked, Committed
<1>1. d = c  BY DEF Linked, Committed
<1>2. parent_graph[n] \in Graphs  BY DEF Linked
<1> QED  BY <1>1, <1>2, NameAssumption

\* The wait's first test.
LEMMA WaitTestEdges ==
    ASSUME EdgeInv, NEW c \in Clients, WaitTest(c)
    PROVE  Edges'
<1> USE DEF EdgeInv, LifeInv
<1>1. /\ UNCHANGED <<nodeVars, new_node, todo, reg, w_pc, task, made, required>>
      /\ c_pc[c] = "wait_test"
    BY DEF WaitTest, CGo, workerVars, boundVars
<1>2. /\ \A d \in Clients \ {c} : c_pc'[d] = c_pc[d]
      /\ c_pc'[c] \in {"sema", "wait_lock"}
    BY DEF WaitTest, CGo, Types, ClientTypes
<1>3. parent_graph[new_node[c]] \in Clients
    BY <1>1 DEF Structure, Belongs, Waiting
<1>4. \A n \in Nodes : Linked(n)' => Linked(n)
    BY <1>1, <1>2, <1>3, WaiterCommits DEF nodeVars
<1> QED  BY <1>1, <1>2, <1>4, ClientQuiet DEF nodeVars, Linking

\* The wait's second test, under the lock: only the waiter is counted.
LEMMA WaitLockEdges ==
    ASSUME EdgeInv, NEW c \in Clients, WaitLock(c)
    PROVE  Edges'
<1> USE DEF EdgeInv, LifeInv
<1>1. /\ UNCHANGED <<status, parent_graph, node_id, fast_down_strams, fast_down_strams_bak,
                     down_streams, new_node, todo, reg, w_pc, task, made, required>>
      /\ c_pc[c] = "wait_lock"
    BY DEF WaitLock, CGo, workerVars, boundVars
<1>2. /\ \A d \in Clients \ {c} : c_pc'[d] = c_pc[d]
      /\ c_pc'[c] = "sema"
    BY DEF WaitLock, CGo, Types, ClientTypes
<1>3. parent_graph[new_node[c]] \in Clients
    BY <1>1 DEF Structure, Belongs, Waiting
<1>4. \A n \in Nodes : Linked(n)' => Linked(n)
    BY <1>1, <1>2, <1>3, WaiterCommits
<1>5. \A n \in Nodes : Linked(n) => wait_count'[n] = wait_count[n]
    <2>1. \A n \in Nodes : Linked(n) => n # new_node[c]
        BY <1>3, NameAssumption DEF Linked
    <2> QED  BY <2>1 DEF WaitLock, Types, NodeTypes
<1> QED  BY <1>1, <1>2, <1>4, <1>5, ClientQuiet DEF Linking

\* The waiter has run.
LEMMA SemaWaitEdges ==
    ASSUME EdgeInv, NEW c \in Clients, SemaWait(c)
    PROVE  Edges'
<1> USE DEF EdgeInv, LifeInv
<1>1. /\ UNCHANGED <<nodeVars, new_node, todo, reg, w_pc, task, made, required>>
      /\ c_pc[c] = "sema"
    BY DEF SemaWait, CGo, workerVars, boundVars
<1>2. /\ \A d \in Clients \ {c} : c_pc'[d] = c_pc[d]
      /\ c_pc'[c] = "free"
    BY DEF SemaWait, CGo, Types, ClientTypes
<1>4. \A n \in Nodes : Linked(n)' => Linked(n)
    BY <1>1, <1>2, WaiterCommits DEF nodeVars, Early
<1> QED  BY <1>1, <1>2, <1>4, ClientQuiet DEF nodeVars, Linking

\* The waiter is released.
LEMMA FreeWaiterEdges ==
    ASSUME EdgeInv, NEW c \in Clients, FreeWaiter(c)
    PROVE  Edges'
<1> USE DEF EdgeInv, LifeInv
<1>1. /\ UNCHANGED <<wait_count, parent_graph, node_id, fast_down_strams,
                     fast_down_strams_bak, down_streams, new_node, todo, reg, w_pc, task,
                     made, required>>
      /\ c_pc[c] = "free"
    BY DEF FreeWaiter, CGo, workerVars, boundVars
<1>2. /\ \A d \in Clients \ {c} : c_pc'[d] = c_pc[d]
      /\ c_pc'[c] = "idle"
    BY DEF FreeWaiter, CGo, Types, ClientTypes
<1>3. \A n \in Nodes : status'[n] = status[n] \/ (status[n] \in Ended /\ status'[n] \in Ended)
    BY DEF FreeWaiter, Types, NodeTypes, Ended
<1>4. \A n \in Nodes : Linked(n)' => Linked(n)
    BY <1>1, <1>2, WaiterCommits DEF Early
<1> QED  BY <1>1, <1>2, <1>3, <1>4, ClientQuiet DEF Linking

\* Nodes that are released have ended before.
LEMMA clear_graphEdges ==
    ASSUME EdgeInv, NEW c \in Clients, NEW g \in Graphs, clear_graph(c, g)
    PROVE  Edges'
<1> USE DEF EdgeInv, LifeInv
<1>1. /\ UNCHANGED <<wait_count, parent_graph, node_id, fast_down_strams,
                     fast_down_strams_bak, down_streams, c_pc, new_node, todo, reg, w_pc, task,
                     made, required>>
      /\ c_pc[c] = "idle"
    BY DEF clear_graph, ClearOnce, clientVars, workerVars, boundVars
<1>3. \A n \in Nodes : status'[n] = status[n] \/ (status[n] \in Ended /\ status'[n] \in Ended)
    BY DEF clear_graph, ClearOnce, Types, NodeTypes, Ended
<1>4. \A n \in Nodes : Linked(n)' => Linked(n)
    BY <1>1 DEF Linked, Committed
<1> QED  BY <1>1, <1>3, <1>4, ClientQuiet DEF Linking

\* A client that comes to none of the points of linking, on no worker's ground.
LEMMA StillEnds ==
    ASSUME UNCHANGED <<status, w_pc, task>>
    PROVE  EndsStay
<1>1. \A r : Working(r, {"fast"})' <=> Working(r, {"fast"})  BY DEF Working
<1>2. \A r : SlowOpen(r)' <=> SlowOpen(r)  BY DEF SlowOpen, Working
<1> QED  BY <1>1, <1>2 DEF EndsStay

\* A call of create_edges begins: its node is not linked yet.
LEMMA CountNodeEdges ==
    ASSUME EdgeInv, made < MaxNodes, NEW c \in Clients, NEW g \in Graphs,
           NEW reqs \in Requests(made + 1), CountNode(c, g, reqs)
    PROVE  Edges'
<1> USE DEF EdgeInv, LifeInv, Edges
<1>0. PICK n0 \in Nodes : n0 = made + 1 /\ made \in Nat
    BY BoundAssumption DEF Types, GraphTypes, Nodes
<1>1. /\ UNCHANGED <<status, wait_count, parent_graph, node_id, fast_down_strams,
                     fast_down_strams_bak, down_streams, reg, w_pc, task>>
      /\ made' = n0 /\ required' = [required EXCEPT ![n0] = ToSet(reqs) \ {n0, nullptr}]
      /\ c_pc[c] = "idle"
    BY <1>0 DEF CountNode, CGo, nodeVars, workerVars
<1>2. /\ \A d \in Clients \ {c} : /\ c_pc'[d] = c_pc[d] /\ new_node'[d] = new_node[d]
                                  /\ todo'[d] = todo[d]
      /\ c_pc'[c] = "register" /\ new_node'[c] = n0 /\ todo'[c] = reqs
    BY <1>0 DEF CountNode, CGo, Types, ClientTypes
<1>3. \A n \in Nodes : n # n0 => required'[n] = required[n]
    BY <1>1 DEF Types, NodeTypes
<1>4. required'[n0] = ToSet(reqs) \ {n0, nullptr}
    BY <1>1 DEF Types, NodeTypes
<1>5. ASSUME NEW r \in ToSet(reqs) \ {n0, nullptr} PROVE parent_graph[r] \in Graphs
    <2>1. PICK k \in 0 .. MaxReqs : reqs \in [1 .. k -> Nameable(n0)]  BY <1>0 DEF Requests
    <2>2. r \in Nameable(n0)  BY <2>1 DEF ToSet
    <2> QED  BY <2>2 DEF Nameable
<1>6. Named'
    <2> SUFFICES ASSUME NEW n \in Nodes, NEW r \in required'[n]
                 PROVE  r # n /\ parent_graph[r] \in Graphs
        BY <1>1 DEF Named
    <2>1. CASE n = n0  BY <1>4, <1>5, <2>1
    <2>2. CASE n # n0  BY <1>3, <2>2 DEF Named
    <2> QED  BY <2>1, <2>2
<1>7. TakenOnce'
    <2>1. \A r \in Nodes : status[r] \in Ended => status'[r] \in Ended  BY <1>1
    <2> QED  BY <1>1, <2>1, QuietTaken
<1>8. ASSUME NEW d \in Clients, d # c, c_pc[d] # "idle"
      PROVE  new_node[d] \in Nodes /\ new_node[d] # n0
    BY <1>0, <1>8, InCall
<1>9. Asked'
    <2> SUFFICES ASSUME NEW d \in Clients
                 PROVE  /\ c_pc'[d] \in {"register", "ready", "count"} =>
                              \A r \in required'[new_node'[d]] :
                                  \E i \in DOMAIN todo'[d] : todo'[d][i] = r
                        /\ c_pc'[d] = "ready" => todo'[d] = <<>>
        BY DEF Asked
    <2>1. CASE d = c
        <3>1. \A r \in required'[n0] : r \in ToSet(reqs)  BY <1>4
        <3> QED  BY <1>2, <2>1, <3>1 DEF ToSet
    <2>2. CASE d # c
        <3>1. c_pc[d] # "idle" => required'[new_node[d]] = required[new_node[d]]
            BY <1>3, <1>8, <2>2
        <3> QED  BY <1>2, <2>2, <3>1 DEF Asked
    <2> QED  BY <2>1, <2>2
<1>10. LinkersSame  BY <1>1, <1>2 DEF LinkersSame, Linking
<1>11. LinkedSame
    <2> SUFFICES ASSUME NEW n \in Nodes, Linked(n)' PROVE Linked(n)  BY DEF LinkedSame
    <2>1. n # n0  BY <1>2 DEF Linked, Committed, Early
    <2>2. n \in 1 .. made  BY <1>0, <1>1, <2>1 DEF Linked, Committed
    <2>3. \A d \in Clients : new_node[d] = n => c_pc[d] \notin Early
        BY <1>1, <1>2 DEF Linked, Committed, Early
    <2> QED  BY <1>1, <2>2, <2>3 DEF Linked, Committed
<1>12. EndsStay  BY <1>1, StillEnds
<1>13. ASSUME NEW n \in Nodes, Linked(n) PROVE NodeSame(n)
    <2>1. \A r : IsFast(r, n)' <=> IsFast(r, n)  BY <1>1 DEF IsFast
    <2>2. \A r \in Nodes : FastOpen(r, n)' => IsFast(r, n)  BY <2>1 DEF FastOpen
    <2>3. n # n0  BY <1>0, <1>13 DEF Linked, Committed
    <2> QED  BY <1>1, <1>3, <2>1, <2>2, <2>3 DEF NodeSame
<1>14. Pushed' /\ Counts'  BY <1>1, <1>10, <1>11, <1>12, <1>13, QuietEdges
<1> QED  BY <1>6, <1>7, <1>9, <1>14

\* A node that is in no graph yet has no edges: no bits, nobody linking to it.
LEMMA NoFastFromNew ==
    ASSUME EdgeInv, NEW n0 \in Nodes, parent_graph[n0] \notin Graphs
    PROVE  /\ fast_down_strams[n0] = {} /\ fast_down_strams_bak[n0] \subseteq {fast_node_max_num}
           /\ \A c \in Clients :
                 c_pc[c] \in {"bit_load", "bit_store", "read_bak"} => Head(todo[c]) # n0
           /\ \A n \in Nodes : n0 \notin required[n]
<1> USE DEF EdgeInv, LifeInv, Edges
<1>1. fast_down_strams[n0] = {} /\ fast_down_strams_bak[n0] \subseteq {fast_node_max_num}
    BY DEF Structure, BitsOwned, Owned
<1>2. ASSUME NEW c \in Clients, c_pc[c] \in {"bit_load", "bit_store", "read_bak"}
      PROVE  Head(todo[c]) # n0
    <2>1. IsFast(Head(todo[c]), new_node[c]) /\ parent_graph[new_node[c]] \in Graphs
        BY <1>2 DEF Structure, Tested, Belongs, Linking
    <2> QED  BY <2>1 DEF IsFast
<1>3. \A n \in Nodes : n0 \notin required[n]  BY DEF Named
<1> QED  BY <1>1, <1>2, <1>3

\* A node gets its graph; no edge of another node is touched.
LEMMA PlaceEdges ==
    ASSUME EdgeInv, NEW n0 \in Nodes, parent_graph[n0] \notin Graphs, LinkersSame,
           UNCHANGED <<status, wait_count, fast_down_strams, fast_down_strams_bak,
                       down_streams, w_pc, task>>,
           \A n \in Nodes : n # n0 => /\ parent_graph'[n] = parent_graph[n]
                                      /\ node_id'[n] = node_id[n] /\ required'[n] = required[n],
           LinkedSame
    PROVE  TakenOnce' /\ Pushed' /\ Counts'
<1> USE DEF EdgeInv, LifeInv, Edges
<1>1. EndsStay  BY StillEnds
<1>2. TakenOnce'
    <2>1. \A r \in Nodes : status[r] \in Ended => status'[r] \in Ended  OBVIOUS
    <2> QED  BY <2>1, QuietTaken
<1>3. ASSUME NEW n \in Nodes, Linked(n) PROVE NodeSame(n)
    <2>1. n # n0  BY <1>3 DEF Linked
    <2>2. \A r \in Nodes : r # n0 => (IsFast(r, n)' <=> IsFast(r, n))
        BY <2>1 DEF IsFast
    <2>3. ~FastOpen(n0, n)'
        <3>1. /\ fast_down_strams[n0] = {} /\ fast_down_strams_bak[n0] \subseteq {fast_node_max_num}
              /\ \A d \in Clients :
                    c_pc[d] \in {"bit_load", "bit_store", "read_bak"} => Head(todo[d]) # n0
              /\ n0 \notin required[n]
            BY NoFastFromNew
        <3>2. ~HasBit(n0, n)
            BY <3>1 DEF HasBit
        <3>3. ~HasBit(n0, n)'  BY <2>1, <3>2, SameBits
        <3>4. /\ \A d \in Clients : ~At(d, n, n0, "read_bak")'
              /\ \A d \in Clients : ~At(d, n, n0, "bit_load")'
            <4>1. /\ \A d \in Clients : ~At(d, n, n0, "read_bak")
                  /\ \A d \in Clients : ~At(d, n, n0, "bit_load")
                BY <3>1 DEF At
            <4> QED  BY <4>1, SameLinks DEF Linking
        <3>5. n0 \notin required'[n]  BY <2>1, <3>1
        <3>6. node_id[n] \in fast_down_strams_bak[n0] => node_id[n] = fast_node_max_num
            BY <3>1
        <3>7. ~(fast_node_max_num < fast_node_max_num)  BY BoundAssumption
        <3> QED  BY <2>1, <3>3, <3>4, <3>5, <3>6, <3>7 DEF FastOpen, IsFast
    <2>4. \A r \in Nodes : FastOpen(r, n)' => IsFast(r, n)  BY <2>2, <2>3 DEF FastOpen
    <2>5. \A r \in required[n] : r \in Nodes /\ r # n0
        BY DEF Named, Types, NodeTypes
    <2> QED  BY <2>1, <2>2, <2>4, <2>5 DEF NodeSame
<1>4. Pushed' /\ Counts'  BY <1>1, <1>3, QuietEdges
<1> QED  BY <1>2, <1>4

\* The new node gets its number and its place.
LEMMA RegisterEdges ==
    ASSUME EdgeInv, NEW c \in Clients, Register(c)
    PROVE  Edges'
<1> USE DEF EdgeInv, LifeInv, Edges
<1>0. PICK n0 \in Nodes : n0 = new_node[c]  BY InCall DEF Register, CGo
<1>1. /\ c_pc[c] = "register" /\ parent_graph[n0] = nullptr /\ target[c] \in Graphs
      /\ UNCHANGED <<status, wait_count, fast_down_strams, fast_down_strams_bak,
                     down_streams, new_node, todo, reg, w_pc, task, made, required>>
    BY <1>0 DEF Register, CGo, Structure, Belongs, workerVars, boundVars
<1>2. /\ \A d \in Clients \ {c} : c_pc'[d] = c_pc[d]
      /\ c_pc'[c] = IF todo[c] = <<>> THEN "ready" ELSE "count"
    BY DEF Register, CGo, Types, ClientTypes
<1>3. /\ parent_graph'[n0] = target[c]
      /\ \A n \in Nodes : n # n0 => /\ parent_graph'[n] = parent_graph[n]
                                    /\ node_id'[n] = node_id[n]
    BY <1>0 DEF Register, Types, NodeTypes
<1>4. parent_graph[n0] \notin Graphs  BY <1>1, NameAssumption DEF AllGraphs
<1>5. Named'
    <2>1. \A n \in Nodes : \A r \in required[n] : r \in Nodes /\ r # n0
        BY <1>4 DEF Named, Types, NodeTypes
    <2> QED  BY <1>1, <1>3, <2>1 DEF Named
<1>6. Asked'
    <2> SUFFICES ASSUME NEW d \in Clients
                 PROVE  /\ c_pc'[d] \in {"register", "ready", "count"} =>
                              \A r \in required[new_node[d]] :
                                  \E i \in DOMAIN todo[d] : todo[d][i] = r
                        /\ c_pc'[d] = "ready" => todo[d] = <<>>
        BY <1>1 DEF Asked
    <2>1. CASE d = c  BY <1>1, <1>2, <2>1 DEF Asked
    <2>2. CASE d # c  BY <1>2, <2>2 DEF Asked
    <2> QED  BY <2>1, <2>2
<1>7. LinkersSame  BY <1>1, <1>2 DEF LinkersSame, Linking
<1>8. LinkedSame
    <2> SUFFICES ASSUME NEW n \in Nodes, Linked(n)' PROVE Linked(n)  BY DEF LinkedSame
    <2>1. n # n0  BY <1>0, <1>1, <1>2 DEF Linked, Committed, Early
    <2>2. \A d \in Clients : new_node[d] = n => c_pc[d] \notin Early
        BY <1>0, <1>1, <1>2, <2>1 DEF Linked, Committed
    <2> QED  BY <1>1, <1>3, <2>1, <2>2 DEF Linked, Committed
<1>9. TakenOnce' /\ Pushed' /\ Counts'
    BY <1>1, <1>3, <1>4, <1>7, <1>8, PlaceEdges
<1> QED  BY <1>5, <1>6, <1>9

\* A wait begins: the waiter is in its own graph.
LEMMA StartWaitEdges ==
    ASSUME EdgeInv, NEW c \in Clients, NEW g \in Graphs, StartWait(c, g)
    PROVE  Edges'
<1> USE DEF EdgeInv, LifeInv, Edges
<1>0. PICK n0 \in Nodes : n0 = made + 1 /\ made \in Nat
    BY BoundAssumption DEF StartWait, Types, GraphTypes, Nodes
<1>1. /\ c_pc[c] = "idle" /\ made' = n0
      /\ UNCHANGED <<status, wait_count, node_id, fast_down_strams, fast_down_strams_bak,
                     down_streams, todo, reg, w_pc, task>>
    BY <1>0 DEF StartWait, CGo, workerVars
<1>2. /\ \A d \in Clients \ {c} : c_pc'[d] = c_pc[d] /\ new_node'[d] = new_node[d]
      /\ c_pc'[c] = "wait_test"
    BY DEF StartWait, CGo, RegisterWaiter, Types, ClientTypes
<1>3. /\ parent_graph'[n0] = c /\ required'[n0] = ToSet(g_nodes[g])
      /\ \A n \in Nodes : n # n0 => /\ parent_graph'[n] = parent_graph[n]
                                    /\ required'[n] = required[n]
    BY <1>0 DEF StartWait, RegisterWaiter, Types, NodeTypes
<1>4. parent_graph[n0] \notin Graphs
    <2>1. parent_graph[n0] = nullptr  BY <1>0 DEF Structure, Homed
    <2> QED  BY <2>1, NameAssumption DEF AllGraphs
<1>5. Named'
    <2> SUFFICES ASSUME NEW n \in Nodes, NEW r \in required'[n]
                 PROVE  r # n /\ parent_graph'[r] \in Graphs
        BY DEF Named
    <2>1. CASE n = n0
        <3>1. PICK i \in DOMAIN g_nodes[g] : r = g_nodes[g][i]
            BY <1>3, <2>1 DEF ToSet
        <3>2. parent_graph[r] = g  BY <3>1 DEF Structure, GraphLists
        <3>3. r \in Nodes  BY <3>1 DEF Types, GraphTypes, AllGraphs
        <3> QED  BY <1>3, <1>4, <2>1, <3>2, <3>3
    <2>2. CASE n # n0
        <3>1. r \in required[n] /\ r \in Nodes  BY <1>3, <2>2 DEF Types, NodeTypes
        <3> QED  BY <1>3, <1>4, <3>1 DEF Named
    <2> QED  BY <2>1, <2>2
<1>6. Asked'
    <2> SUFFICES ASSUME NEW d \in Clients
                 PROVE  /\ c_pc'[d] \in {"register", "ready", "count"} =>
                              \A r \in required'[new_node'[d]] :
                                  \E i \in DOMAIN todo[d] : todo[d][i] = r
                        /\ c_pc'[d] = "ready" => todo[d] = <<>>
        BY <1>1 DEF Asked
    <2>1. CASE d = c  BY <1>2, <2>1
    <2>2. CASE d # c
        <3>1. c_pc[d] # "idle" => required'[new_node[d]] = required[new_node[d]]
            BY <1>0, <1>3, InCall
        <3> QED  BY <1>2, <2>2, <3>1 DEF Asked
    <2> QED  BY <2>1, <2>2
<1>7. LinkersSame  BY <1>1, <1>2 DEF LinkersSame, Linking
<1>8. LinkedSame
    <2> SUFFICES ASSUME NEW n \in Nodes, Linked(n)' PROVE Linked(n)  BY DEF LinkedSame
    <2>1. n # n0  BY <1>3, NameAssumption DEF Linked
    <2>2. n \in 1 .. made  BY <1>0, <1>1, <2>1 DEF Linked, Committed
    <2>3. \A d \in Clients : new_node[d] = n => c_pc[d] \notin Early
        BY <1>1, <1>2 DEF Linked, Committed, Early
    <2> QED  BY <1>3, <2>1, <2>2, <2>3 DEF Linked, Committed
<1>9. TakenOnce' /\ Pushed' /\ Counts'
    BY <1>1, <1>3, <1>4, <1>7, <1>8, PlaceEdges
<1> QED  BY <1>5, <1>6, <1>9

\* A node in a graph whose requirements are not counted yet has no edges to it.
LEMMA NoEdgeToNew ==
    ASSUME EdgeInv, NEW c \in Clients, c_pc[c] \in {"ready", "count"},
           NEW n \in Nodes, n = new_node[c]
    PROVE  /\ parent_graph[n] \in Graphs /\ ~Committed(n) /\ wait_count[n] = 0 /\ n \in 1 .. made
           /\ \A d \in Clients : d # c => ~Creating(d, n)
           /\ \A r \in Nodes : IsFast(r, n) => /\ ~HasBit(r, n)
                                               /\ node_id[n] \notin fast_down_strams_bak[r]
           /\ \A r \in Nodes : \A i \in DOMAIN down_streams[r] : down_streams[r][i] # n
<1> USE DEF EdgeInv, LifeInv
<1>1. parent_graph[n] \in Graphs  BY DEF Structure, Belongs
<1>2. ~Committed(n)  BY DEF Committed, Early
<1>3. wait_count[n] = 0  BY <1>2 DEF Placement, Untouched
<1>4. ASSUME NEW d \in Clients, d # c PROVE ~Creating(d, n)
    BY <1>4 DEF Creating, Structure, Distinct, Linking
<1>5. ASSUME NEW r \in Nodes, IsFast(r, n) PROVE ~Owned(r, node_id[n])
    BY <1>1, <1>2, <1>5 DEF Owned, get_node, IsFast, Structure, InGraph
<1>6. ASSUME NEW r \in Nodes, IsFast(r, n)
      PROVE  ~HasBit(r, n) /\ node_id[n] \notin fast_down_strams_bak[r]
    <2>1. node_id[n] # fast_node_max_num  BY <1>6, BoundAssumption DEF IsFast
    <2>2. node_id[n] \notin fast_down_strams[r] /\ node_id[n] \notin fast_down_strams_bak[r]
        BY <1>5, <1>6, <2>1 DEF Structure, BitsOwned
    <2>3. ASSUME NEW d \in Clients, c_pc[d] = "bit_store", Head(todo[d]) = r
          PROVE  node_id[n] \notin reg[d]
        BY <1>5, <1>6, <2>3 DEF Structure, BitsOwned
    <2> QED  BY <2>2, <2>3 DEF HasBit
<1>7. \A r \in Nodes : \A i \in DOMAIN down_streams[r] : down_streams[r][i] # n
    BY <1>2 DEF Structure, Listed
<1> QED  BY <1>1, <1>2, <1>3, <1>4, <1>6, <1>7, InCall

\* A node that starts to wait with as many counts as it has places to look at.
LEMMA StartsLinking ==
    ASSUME EdgeInv, NEW c \in Clients, c_pc[c] \in {"ready", "count"}, ClientStep(c),
           UNCHANGED <<fast_down_strams, down_streams, todo, reg>>,
           \/ c_pc[c] = "count" /\ c_pc'[c] = "edge"
           \/ c_pc[c] = "ready" /\ c_pc'[c] = "idle",
           NEW n \in Nodes, n = new_node[c], wait_count'[n] = Len(todo[c]),
           \A m \in Nodes : m # n => wait_count'[m] = wait_count[m]
    PROVE  Edges'
<1> USE DEF EdgeInv, LifeInv, Edges
<1>0. /\ parent_graph[n] \in Graphs /\ ~Committed(n) /\ n \in 1 .. made
      /\ \A d \in Clients : d # c => ~Creating(d, n)
      /\ \A r \in Nodes : IsFast(r, n) => /\ ~HasBit(r, n)
                                          /\ node_id[n] \notin fast_down_strams_bak[r]
      /\ \A r \in Nodes : \A i \in DOMAIN down_streams[r] : down_streams[r][i] # n
    BY NoEdgeToNew
<1>u. /\ UNCHANGED <<status, parent_graph, node_id, fast_down_strams_bak, new_node,
                     w_pc, task, made, required>>
      /\ \A d \in Clients : d # c => c_pc'[d] = c_pc[d]
    BY DEF ClientStep
<1>1. Named'  BY <1>u DEF Named
<1>2. TakenOnce'
    <2>1. \A r \in Nodes : status[r] \in Ended => status'[r] \in Ended  BY <1>u
    <2> QED  BY <1>u, <2>1, QuietTaken
<1>3. Asked'  BY <1>u DEF Asked
<1>4. ASSUME NEW m \in Nodes, m # n, Linked(m)' PROVE Linked(m)
    <2>1. \A d \in Clients : new_node[d] = m => c_pc[d] \notin Early
        BY <1>u, <1>4 DEF Linked, Committed
    <2> QED  BY <1>u, <1>4, <2>1 DEF Linked, Committed
<1>5. \A r, m : HasBit(r, m)' => HasBit(r, m)  BY <1>u DEF HasBit
<1>6. \A m \in Nodes : NoNewBit(m) /\ SameDown(m)
    BY <1>5 DEF NoNewBit, SameDown
<1>7. \A d \in Clients : Creating(d, n)' => d = c /\ c_pc'[c] = "edge"
    <2>1. \A d \in Clients : Creating(d, n)' => d = c
        BY <1>0, <1>u DEF Creating
    <2> QED  BY <2>1 DEF Creating, Linking
<1>8. \A r \in required[n] : Ahead(n, r)'
    <2> SUFFICES ASSUME NEW r \in required[n] PROVE Ahead(n, r)'  OBVIOUS
    <2>1. PICK i \in DOMAIN todo[c] : todo[c][i] = r  BY DEF Asked
    <2>2. c_pc[c] = "count" /\ c_pc'[c] = "edge"  BY <2>1 DEF Asked
    <2>3. Creating(c, n)'  BY <1>u, <2>2 DEF Creating, Linking
    <2> QED  BY <2>1, <2>3 DEF Ahead
<1>9. \A r \in Nodes : ~FastOpen(r, n)'
    <2> SUFFICES ASSUME NEW r \in Nodes, FastOpen(r, n)' PROVE FALSE  OBVIOUS
    <2>1. IsFast(r, n)  BY <1>u DEF FastOpen, IsFast
    <2>2. ~HasBit(r, n)' /\ node_id[n] \notin fast_down_strams_bak[r]  BY <1>0, <1>5, <2>1
    <2>3. /\ \A d \in Clients : ~At(d, n, r, "read_bak")'
          /\ \A d \in Clients : ~At(d, n, r, "bit_load")'
        BY <1>7 DEF At, Creating, Linking
    <2> QED  BY <1>8, <1>u, <2>2, <2>3 DEF FastOpen
<1>10. Fits(Reasons(n), wait_count[n])'
    <2>1. PICK k \in Nat : k = Len(todo[c])
        <3>1. todo[c] \in Seq(Nodes \cup {nullptr})  BY DEF Types, ClientTypes
        <3> QED  BY <3>1
    <2>2. ASSUME NEW r \in 0 .. MaxNodes, NEW i \in Nat, Open(n, r, i)'
          PROVE  r = 0 /\ i \in 1 .. k
        <3>1. CASE r = 0 /\ \E d \in Clients : Creating(d, n)' /\ i \in 1 .. Left(d)'
            <4>1. c_pc'[c] = "edge" /\ i \in 1 .. Left(c)'  BY <1>7, <3>1
            <4> QED  BY <2>1, <3>1, <4>1 DEF Left
        <3>2. CASE r \in Nodes /\ i = 0 /\ FastOpen(r, n)'  BY <1>9, <3>2
        <3>3. CASE r \in Nodes /\ i \in DOMAIN down_streams[r] /\ down_streams[r][i] = n
            BY <1>0, <3>3
        <3> QED  BY <2>2, <3>1, <3>2, <3>3 DEF Open
    <2>3. PICK T : T = Reasons(n)'  OBVIOUS
    <2>4. \A t \in T : t = <<0, t[2]>> /\ t[2] \in 1 .. k
        BY <2>2, <2>3 DEF Reasons
    <2>5. IsFiniteSet(1 .. k) /\ Cardinality(1 .. k) = k
        <3>1. 1 \in Int /\ k \in Int  BY <2>1
        <3>2. IsFiniteSet(1 .. k) /\ Cardinality(1 .. k) = IF 1 > k THEN 0 ELSE k - 1 + 1
            BY ONLY <3>1, FS_Interval
        <3> QED  BY <2>1, <3>2
    <2>6. [t \in T |-> t[2]] \in Injection(T, 1 .. k)
        BY <2>4 DEF Injection, IsInjective
    <2>7. IsFiniteSet(T) /\ Cardinality(T) <= k  BY <2>5, <2>6, FS_Injection
    <2> QED  BY <2>1, <2>3, <2>7 DEF Fits
<1>11. Counts'
    <2> SUFFICES ASSUME NEW m \in Nodes, Linked(m)'
                 PROVE  Fits(Reasons(m), wait_count[m])'
        BY DEF Counts
    <2>1. CASE m = n  BY <1>10, <2>1
    <2>2. CASE m # n  BY <1>4, <1>6, <2>2, LinkOthers
    <2> QED  BY <2>1, <2>2
<1>12. Pushed'
    <2> SUFFICES ASSUME NEW m \in Nodes, Linked(m)', NEW r \in required'[m],
                        status'[r] \notin Ended, ~IsFast(r, m)', ~Ahead(m, r)'
                 PROVE  \E i \in DOMAIN down_streams'[r] : down_streams'[r][i] = m
        BY DEF Pushed
    <2>1. CASE m = n  BY <1>8, <1>u, <2>1
    <2>2. CASE m # n
        <3>1. Linked(m) /\ ~IsFast(r, m)  BY <1>4, <1>u, <2>2 DEF IsFast
        <3> QED  BY <1>6, <1>u, <2>2, <3>1, LinkOthers
    <2> QED  BY <2>1, <2>2
<1> QED  BY <1>1, <1>2, <1>3, <1>11, <1>12

\* A node with nothing to wait for.
LEMMA ReadyAtOnceEdges ==
    ASSUME EdgeInv, NEW c \in Clients, ReadyAtOnce(c)
    PROVE  Edges'
<1> USE DEF EdgeInv, LifeInv, Edges
<1>1. /\ UNCHANGED <<nodeVars, new_node, todo, reg, w_pc, task, made, required>>
      /\ c_pc[c] = "ready"
    BY DEF ReadyAtOnce, CGo, workerVars, boundVars
<1>2. /\ \A d \in Clients \ {c} : c_pc'[d] = c_pc[d]
      /\ c_pc'[c] = "idle"
    BY DEF ReadyAtOnce, CGo, Types, ClientTypes
<1>3. PICK n \in Nodes : n = new_node[c]  BY <1>1, InCall
<1>4. wait_count[n] = 0 /\ Len(todo[c]) = 0
    BY <1>1, <1>3, NoEdgeToNew DEF Asked
<1>5. ClientStep(c)  BY <1>1, <1>2 DEF ClientStep, nodeVars
<1> QED  BY <1>1, <1>2, <1>3, <1>4, <1>5, StartsLinking DEF nodeVars

\* One count for each required node.
LEMMA AddWaitCountEdges ==
    ASSUME EdgeInv, NEW c \in Clients, AddWaitCount(c)
    PROVE  Edges'
<1> USE DEF EdgeInv, LifeInv, Edges
<1>1. /\ UNCHANGED <<status, parent_graph, node_id, fast_down_strams, fast_down_strams_bak,
                     down_streams, new_node, todo, reg, w_pc, task, made, required>>
      /\ c_pc[c] = "count"
    BY DEF AddWaitCount, CGo, workerVars, boundVars
<1>2. /\ \A d \in Clients \ {c} : c_pc'[d] = c_pc[d]
      /\ c_pc'[c] = "edge"
    BY DEF AddWaitCount, CGo, Types, ClientTypes
<1>3. PICK n \in Nodes : n = new_node[c]  BY <1>1, InCall
<1>4. wait_count[n] = 0  BY <1>1, <1>3, NoEdgeToNew
<1>5. ClientStep(c)  BY <1>1, <1>2 DEF ClientStep
<1>6. /\ wait_count'[n] = Len(todo[c])
      /\ \A m \in Nodes : m # n => wait_count'[m] = wait_count[m]
    <2>1. todo[c] \in Seq(Nodes \cup {nullptr})  BY DEF Types, ClientTypes
    <2>2. PICK k \in Nat : k = Len(todo[c])  BY <2>1
    <2>3. wait_count' = [wait_count EXCEPT ![n] = @ + k]
        BY <1>3, <2>2 DEF AddWaitCount
    <2> QED  BY <1>4, <2>2, <2>3 DEF Types, NodeTypes
<1> QED  BY <1>1, <1>2, <1>3, <1>5, <1>6, StartsLinking

-----------------------------------------------------------------------------
(* The invariant *)

\* At the start no node has a count and none has an edge.
LEMMA InitEdges ==
    ASSUME Init
    PROVE  Edges
<1> USE DEF Init, Node
<1>1. Named /\ Asked  BY DEF Named, Asked
<1>2. TakenOnce  BY DEF TakenOnce
<1>3. \A n \in Nodes : ~Linked(n)  BY DEF Linked, Committed
<1>4. Pushed /\ Counts  BY <1>3 DEF Pushed, Counts
<1> QED  BY <1>1, <1>2, <1>4 DEF Edges

\* A step that changes nothing.
LEMMA StutterEdges ==
    ASSUME EdgeInv, UNCHANGED vars
    PROVE  Edges'
<1> USE DEF vars, nodeVars, graphVars, clientVars, workerVars, boundVars
<1>1. EndsStay  BY StillEnds
<1>2. \A w \in Workers : w_pc'[w] = "take_bak" => w_pc[w] = "take_bak" /\ task'[w] = task[w]
    OBVIOUS
<1> QED  BY <1>1, <1>2, WorkerQuiet

\* Every step keeps the edges.
LEMMA NextEdges ==
    ASSUME EdgeInv, [Next]_vars
    PROVE  Edges'
<1>1. ASSUME NEW c \in Clients, StartCreate(c) PROVE Edges'
    BY <1>1, CountNodeEdges DEF StartCreate
<1>2. ASSUME NEW c \in Clients, create_edges(c) PROVE Edges'
    BY <1>2, RegisterEdges, ReadyAtOnceEdges, AddWaitCountEdges, SkipEdgeEdges, TryEdgeEdges,
       BitLoadEdges, BitStoreEdges, ReadBakEdges, PushDownstreamEdges
       DEF create_edges
<1>3. ASSUME NEW c \in Clients, NEW g \in Graphs, StartWait(c, g) \/ clear_graph(c, g)
      PROVE  Edges'
    BY <1>3, StartWaitEdges, clear_graphEdges
<1>4. ASSUME NEW c \in Clients, block_thread_for_group(c) PROVE Edges'
    BY <1>4, WaitTestEdges, WaitLockEdges, SemaWaitEdges, FreeWaiterEdges
       DEF block_thread_for_group
<1>5. ASSUME NEW w \in Workers, do_schedule(w) PROVE Edges'
    BY <1>5, DequeueEdges, ResumeEdges, RunEdges, FinishEdges, TakeBakEdges, NotifyFastEdges,
       NotifyDownEdges, LeaveGraphEdges, NotifyWaitersEdges, PickNextEdges, RecoverEdges
       DEF do_schedule, run_task
<1>6. ASSUME UNCHANGED vars PROVE Edges'  BY <1>6, StutterEdges
<1> QED  BY <1>1, <1>2, <1>3, <1>4, <1>5, <1>6 DEF Next

\* Every edge that is still to be followed is counted in wait_count, in every
\* reachable state: add_wait_count, add_downstream and finish()
\* (graph.cpp:290-330, 408-465, node.cpp:120-157) never count one twice.
THEOREM EdgeInvariant == Spec => []EdgeInv
<1>1. Init => EdgeInv  BY InitLife, InitEdges DEF EdgeInv
<1>2. EdgeInv /\ [Next]_vars => EdgeInv'  BY NextLife, NextEdges DEF EdgeInv
<1> QED  BY <1>1, <1>2, PTL DEF Spec

-----------------------------------------------------------------------------
(* What follows *)

\* A node that has started, or is on its way to a worker, has no reason to wait.
LEMMA NothingOpen ==
    ASSUME EdgeInv, NEW n \in Nodes, Placed(n) \/ status[n] # "Initing",
           parent_graph[n] \in Graphs
    PROVE  wait_count[n] = 0 /\ \A r \in 0 .. MaxNodes, i \in Nat : ~Open(n, r, i)
<1> USE DEF EdgeInv, LifeInv, Edges
<1>1. Committed(n) /\ wait_count[n] <= 0 /\ wait_count[n] \in Int
    BY DEF Placement, Released, Types, NodeTypes
<1>2. Fits(Reasons(n), wait_count[n])  BY <1>1 DEF Counts, Linked
<1>3. wait_count[n] >= 0 /\ (Reasons(n) # {} => wait_count[n] >= 1)  BY <1>1, <1>2, FitsBound
<1>4. Reasons(n) = {} /\ wait_count[n] = 0  BY <1>1, <1>3
<1>5. ASSUME NEW r \in 0 .. MaxNodes, NEW i \in Nat PROVE ~Open(n, r, i)
    <2>1. Open(n, r, i) => <<r, i>> \in Reasons(n)  BY DEF Reasons
    <2> QED  BY <1>4, <2>1
<1> QED  BY <1>4, <1>5

\* A required node that has not finished is a reason.
LEMMA RequiredIsOpen ==
    ASSUME EdgeInv, NEW n \in Nodes, Linked(n), NEW r \in required[n], status[r] \notin Ended
    PROVE  \E q \in 0 .. MaxNodes, i \in Nat : Open(n, q, i)
<1> USE DEF EdgeInv, LifeInv, Edges
<1>0. /\ r \in Nodes /\ r \in 0 .. MaxNodes /\ 0 \in 0 .. MaxNodes
      /\ fast_down_strams_bak[r] = fast_down_strams_bak_init
    BY BoundAssumption DEF Types, NodeTypes, Nodes, TakenOnce
<1>1. CASE Ahead(n, r)
    <2>c. PICK c \in Clients : Creating(c, n) /\ \E i \in DOMAIN todo[c] : todo[c][i] = r
        BY <1>1 DEF Ahead
    <2>1. PICK i \in DOMAIN todo[c] : Creating(c, n) /\ todo[c][i] = r
        BY <2>c
    <2>2. /\ todo[c] \in Seq(Nodes \cup {nullptr}) /\ Len(todo[c]) \in Nat \ {0}
          /\ Head(todo[c]) = todo[c][1] /\ i \in 1 .. Len(todo[c])
        BY <2>1, HeadOfTodo DEF Creating
    <2>3. CASE Left(c) >= 1
        <3>1. Left(c) \in Int  BY <2>2 DEF Left
        <3>2. 1 \in 1 .. Left(c) /\ 1 \in Nat  BY <2>3, <3>1
        <3>3. Open(n, 0, 1)  BY <2>1, <3>2 DEF Open
        <3> QED  BY <1>0, <3>2, <3>3
    <2>4. CASE ~(Left(c) >= 1)
        <3>1. c_pc[c] = "read_bak" /\ i = 1  BY <2>2, <2>4 DEF Left
        <3>2. At(c, n, r, "read_bak")  BY <2>1, <2>2, <3>1 DEF At, Creating
        <3>3. IsFast(r, n)  BY <3>2 DEF At, Structure, Tested
        <3>4. Open(n, r, 0)  BY <1>0, <3>2, <3>3 DEF Open, FastOpen
        <3> QED  BY <1>0, <3>4
    <2> QED  BY <2>3, <2>4
<1>2. CASE ~Ahead(n, r) /\ IsFast(r, n)
    <2>1. Open(n, r, 0)  BY <1>0, <1>2 DEF Open, FastOpen
    <2> QED  BY <1>0, <2>1
<1>3. CASE ~Ahead(n, r) /\ ~IsFast(r, n)
    <2>1. PICK i \in DOMAIN down_streams[r] : down_streams[r][i] = n
        BY <1>3 DEF Pushed
    <2>2. i \in Nat  BY <1>0 DEF Types, NodeTypes
    <2>3. Open(n, r, i)  BY <1>0, <2>1 DEF Open, SlowOpen
    <2> QED  BY <1>0, <2>2, <2>3
<1> QED  BY <1>1, <1>2, <1>3

\* No node starts before all it was told to run after has finished.
THEOREM RequiredFirst == Spec => []RunsAfterRequired
<1>1. ASSUME EdgeInv PROVE RunsAfterRequired
    <2> SUFFICES ASSUME NEW n \in Nodes, parent_graph[n] \in Graphs, status[n] # "Initing",
                        NEW r \in required[n], status[r] \notin Ended
                 PROVE  FALSE
        BY DEF RunsAfterRequired
    <2>1. Linked(n)
        BY <1>1 DEF Linked, EdgeInv, LifeInv, Placement, Released
    <2>2. \E q \in 0 .. MaxNodes, i \in Nat : Open(n, q, i)  BY <1>1, <2>1, RequiredIsOpen
    <2>3. \A q \in 0 .. MaxNodes, i \in Nat : ~Open(n, q, i)  BY <1>1, NothingOpen
    <2> QED  BY <2>2, <2>3
<1> QED  BY <1>1, EdgeInvariant, PTL

\* Where OnePlace puts a node, Places counts it once.
LEMMA OneIsCounted ==
    ASSUME LifeInv, NEW n \in Nodes, Places(n) > 0
    PROVE  Placed(n) /\ Places(n) = 1 /\ status[n] = "Initing"
<1> USE DEF LifeInv
<1> DEFINE A == {p \in Workers \X Nodes :
                    p[2] \in DOMAIN notified_nodes[p[1]] /\ notified_nodes[p[1]][p[2]] = n}
           B == {w \in Workers : next_task[w] = n}
           C == {w \in Workers : w_pc[w] = "start" /\ task[w] = n}
<1>0. OnePlace(n) /\ Places(n) = task_queue[n] + Cardinality(A) + Cardinality(B) + Cardinality(C)
    BY DEF Placement, Exclusive, Places
<1>1. A = {} \/ \E p : A = {p}
    <2>1. ASSUME NEW p \in A, NEW q \in A PROVE p = q
        <3>1. Noted(p[1], n) /\ Noted(q[1], n)  BY DEF Noted
        <3>2. p[1] = q[1]  BY <1>0, <3>1 DEF OnePlace
        <3>3. p[2] = q[2]  BY <1>0, <3>2 DEF OnePlace
        <3> QED  BY <3>2, <3>3
    <2> HIDE DEF A
    <2> QED  BY <2>1
<1>2. B = {} \/ \E w : B = {w}
    <2> SUFFICES ASSUME NEW v \in B, NEW w \in B PROVE v = w  OBVIOUS
    <2> QED  BY <1>0 DEF OnePlace
<1>3. C = {} \/ \E w : C = {w}
    <2> SUFFICES ASSUME NEW v \in C, NEW w \in C PROVE v = w  OBVIOUS
    <2>1. Doing(v, n) /\ Doing(w, n)  BY DEF Doing
    <2> QED  BY <1>0, <2>1 DEF OnePlace
<1>4. /\ (A = {} => Cardinality(A) = 0) /\ (A # {} => Cardinality(A) = 1)
      /\ (B = {} => Cardinality(B) = 0) /\ (B # {} => Cardinality(B) = 1)
      /\ (C = {} => Cardinality(C) = 0) /\ (C # {} => Cardinality(C) = 1)
    <2> HIDE DEF A, B, C
    <2> QED  BY <1>1, <1>2, <1>3, FS_Singleton, FS_EmptySet
<1>5. /\ A # {} => \E w \in Workers : Noted(w, n)
      /\ B # {} => \E w \in Workers : next_task[w] = n
      /\ C # {} => \E w \in Workers : Doing(w, n) /\ w_pc[w] = "start"
    BY DEF Noted, Doing
<1>6. /\ Queued(n) => A = {} /\ B = {} /\ C = {}
      /\ A # {} => B = {} /\ C = {}
      /\ B # {} => C = {}
    <2>1. \A w \in Workers : w \in C => Doing(w, n)  BY DEF Doing
    <2>2. \A p \in A : p[1] \in Workers /\ Noted(p[1], n)  BY DEF Noted
    <2> QED  BY <1>0, <2>1, <2>2 DEF OnePlace
<1> HIDE DEF A, B, C
<1>7. task_queue[n] \in {0, 1} /\ (Queued(n) <=> task_queue[n] = 1)
    BY <1>0 DEF OnePlace, Queued
<1>8. Places(n) = 1 /\ (Queued(n) \/ A # {} \/ B # {} \/ C # {})
    BY <1>0, <1>4, <1>6, <1>7
<1>9. Placed(n)  BY <1>5, <1>8 DEF Placed
<1>10. status[n] = "Initing"
    BY <1>5, <1>8 DEF Placement, NotStarted
<1> QED  BY <1>8, <1>9, <1>10

\* Every node is handed to one worker, once, with nothing that holds it up.
THEOREM HandedOutOnce == Spec => []ReadyOnce
<1>1. ASSUME EdgeInv PROVE ReadyOnce
    <2> SUFFICES ASSUME NEW n \in Nodes, Places(n) > 0
                 PROVE  /\ Places(n) = 1 /\ status[n] = "Initing"
                        /\ \/ wait_count[n] = 0
                           \/ parent_graph[n] \in Clients /\ wait_count[n] < 0
        BY DEF ReadyOnce
    <2>1. Placed(n) /\ Places(n) = 1 /\ status[n] = "Initing"
        BY <1>1, OneIsCounted DEF EdgeInv
    <2>2. Committed(n) /\ wait_count[n] <= 0 /\ wait_count[n] \in Int
        BY <1>1, <2>1 DEF EdgeInv, LifeInv, Placement, Released, Types, NodeTypes
    <2>3. CASE parent_graph[n] \in Graphs
        BY <1>1, <2>1, <2>3, NothingOpen
    <2>4. CASE parent_graph[n] \in Clients  BY <2>1, <2>2, <2>4
    <2>5. parent_graph[n] \in Graphs \cup Clients
        <3>1. parent_graph[n] \in AllGraphs \cup {nullptr}
            BY <1>1 DEF EdgeInv, LifeInv, Types, NodeTypes
        <3>2. parent_graph[n] # nullptr
            BY <1>1, <2>2 DEF EdgeInv, LifeInv, Structure, Homed, Committed, Early
        <3> QED  BY <3>1, <3>2 DEF AllGraphs
    <2> QED  BY <2>1, <2>3, <2>4, <2>5
<1> QED  BY <1>1, EdgeInvariant, PTL

-----------------------------------------------------------------------------
(* Released nodes *)

\* The nodes of the clients' graphs that finish() goes through are waiting, and
\* the node that finishes is not released either; only a waiter may be, which
\* Graph::down_streams still holds when its graph comes to zero again.
TouchedAlive == \A w \in Workers : LET n == task[w] IN
    w_pc[w] # "idle" =>
        /\ status[n] # "Destroy"
        /\ w_pc[w] = "fast" => \A id \in fast_down_strams_bak[n] :
              id < fast_node_max_num => status[get_node(n, id)] = "Initing"
        /\ w_pc[w] = "down" =>
              \A i \in DOMAIN down_streams[n] : status[down_streams[n][i]] = "Initing"
        /\ \A i \in DOMAIN notified_nodes[w] : status[notified_nodes[w][i]] = "Initing"

\* A node with a reason to wait has not started.
LEMMA OpenWaits ==
    ASSUME EdgeInv, NEW n \in Nodes, parent_graph[n] \in Graphs,
           NEW r \in 0 .. MaxNodes, NEW i \in Nat, Open(n, r, i)
    PROVE  status[n] = "Initing"
BY NothingOpen

\* What the bits of a bitmap that finish() has taken stand for.
LEMMA BitIsOpen ==
    ASSUME EdgeInv, NEW r \in Nodes, Working(r, {"fast"}),
           NEW id \in fast_down_strams_bak[r], id < fast_node_max_num
    PROVE  get_node(r, id) \in Nodes /\ status[get_node(r, id)] = "Initing"
<1> USE DEF EdgeInv, LifeInv
<1>1. id \in Nat /\ id # fast_node_max_num
    BY BoundAssumption DEF Types, NodeTypes, Bits
<1>2. Owned(r, id)  BY <1>1 DEF Structure, BitsOwned
<1>3. PICK g \in Graphs : g = parent_graph[r]  BY <1>2 DEF Owned
<1>4. PICK i : i \in DOMAIN g_nodes[g] /\ i = id + 1  BY <1>2, <1>3 DEF Owned
<1>5. PICK n : n = g_nodes[g][i] /\ n = get_node(r, id)  BY <1>3, <1>4 DEF get_node
<1>6. n \in Nodes /\ parent_graph[n] = g /\ node_id[n] = id
    <2>0. g \in AllGraphs /\ g_nodes[g] \in Seq(Nodes)
        BY DEF Types, GraphTypes, AllGraphs
    <2>1. n \in Nodes
        <3>1. PICK s \in Seq(Nodes) : s = g_nodes[g]  BY <2>0
        <3>2. i \in DOMAIN s /\ n = s[i]  BY <1>4, <1>5, <3>1
        <3>3. s[i] \in Nodes  BY <3>2
        <3> QED  BY <3>2, <3>3
    <2>2. parent_graph[g_nodes[g][i]] = g /\ node_id[g_nodes[g][i]] = i - 1
        BY <1>4 DEF Structure, GraphLists
    <2>3. parent_graph[n] = g /\ node_id[n] = i - 1  BY <1>5, <2>2
    <2> QED  BY <1>1, <1>4, <2>1, <2>3
<1>7. IsFast(r, n)  BY <1>3, <1>6 DEF IsFast
<1>8. fast_down_strams_bak[r] # fast_down_strams_bak_init
    BY <1>1 DEF fast_down_strams_bak_init
<1>9. Open(n, r, 0) /\ r \in 0 .. MaxNodes
    BY <1>6, <1>7, <1>8 DEF Open, FastOpen, Nodes
<1>10. status[n] = "Initing"  BY <1>3, <1>6, <1>9, OpenWaits
<1> QED  BY <1>5, <1>6, <1>10

\* From the invariant.
LEMMA Touched ==
    ASSUME EdgeInv
    PROVE  TouchedAlive
<1> USE DEF EdgeInv, LifeInv
<1> SUFFICES ASSUME NEW w \in Workers, w_pc[w] # "idle"
             PROVE  LET n == task[w] IN
        /\ status[n] # "Destroy"
        /\ w_pc[w] = "fast" => \A id \in fast_down_strams_bak[n] :
              id < fast_node_max_num => status[get_node(n, id)] = "Initing"
        /\ w_pc[w] = "down" =>
              \A i \in DOMAIN down_streams[n] : status[down_streams[n][i]] = "Initing"
        /\ \A i \in DOMAIN notified_nodes[w] : status[notified_nodes[w][i]] = "Initing"
    BY DEF TouchedAlive
<1>1. PICK n \in Nodes : n = task[w]  BY DEF Types, WorkerTypes
<1>2. status[n] # "Destroy"
    <2>1. w_pc[w] = "start" => status[n] = "Initing"
        BY <1>1 DEF Placement, NotStarted, Doing
    <2>2. w_pc[w] \in {"start", "run", "finish"} \cup Leaving
        BY DEF Types, WorkerTypes, WorkerPoints
    <2> QED  BY <1>1, <2>1, <2>2 DEF Placement, Started
<1>3. ASSUME w_pc[w] = "fast", NEW id \in fast_down_strams_bak[n], id < fast_node_max_num
      PROVE  status[get_node(n, id)] = "Initing"
    BY <1>1, <1>3, BitIsOpen DEF Working
<1>4. ASSUME w_pc[w] = "down", NEW i \in DOMAIN down_streams[n]
      PROVE  status[down_streams[n][i]] = "Initing"
    <2>1. down_streams[n] \in Seq(Nodes)  BY DEF Types, NodeTypes
    <2>2. PICK d \in Nodes : d = down_streams[n][i]  BY <2>1
    <2>3. parent_graph[d] \in Graphs  BY <2>2 DEF Structure, Listed
    <2>4. SlowOpen(n)  BY <1>1, <1>4 DEF SlowOpen, Working
    <2>5. Open(d, n, i) /\ i \in Nat /\ n \in 0 .. MaxNodes
        BY <2>1, <2>2, <2>4 DEF Open, Nodes
    <2> QED  BY <2>2, <2>3, <2>5, OpenWaits
<1>5. ASSUME NEW i \in DOMAIN notified_nodes[w]
      PROVE  status[notified_nodes[w][i]] = "Initing"
    <2>1. notified_nodes[w] \in Seq(Nodes)  BY DEF Types, WorkerTypes
    <2>2. notified_nodes[w][i] \in Nodes /\ Noted(w, notified_nodes[w][i])  BY <2>1 DEF Noted
    <2> QED  BY <2>2 DEF Placement, NotStarted
<1> QED  BY <1>1, <1>2, <1>3, <1>4, <1>5

\* No node of a client's graph is touched after clear_graph has released it
\* (graph.cpp:182-198, node.cpp:72-77, 120-157), with any number of waits.
THEOREM NodesStayAlive == Spec => []TouchedAlive
BY Touched, EdgeInvariant, PTL

\* Without waits there is no waiter.
NoWaiter == \A n \in Nodes : parent_graph[n] \notin Clients

\* Only register puts a node into a client's own graph, and no wait has begun.
LEMMA WaiterFree ==
    ASSUME MaxWaits = 0
    PROVE  Spec => []NoWaiter
<1>1. Init => NoWaiter
    BY NameAssumption DEF Init, Node, NoWaiter, AllGraphs
<1>2. ASSUME LifeInv, NoWaiter, [Next]_vars PROVE NoWaiter'
    <2> USE DEF LifeInv
    <2>1. ASSUME NEW c \in Clients, Register(c) PROVE NoWaiter'
        <3>1. target[c] \in Graphs /\ c_pc[c] = "register"
            BY <1>2, <2>1 DEF Register, CGo, Structure, Belongs
        <3>2. \A n \in Nodes : parent_graph'[n] \in {parent_graph[n], target[c]}
            BY <1>2, <2>1 DEF Register, Types, NodeTypes
        <3> QED  BY <1>2, <3>1, <3>2, NameAssumption DEF NoWaiter
    <2>2. ASSUME NEW c \in Clients, NEW g \in Graphs, StartWait(c, g) PROVE FALSE
        <3>1. waits \in Nat /\ waits < 0  BY <1>2, <2>2 DEF StartWait, Types, GraphTypes
        <3> QED  BY <3>1
    <2>3. ASSUME UNCHANGED parent_graph PROVE NoWaiter'  BY <1>2, <2>3 DEF NoWaiter
    <2>4. ASSUME NEW c \in Clients, create_edges(c) PROVE Register(c) \/ UNCHANGED parent_graph
        BY <2>4 DEF create_edges, ReadyAtOnce, AddWaitCount, SkipEdge, TryEdge, BitLoad,
           BitStore, ReadBak, PushDownstream, nodeVars
    <2>5. ASSUME NEW c \in Clients, block_thread_for_group(c) PROVE UNCHANGED parent_graph
        BY <2>5 DEF block_thread_for_group, WaitTest, WaitLock, SemaWait, FreeWaiter, nodeVars
    <2>6. ASSUME NEW w \in Workers, do_schedule(w) PROVE UNCHANGED parent_graph
        BY <2>6 DEF do_schedule, run_task, Dequeue, Resume, Run, Finish, TakeBak, NotifyFast,
           NotifyDown, LeaveGraph, NotifyWaiters, PickNext, Recover, nodeVars
    <2>7. ASSUME NEW c \in Clients, StartCreate(c) PROVE UNCHANGED parent_graph
        BY <2>7 DEF StartCreate, CountNode, nodeVars
    <2>8. ASSUME NEW c \in Clients, NEW g \in Graphs, clear_graph(c, g)
          PROVE  UNCHANGED parent_graph
        BY <2>8 DEF clear_graph, ClearOnce
    <2>9. ASSUME UNCHANGED vars PROVE UNCHANGED parent_graph  BY <2>9 DEF vars, nodeVars
    <2> QED  BY <1>2, <2>1, <2>2, <2>3, <2>4, <2>5, <2>6, <2>7, <2>8, <2>9 DEF Next
<1> QED  BY <1>1, <1>2, LifeInvariant, PTL DEF Spec

\* Where nobody waits for a graph, finish() touches no released node at all.
THEOREM NoneDangles ==
    ASSUME MaxWaits = 0
    PROVE  Spec => []NoDanglingNode
<1>1. ASSUME EdgeInv, NoWaiter PROVE NoDanglingNode
    <2> USE DEF EdgeInv, LifeInv
    <2> SUFFICES ASSUME NEW w \in Workers, w_pc[w] # "idle", NEW d,
                    LET n == task[w]
                        fast == {id \in fast_down_strams_bak[n] : id < fast_node_max_num}
                        touched == CASE w_pc[w] = "fast"    -> {get_node(n, id) : id \in fast}
                         [] w_pc[w] = "down"    -> ToSet(down_streams[n])
                         [] w_pc[w] = "waiters" -> ToSet(g_down_streams[parent_graph[n]])
                         [] OTHER               -> ToSet(notified_nodes[w])
                    IN d \in touched \cup {n}
                 PROVE  status[d] # "Destroy"
        BY DEF NoDanglingNode
    <2>1. PICK n \in Nodes : n = task[w]  BY <1>1 DEF Types, WorkerTypes
    <2>2. TouchedAlive  BY <1>1, Touched
    <2>3. CASE d = n  BY <2>1, <2>2, <2>3 DEF TouchedAlive
    <2>4. CASE w_pc[w] = "fast" /\ d # n
        <3>1. PICK id \in fast_down_strams_bak[n] : id < fast_node_max_num /\ d = get_node(n, id)
            BY <2>1, <2>4
        <3> QED  BY <2>1, <2>2, <2>4, <3>1 DEF TouchedAlive
    <2>5. CASE w_pc[w] = "down" /\ d # n
        <3>1. d \in ToSet(down_streams[n])  BY <2>1, <2>5
        <3>2. PICK i \in DOMAIN down_streams[n] : d = down_streams[n][i]  BY <3>1 DEF ToSet
        <3> QED  BY <2>1, <2>2, <2>5, <3>2 DEF TouchedAlive
    <2>6. CASE w_pc[w] = "waiters" /\ d # n
        <3>1. d \in ToSet(g_down_streams[parent_graph[n]])  BY <2>1, <2>6
        <3>2. PICK i \in DOMAIN g_down_streams[parent_graph[n]] :
                  d = g_down_streams[parent_graph[n]][i]
            BY <3>1 DEF ToSet
        <3>3. Committed(n) /\ parent_graph[n] \in AllGraphs
            BY <1>1, <2>1, OwnTask, HasGraph
        <3>4. d \in Nodes  BY <1>1, <3>2, <3>3 DEF Types, GraphTypes
        <3>5. parent_graph[d] \in Clients  BY <1>1, <3>2, <3>3 DEF Structure, Listed
        <3> QED  BY <1>1, <3>4, <3>5 DEF NoWaiter
    <2>7. CASE w_pc[w] \notin {"fast", "down", "waiters"} /\ d # n
        <3>1. d \in ToSet(notified_nodes[w])  BY <2>1, <2>7
        <3>2. PICK i \in DOMAIN notified_nodes[w] : d = notified_nodes[w][i]
            BY <3>1 DEF ToSet
        <3> QED  BY <2>2, <3>2 DEF TouchedAlive
    <2> QED  BY <2>3, <2>4, <2>5, <2>6, <2>7
<1> QED  BY <1>1, EdgeInvariant, WaiterFree, PTL
=============================================================================
