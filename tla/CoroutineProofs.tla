-------------------------- MODULE CoroutineProofs --------------------------
(***************************************************************************)
(* Coroutine, for every number of workers, tasks, waits and stacks: no     *)
(* stack has two users, a context that is left is entered again by one     *)
(* worker, when destroy() has returned nothing is left, and the tasks see  *)
(* no more than TaskLife.                                                  *)
(*                                                                         *)
(* What is to be proved says where the workers stand.  It follows from an  *)
(* invariant about the contexts: each that exists has one holder.  A       *)
(* worker stands on it, or has just left it and is to mark or to delete    *)
(* it, or it is suspended and a back node names it.  The back node and the *)
(* context name each other, and the place the context's code stands at     *)
(* says what state its task is in.                                         *)
(***************************************************************************)
EXTENDS Coroutine, FiniteSetTheorems, TLAPS

Live(x) == c_status[x] # "none"

\* The places of code that has a node, that waits, and that has none.
Busy == {"start", "run", "edges", "yield", "back", "resumed", "notify", "recover"}
Ending == {"notify", "recover"}
Bound == {"edges", "yield", "resumed"}
Idle == {"routine", "enter", "loop", "ended", "joined"}

Types ==
    /\ c_status \in [Contexts -> Statuses] /\ c_pc \in [Contexts -> Points]
    /\ c_task \in [Contexts -> Nodes \cup {nullptr}]
    /\ c_notified \in [Contexts -> SUBSET Nodes]
    /\ c_nodes \in [Contexts -> (SUBSET Tasks) \cup {{g} : g \in Graphs}]
    /\ c_back \in [Contexts -> BackNodes \cup {nullptr}]
    /\ context_ptr \in [Workers -> Contexts \cup {nullptr}]
    /\ context_pre_ptr \in [Workers -> Contexts \cup {nullptr}]
    /\ current_task \in [Workers -> Nodes \cup {nullptr}]
    /\ status \in [Nodes -> Statuses]
    /\ waits \in [Nodes -> (SUBSET Tasks) \cup {{g} : g \in Graphs}]
    /\ back_task \in [BackNodes -> Tasks \cup {nullptr}]
    /\ back_run_context_ptr \in [BackNodes -> Contexts \cup {nullptr}]
    /\ queue \subseteq Nodes
    /\ m_pc \in {"init", "open", "clear", "destroy", "join", "done"}
    /\ made \in 0 .. MaxNodes

-----------------------------------------------------------------------------
(* Who holds a context *)

\* A worker's own context: it has not left it, has come back to it with
\* the coroutine it is to delete, or is away.
OwnContext == \A w \in Workers :
    \/ /\ context_ptr[w] = nullptr /\ context_pre_ptr[w] = nullptr
       /\ c_pc[w] \in {"routine", "joined"} /\ c_status[w] = "none"
    \/ /\ context_ptr[w] = w /\ context_pre_ptr[w] \in Coroutines
       /\ c_pc[w] = "ended" /\ c_status[w] = "Yield"
    \/ /\ context_ptr[w] \in Coroutines
       /\ c_pc[w] = "ended"
       /\ c_status[w] = IF context_pre_ptr[w] = w THEN "Ready" ELSE "Yield"

\* The coroutine a worker stands on.
Standing == \A w \in Workers : context_ptr[w] \in Coroutines =>
    /\ c_pc[context_ptr[w]] \in Busy \cup {"enter", "loop"}
    /\ c_status[context_ptr[w]] = IF At(w, "enter") THEN "Initing" ELSE "Running"

\* The context it came from.
Behind == \A w \in Workers : LET p == context_pre_ptr[w] IN
    /\ p # nullptr <=> c_pc[On(w)] \in {"enter", "resumed"} \/ context_ptr[w] = w
    /\ p \in Coroutines =>
          /\ c_status[p] = "Running"
          /\ c_pc[p] = CASE context_ptr[w] = w -> "loop"
                         [] At(w, "enter") -> "resumed"
                         [] OTHER -> "back"
          /\ At(w, "resumed") => c_task[p] = c_back[On(w)]
    /\ p \in Workers => p = w /\ At(w, "enter")

OneHolder ==
    /\ \A v, w \in Workers : v # w => On(v) # On(w)
    /\ \A v, w \in Workers : context_pre_ptr[v] # nullptr =>
          /\ context_pre_ptr[v] # context_ptr[w]
          /\ v # w => context_pre_ptr[v] # context_pre_ptr[w]

\* A context that exists and that no worker has.
Suspended == \A x \in Coroutines :
    /\ c_status[x] = "Yield" => c_pc[x] = "resumed"
    /\ \/ c_status[x] \in {"none", "Yield"}
       \/ \E w \in Workers : context_ptr[w] = x \/ context_pre_ptr[w] = x

-----------------------------------------------------------------------------
(* Nodes *)

\* The locals that count, by the place of the code.
Locals == \A x \in Contexts :
    /\ c_task[x] # nullptr <=> Live(x) /\ c_pc[x] \in Busy
    /\ c_back[x] # nullptr <=> Live(x) /\ c_pc[x] \in Bound
    /\ c_notified[x] # {} => Live(x) /\ c_pc[x] \in Ending
    /\ Live(x) /\ c_pc[x] \in Busy \ {"start"} =>
          IF c_pc[x] = "back" THEN c_task[x] \in BackNodes ELSE c_task[x] \in Tasks

\* A back node and the context it is to enter.
Bonds == \A b \in BackNodes :
    /\ back_run_context_ptr[b] # nullptr <=> status[b] \in {"Initing", "Recoverable"}
    /\ back_run_context_ptr[b] # nullptr =>
          /\ back_run_context_ptr[b] \in Coroutines
          /\ c_back[back_run_context_ptr[b]] = b
          /\ back_task[b] = c_task[back_run_context_ptr[b]]
    /\ \A x \in Contexts : c_back[x] = b => back_run_context_ptr[b] = x

\* The state of a node, by the place of the code that has it.
StateAt(pc) ==
    CASE pc = "start" -> "Initing" [] pc \in {"run", "edges", "yield"} -> "Running"
      [] pc = "resumed" -> "Yield" [] pc \in {"notify", "recover"} -> "Finish"
      [] pc = "back" -> "Recoverable"

Placed(n) == n \in queue \/ \E x \in Contexts : c_task[x] = n \/ n \in c_notified[x]

States ==
    /\ \A n \in Nodes : Placed(n) => waits[n] = {}
    /\ \A n \in Nodes : waits[n] # {} => status[n] = "Initing"
    /\ \A n \in queue : status[n] = "Initing"
    /\ \A x \in Contexts :
          /\ c_task[x] # nullptr => status[c_task[x]] = StateAt(c_pc[x])
          /\ \A n \in c_notified[x] : status[n] = "Initing"
          /\ Live(x) /\ c_pc[x] = "edges" =>
                status[c_back[x]] = "Initing" /\ waits[c_back[x]] = {} /\ ~Placed(c_back[x])
    /\ \A n \in Tasks : status[n] = "none" <=> n > made

OnePlace ==
    /\ \A x, y \in Contexts : x # y => /\ c_task[x] = c_task[y] => c_task[x] = nullptr
                                       /\ c_notified[x] \cap c_notified[y] = {}
    /\ \A x, y \in Contexts : c_task[x] \notin c_notified[y]
    /\ \A x \in Contexts : c_task[x] \notin queue /\ c_notified[x] \cap queue = {}

\* The worker names the task whose code it runs.
Current == \A w \in Workers :
    c_pc[On(w)] \in {"run", "edges", "yield", "resumed"} => current_task[w] = c_task[On(w)]

\* The main thread's view.
Main ==
    /\ m_pc \notin {"join", "done"} => flags = 0 /\ \A w \in Workers : c_pc[w] # "joined"
    /\ m_pc \in {"join", "done"} => \A n \in Nodes : ~Alive(n)
    /\ m_pc = "done" => \A w \in Workers : c_pc[w] = "joined"
    /\ flags \in 0 .. 2 * Cardinality(Workers)

Holders == OwnContext /\ Standing /\ Behind /\ OneHolder /\ Suspended
Tidy == Locals /\ Bonds /\ States /\ OnePlace /\ Current

-----------------------------------------------------------------------------
(* Numbers *)

Pooled == {s \in Workers \X Nat : s[2] \in 1 .. stack_pool[s[1]]}
LiveCoroutines == {x \in Coroutines : Live(x)}
IdleWorkers == {w \in Workers : c_pc[On(w)] \in Idle}

Pools ==
    /\ stack_pool \in [Workers -> 0 .. capacity]
    /\ \A w \in Workers : c_pc[w] = "joined" => stack_pool[w] = 0
    /\ IsFiniteSet(Pooled)
    /\ mapped = Cardinality(Pooled) + Cardinality(LiveCoroutines)

ContextInv == Types /\ Holders /\ Tidy /\ Main
CoroutineInv == ContextInv /\ Pools /\ IdleExact

-----------------------------------------------------------------------------
(* Sets *)

\* Workers are not numbers of coroutines or nodes, and null is none of these.
LEMMA Disjoint ==
    /\ nullptr \notin Workers /\ nullptr \notin Coroutines /\ nullptr \notin Nodes
    /\ Workers \cap Coroutines = {} /\ Workers \cap BackNodes = {}
    /\ Coroutines \subseteq Contexts /\ Workers \subseteq Contexts
    /\ Contexts = Workers \cup Coroutines
    /\ Tasks \subseteq Nodes /\ BackNodes \subseteq Nodes /\ Tasks \cap BackNodes = {}
    /\ Nodes = Tasks \cup BackNodes
<1>1. Cardinality(Workers) \in Nat /\ MaxNodes \in Nat /\ MaxWaits \in Nat
    BY CoroutineAssumption, FS_CardinalityType
<1>2. nullptr \notin Coroutines /\ nullptr \notin Nodes
    BY <1>1 DEF nullptr, Coroutines, Nodes, Tasks, BackNodes
<1>3. Tasks \cap BackNodes = {}  BY <1>1 DEF Tasks, BackNodes
<1> QED  BY <1>2, <1>3, CoroutineAssumption DEF Contexts, Nodes

\* The size of an interval.
LEMMA IntervalSize ==
    \A a, b : a \in Int /\ b \in Int =>
        /\ IsFiniteSet(a .. b)
        /\ Cardinality(a .. b) = IF a > b THEN 0 ELSE b - a + 1
<1> SUFFICES ASSUME NEW a \in Int, NEW b \in Int
             PROVE  /\ IsFiniteSet(a .. b)
                    /\ Cardinality(a .. b) = IF a > b THEN 0 ELSE b - a + 1
    OBVIOUS
<1> QED  BY FS_Interval

\* The stack of a worker that is neither at home nor about to leave home.
LEMMA Stack ==
    ASSUME Types, Holders, NEW w \in Workers, c_pc[On(w)] \in Busy \cup {"enter", "loop"}
    PROVE  /\ context_ptr[w] \in Coroutines /\ On(w) = context_ptr[w]
           /\ On(w) \in Contexts /\ On(w) \notin Workers /\ Live(On(w))
           /\ c_status[On(w)] = IF At(w, "enter") THEN "Initing" ELSE "Running"
           /\ ~At(w, "enter") /\ ~At(w, "resumed") => context_pre_ptr[w] = nullptr
           /\ At(w, "enter") \/ At(w, "resumed") => context_pre_ptr[w] # nullptr
           /\ c_pc[w] = "ended" /\ context_ptr[w] # nullptr /\ context_ptr[w] # w
<1>1. context_ptr[w] \in Coroutines
    BY DEF Holders, OwnContext, On, Busy
<1>2. On(w) = context_ptr[w] /\ context_ptr[w] # w /\ context_ptr[w] # nullptr
    BY <1>1, Disjoint DEF On
<1> QED  BY <1>1, <1>2, Disjoint DEF Holders, Standing, Behind, OwnContext, Live, At

\* What each worker's code has on its stack.
LEMMA Mine ==
    ASSUME Types, Holders, Tidy, NEW w \in Workers, c_pc[On(w)] \in Busy
    PROVE  /\ c_task[On(w)] \in Nodes /\ c_task[On(w)] # nullptr
           /\ status[c_task[On(w)]] = StateAt(c_pc[On(w)])
           /\ waits[c_task[On(w)]] = {} /\ c_task[On(w)] \notin queue
           /\ \A y \in Contexts : y # On(w) => c_task[y] # c_task[On(w)]
           /\ \A y \in Contexts : c_task[On(w)] \notin c_notified[y]
           /\ c_pc[On(w)] \notin {"start", "back"} => c_task[On(w)] \in Tasks
           /\ At(w, "back") => c_task[On(w)] \in BackNodes
           /\ c_pc[On(w)] \notin Ending => c_notified[On(w)] = {}
           /\ c_pc[On(w)] \notin Bound => c_back[On(w)] = nullptr
<1>1. On(w) \in Contexts /\ Live(On(w))  BY Stack
<1>2. c_task[On(w)] # nullptr  BY <1>1 DEF Tidy, Locals
<1>3. c_task[On(w)] \in Nodes  BY <1>1, <1>2 DEF Types
<1>4. Placed(c_task[On(w)])  BY <1>1 DEF Placed
<1>5. /\ status[c_task[On(w)]] = StateAt(c_pc[On(w)]) /\ waits[c_task[On(w)]] = {}
      /\ c_task[On(w)] \notin queue
    BY <1>1, <1>2, <1>3, <1>4 DEF Tidy, States, OnePlace
<1>6. /\ \A y \in Contexts : y # On(w) => c_task[y] # c_task[On(w)]
      /\ \A y \in Contexts : c_task[On(w)] \notin c_notified[y]
    BY <1>1, <1>2 DEF Tidy, OnePlace
<1>7. /\ c_pc[On(w)] \notin {"start", "back"} => c_task[On(w)] \in Tasks
      /\ At(w, "back") => c_task[On(w)] \in BackNodes
      /\ c_pc[On(w)] \notin Ending => c_notified[On(w)] = {}
      /\ c_pc[On(w)] \notin Bound => c_back[On(w)] = nullptr
    BY <1>1 DEF Tidy, Locals, At
<1> QED  BY <1>2, <1>3, <1>5, <1>6, <1>7

\* Between the call and its return: the back node and the context.
LEMMA MyBack ==
    ASSUME Types, Holders, Tidy, NEW x \in Contexts, Live(x), c_pc[x] \in Bound
    PROVE  /\ c_back[x] \in BackNodes /\ c_back[x] # nullptr
           /\ back_run_context_ptr[c_back[x]] = x /\ x \in Coroutines
           /\ back_task[c_back[x]] = c_task[x]
           /\ status[c_back[x]] \in {"Initing", "Recoverable"}
<1>1. c_back[x] # nullptr  BY DEF Tidy, Locals
<1>2. c_back[x] \in BackNodes  BY <1>1 DEF Types
<1>3. back_run_context_ptr[c_back[x]] = x  BY <1>2 DEF Tidy, Bonds
<1>4. x # nullptr  BY Disjoint
<1> QED  BY <1>1, <1>2, <1>3, <1>4 DEF Tidy, Bonds

-----------------------------------------------------------------------------
(* NewContext finds a coroutine: there are as many as workers and waits *)

\* A worker that has no coroutine, or is going to leave the one it has to a
\* back node, finds a free one.
LEMMA FreeContext ==
    ASSUME Types, Holders, Tidy, NEW w \in Workers,
           At(w, "routine") \/ At(w, "yield")
    PROVE  NewContext \in Coroutines /\ c_status[NewContext] = "none"
<1> SUFFICES ASSUME \A x \in Coroutines : c_status[x] # "none"  PROVE FALSE
    BY DEF NewContext
<1> DEFINE Has(v, x) == v \in Workers /\ (context_ptr[v] = x \/ context_pre_ptr[v] = x)
           Others == (Workers \ {w}) \cup BackNodes
           owner == [x \in Coroutines |->
              IF c_back[x] # nullptr THEN c_back[x] ELSE CHOOSE v : Has(v, x)]
<1>1. ASSUME NEW x \in Coroutines, c_back[x] = nullptr
      PROVE  \E v : Has(v, x)
    <2>1. Live(x) /\ c_pc[x] \notin Bound
        BY <1>1, Disjoint DEF Live, Tidy, Locals
    <2>2. c_status[x] # "Yield"  BY <2>1 DEF Holders, Suspended, Bound
    <2> QED  BY <2>1, <2>2 DEF Holders, Suspended, Live
<1>2. ASSUME NEW x \in Coroutines, c_back[x] = nullptr PROVE ~Has(w, x)
    <2>1. CASE At(w, "routine")
        <3>1. context_ptr[w] = nullptr /\ context_pre_ptr[w] = nullptr
            BY <2>1, Disjoint DEF Holders, OwnContext, Standing, On, At, Busy
        <3> QED  BY <3>1, Disjoint
    <2>2. CASE At(w, "yield")
        <3>1. /\ context_ptr[w] = On(w) /\ context_pre_ptr[w] = nullptr
              /\ Live(On(w)) /\ On(w) \in Contexts
            BY <2>2, Stack DEF At, Busy
        <3>2. c_back[On(w)] # nullptr  BY <2>2, <3>1 DEF Tidy, Locals, At, Bound
        <3> QED  BY <1>2, <3>1, <3>2, Disjoint
    <2> QED  BY <2>1, <2>2
<1>3. ASSUME NEW x \in Coroutines, NEW y \in Coroutines, NEW v \in Workers,
             c_back[x] = nullptr, c_back[y] = nullptr,
             context_ptr[v] = x, context_pre_ptr[v] = y
      PROVE  FALSE
    <2>1. On(v) = x /\ context_ptr[v] # v  BY <1>3, Disjoint DEF On
    <2>2. At(v, "enter") \/ At(v, "resumed")
        BY <1>3, <2>1, Disjoint DEF Holders, Behind, At
    <2>3. CASE At(v, "enter")
        <3>1. c_pc[y] = "resumed"  BY <1>3, <2>1, <2>3 DEF Holders, Behind
        <3> QED  BY <1>3, <3>1, Disjoint DEF Tidy, Locals, Live, Bound
    <2>4. CASE At(v, "resumed")
        BY <1>3, <2>1, <2>4, Disjoint DEF Tidy, Locals, Live, Bound, At
    <2> QED  BY <2>2, <2>3, <2>4
<1>4. ASSUME NEW x \in Coroutines, c_back[x] = nullptr
      PROVE  owner[x] \in Workers \ {w} /\ Has(owner[x], x)
    <2>1. owner[x] = CHOOSE v : Has(v, x)  BY <1>4
    <2>2. Has(owner[x], x)  BY <1>1, <1>4, <2>1
    <2> QED  BY <1>2, <1>4, <2>2
<1>5. ASSUME NEW x \in Coroutines, c_back[x] # nullptr
      PROVE  owner[x] \in BackNodes /\ back_run_context_ptr[owner[x]] = x
    <2>1. owner[x] = c_back[x]  BY <1>5
    <2>2. c_back[x] \in BackNodes  BY <1>5, Disjoint DEF Types
    <2> QED  BY <2>1, <2>2, Disjoint DEF Tidy, Bonds
<1>6. owner \in [Coroutines -> Others]
    <2>1. \A x \in Coroutines : owner[x] \in Others  BY <1>4, <1>5
    <2> QED  BY <2>1
<1>7. ASSUME NEW x \in Coroutines, NEW y \in Coroutines, x # y, owner[x] = owner[y]
      PROVE  FALSE
    <2>1. CASE c_back[x] # nullptr \/ c_back[y] # nullptr
        BY <1>4, <1>5, <1>7, <2>1, Disjoint
    <2>2. CASE c_back[x] = nullptr /\ c_back[y] = nullptr
        <3>1. PICK v \in Workers : v = owner[x]  BY <1>4, <2>2
        <3>2. Has(v, x) /\ Has(v, y)  BY <1>4, <1>7, <2>2, <3>1
        <3>3. \/ context_ptr[v] = x /\ context_pre_ptr[v] = y
              \/ context_ptr[v] = y /\ context_pre_ptr[v] = x
            BY <1>7, <3>2
        <3> QED  BY <1>3, <2>2, <3>3
    <2> QED  BY <2>1, <2>2
<1>8. /\ IsFiniteSet(Coroutines) /\ IsFiniteSet(Others)
      /\ Cardinality(Others) < Cardinality(Coroutines)
    <2>1. IsFiniteSet(Workers) /\ Cardinality(Workers) \in Nat /\ MaxWaits \in Nat /\ MaxNodes \in Nat
        BY CoroutineAssumption, FS_CardinalityType
    <2>2. IsFiniteSet(Workers \ {w}) /\ Cardinality(Workers \ {w}) = Cardinality(Workers) - 1
        BY <2>1, FS_RemoveElement
    <2>3. IsFiniteSet(BackNodes) /\ Cardinality(BackNodes) = MaxWaits
        <3>1. PICK a : a = MaxNodes + 1  OBVIOUS
        <3>2. PICK b : b = MaxNodes + MaxWaits  OBVIOUS
        <3>3. a \in Int /\ b \in Int  BY <2>1, <3>1, <3>2
        <3>4. IsFiniteSet(a .. b) /\ Cardinality(a .. b) = IF a > b THEN 0 ELSE b - a + 1
            BY <3>3, IntervalSize
        <3> QED  BY <2>1, <3>1, <3>2, <3>4 DEF BackNodes
    <2>4. IsFiniteSet(Coroutines) /\ Cardinality(Coroutines) = Cardinality(Workers) + MaxWaits
        <3>1. PICK b : b = Cardinality(Workers) + MaxWaits  OBVIOUS
        <3>2. 1 \in Int /\ b \in Int  BY <2>1, <3>1
        <3>3. IsFiniteSet(1 .. b) /\ Cardinality(1 .. b) = IF 1 > b THEN 0 ELSE b - 1 + 1
            BY <3>2, IntervalSize
        <3> QED  BY <2>1, <3>1, <3>3 DEF Coroutines
    <2>5. /\ IsFiniteSet(Others)
          /\ Cardinality(Others) = Cardinality(Workers \ {w}) + Cardinality(BackNodes)
                                      - Cardinality((Workers \ {w}) \cap BackNodes)
        BY <2>2, <2>3, FS_Union
    <2>6. Cardinality((Workers \ {w}) \cap BackNodes) = 0
        <3>1. (Workers \ {w}) \cap BackNodes = {}  BY Disjoint
        <3> QED  BY <3>1, FS_EmptySet
    <2> QED  BY <2>1, <2>2, <2>3, <2>4, <2>5, <2>6
<1> HIDE DEF owner, Others
<1>9. \E x, y \in Coroutines : x # y /\ owner[x] = owner[y]
    BY <1>6, <1>8, FS_PigeonHole
<1> QED  BY <1>7, <1>9

-----------------------------------------------------------------------------
(* Steps that leave the contexts where they are *)

\* On does not change while context_ptr does not.
LEMMA OnKept ==
    ASSUME UNCHANGED context_ptr
    PROVE  \A w \in Workers : On(w)' = On(w)
BY DEF On

\* The main thread and the clients use none.
LEMMA HoldersKept ==
    ASSUME Holders, UNCHANGED <<c_status, c_pc, c_task, c_back, context_ptr, context_pre_ptr>>
    PROVE  Holders'
BY OnKept DEF Holders, OwnContext, Standing, Behind, OneHolder, Suspended, At

\* Code that goes on, on the stack it has.
OnStack == {"loop"} \cup (Busy \ {"resumed"})
StaysOn(w, from, to) ==
    /\ from \in OnStack /\ to \in OnStack
    /\ Go(w, from, to)
    /\ UNCHANGED <<c_status, context_ptr, context_pre_ptr>>
    /\ \A y \in Contexts : y # On(w) =>
          c_task'[y] = c_task[y] /\ c_back'[y] = c_back[y] /\ c_notified'[y] = c_notified[y]

\* The places of the code on other stacks.
LEMMA OtherStacks ==
    ASSUME Types, Holders, NEW w \in Workers, NEW from, NEW to, StaysOn(w, from, to)
    PROVE  /\ c_pc[On(w)] = from /\ c_pc'[On(w)] = to
           /\ \A y \in Contexts : y # On(w) => c_pc'[y] = c_pc[y]
           /\ \A v \in Workers : On(v)' = On(v)
           /\ \A v \in Workers : v # w => On(v) # On(w) /\ c_pc'[On(v)] = c_pc[On(v)]
           /\ \A v \in Workers : c_pc'[v] = c_pc[v] /\ context_pre_ptr[v] # On(w)
           /\ context_pre_ptr[w] = nullptr
<1>1. c_pc[On(w)] = from /\ from \in Busy \cup {"enter", "loop"}
    BY DEF StaysOn, Go, At, OnStack
<1>2. On(w) \in Contexts /\ On(w) \notin Workers /\ On(w) = context_ptr[w] /\ On(w) # nullptr
    BY <1>1, Stack
<1>3. c_pc'[On(w)] = to /\ \A y \in Contexts : y # On(w) => c_pc'[y] = c_pc[y]
    BY <1>2 DEF StaysOn, Go, Types
<1>4. \A v \in Workers : On(v)' = On(v)  BY OnKept DEF StaysOn
<1>5. \A v \in Workers : On(v) \in Contexts
    BY Disjoint DEF On, Holders, OwnContext
<1>6. \A v \in Workers : v # w => On(v) # On(w)  BY DEF Holders, OneHolder
<1>7. context_pre_ptr[w] = nullptr
    <2>1. ~At(w, "enter") /\ ~At(w, "resumed")  BY <1>1 DEF At, StaysOn, OnStack, Busy
    <2> QED  BY <1>1, <2>1, Stack
<1>8. \A v \in Workers : context_pre_ptr[v] # On(w)
    BY <1>2 DEF Holders, OneHolder
<1> QED  BY <1>1, <1>2, <1>3, <1>4, <1>5, <1>6, <1>7, <1>8, Disjoint

\* Who holds which context does not change.
LEMMA HoldersStep ==
    ASSUME Types, Holders, NEW w \in Workers, NEW from, NEW to, StaysOn(w, from, to)
    PROVE  Holders'
<1>0. /\ c_pc[On(w)] = from /\ c_pc'[On(w)] = to
      /\ \A y \in Contexts : y # On(w) => c_pc'[y] = c_pc[y]
      /\ \A v \in Workers : On(v)' = On(v)
      /\ \A v \in Workers : v # w => On(v) # On(w) /\ c_pc'[On(v)] = c_pc[On(v)]
      /\ \A v \in Workers : c_pc'[v] = c_pc[v] /\ context_pre_ptr[v] # On(w)
      /\ context_pre_ptr[w] = nullptr
    BY OtherStacks
<1>1. UNCHANGED <<c_status, context_ptr, context_pre_ptr>>  BY DEF StaysOn
<1>2. from \in OnStack /\ to \in OnStack  BY DEF StaysOn
<1>3. On(w) = context_ptr[w] /\ context_ptr[w] \in Coroutines /\ context_ptr[w] # w
      /\ c_status[On(w)] = "Running" /\ On(w) \in Contexts
    BY <1>0, <1>2, Stack DEF OnStack, Busy, At
<1>4. OwnContext'  BY <1>0, <1>1 DEF Holders, OwnContext
<1>5. Standing'
    <2> SUFFICES ASSUME NEW v \in Workers, context_ptr[v] \in Coroutines
                 PROVE  /\ c_pc'[context_ptr[v]] \in Busy \cup {"enter", "loop"}
                        /\ c_status[context_ptr[v]] = IF At(v, "enter")' THEN "Initing" ELSE "Running"
        BY <1>1 DEF Standing
    <2>1. CASE v = w
        BY <1>0, <1>2, <1>3, <2>1 DEF At, OnStack, Busy
    <2>2. CASE v # w
        <3>1. On(v) = context_ptr[v]  BY Disjoint DEF On
        <3> QED  BY <1>0, <2>2, <3>1 DEF Holders, Standing, At
    <2> QED  BY <2>1, <2>2
<1>6. Behind'
    <2> SUFFICES ASSUME NEW v \in Workers, NEW p, p = context_pre_ptr[v]
                 PROVE  /\ p # nullptr <=> c_pc'[On(v)] \in {"enter", "resumed"} \/ context_ptr[v] = v
                        /\ p \in Coroutines =>
                              /\ c_status[p] = "Running"
                              /\ c_pc'[p] = CASE context_ptr[v] = v -> "loop"
                                              [] At(v, "enter")' -> "resumed"
                                              [] OTHER -> "back"
                              /\ At(v, "resumed")' => c_task'[p] = c_back'[On(v)]
                        /\ p \in Workers => p = v /\ At(v, "enter")'
        BY <1>0, <1>1 DEF Behind
    <2>1. CASE v = w
        BY <1>0, <1>2, <1>3, <2>1, Disjoint DEF OnStack, Busy
    <2>2. CASE v # w
        <3>1. On(v) # On(w) /\ c_pc'[On(v)] = c_pc[On(v)] /\ p # On(w) /\ On(v)' = On(v)
            BY <1>0, <2>2
        <3>2. On(v) \in Contexts  BY Disjoint DEF On, Holders, OwnContext
        <3>3. (At(v, "enter")' <=> At(v, "enter")) /\ (At(v, "resumed")' <=> At(v, "resumed"))
            BY <3>1 DEF At
        <3>4. c_back'[On(v)] = c_back[On(v)]  BY <3>1, <3>2 DEF StaysOn
        <3>5. p \in Coroutines => c_pc'[p] = c_pc[p] /\ c_task'[p] = c_task[p]
            BY <1>0, <3>1, Disjoint DEF StaysOn
        <3> QED  BY <3>1, <3>3, <3>4, <3>5 DEF Holders, Behind
    <2> QED  BY <2>1, <2>2
<1>7. OneHolder'  BY <1>0, <1>1 DEF Holders, OneHolder
<1>8. Suspended'
    <2>1. ASSUME NEW x \in Coroutines, c_status[x] = "Yield" PROVE c_pc'[x] = "resumed"
        <3>1. x # On(w)  BY <1>3, <2>1
        <3> QED  BY <1>0, <2>1, <3>1, Disjoint DEF Holders, Suspended
    <2> QED  BY <1>1, <2>1 DEF Holders, Suspended
<1> QED  BY <1>4, <1>5, <1>6, <1>7, <1>8 DEF Holders

-----------------------------------------------------------------------------
(* do_schedule and run_task *)

\* A worker that looks for a task has none.
LEMMA NoTask ==
    ASSUME Types, Holders, Tidy, NEW w \in Workers, At(w, "loop")
    PROVE  /\ On(w) \in Contexts /\ Live(On(w))
           /\ c_task[On(w)] = nullptr /\ c_notified[On(w)] = {} /\ c_back[On(w)] = nullptr
<1>1. On(w) \in Contexts /\ Live(On(w))  BY Stack DEF At
<1>2. "loop" \notin Busy /\ "loop" \notin Bound /\ "loop" \notin Ending
    BY DEF Busy, Bound, Ending
<1> QED  BY <1>1, <1>2 DEF Tidy, Locals, At

\* A null pointer is in no queue.
LEMMA NoNull ==
    ASSUME Types
    PROVE  nullptr \notin queue /\ \A n \in queue : n \in Nodes /\ n # nullptr
BY Disjoint DEF Types

\* A task is taken from the queue.
LEMMA DequeueInv ==
    ASSUME ContextInv, NEW w \in Workers, NEW n \in Nodes, Dequeue(w, n)
    PROVE  ContextInv'
<1> USE DEF ContextInv
<1>0. StaysOn(w, "loop", "start")
    BY DEF Dequeue, StaysOn, OnStack, Busy, thrVars, Types
<1>1. Holders'  BY <1>0, HoldersStep
<1>2. PICK x \in Contexts : x = On(w)  BY <1>0, NoTask DEF StaysOn, Go
<1>3. /\ c_pc[x] = "loop" /\ Live(x)
      /\ c_task[x] = nullptr /\ c_notified[x] = {} /\ c_back[x] = nullptr
    BY <1>0, <1>2, NoTask DEF StaysOn, Go, At
<1>4. /\ c_pc'[x] = "start" /\ \A y \in Contexts : y # x => c_pc'[y] = c_pc[y]
      /\ \A v \in Workers : On(v)' = On(v) /\ c_pc'[v] = c_pc[v]
      /\ \A v \in Workers : v # w => c_pc'[On(v)] = c_pc[On(v)]
      /\ \A v \in Workers : v # w => On(v) # x /\ On(v) \in Contexts
    BY <1>0, <1>2, OtherStacks, Disjoint DEF Holders, OwnContext, On
<1>5. /\ c_task'[x] = n /\ \A y \in Contexts : y # x => c_task'[y] = c_task[y]
      /\ n \in queue /\ queue' = queue \ {n} /\ n # nullptr
      /\ UNCHANGED <<c_status, c_notified, c_nodes, c_back, thrVars, nodeVars, flags, m_pc, made>>
    BY <1>2, NoNull DEF Dequeue, Types
<1>6. Types'
    <2>1. c_pc' \in [Contexts -> Points]  BY DEF Dequeue, Go, Types, Points
    <2>2. c_task' \in [Contexts -> Nodes \cup {nullptr}]  BY DEF Dequeue, Types
    <2> QED  BY <1>5, <2>1, <2>2 DEF Types, thrVars, nodeVars
<1>7. Locals'
    <2>1. "start" \in Busy /\ "start" \notin Bound  BY DEF Busy, Bound
    <2> QED  BY <1>3, <1>4, <1>5, <2>1 DEF Tidy, Locals, Live
<1>8. Bonds'
    BY <1>3, <1>5, Disjoint DEF Tidy, Bonds, nodeVars
<1>9. \A m : Placed(m)' => Placed(m)  BY <1>3, <1>5 DEF Placed
<1>10. States'
    <2>1. \A y \in Contexts : c_task'[y] # nullptr => status[c_task'[y]] = StateAt(c_pc'[y])
        <3>1. status[n] = "Initing"  BY <1>5 DEF Tidy, States
        <3>2. StateAt("start") = "Initing"  BY DEF StateAt
        <3> QED  BY <1>4, <1>5, <3>1, <3>2 DEF Tidy, States
    <2> QED  BY <1>4, <1>5, <1>9, <2>1 DEF Tidy, States, Live, nodeVars
<1>11. OnePlace'  BY <1>3, <1>5 DEF Tidy, OnePlace
<1>12. Current'  BY <1>2, <1>4, <1>5 DEF Tidy, Current, thrVars
<1>13. Main'  BY <1>4, <1>5 DEF Main, Alive, nodeVars
<1> QED  BY <1>1, <1>6, <1>7, <1>8, <1>10, <1>11, <1>12, <1>13 DEF Tidy

\* A worker starts a node it has.
LEMMA StartInv ==
    ASSUME ContextInv, NEW w \in Workers, Start(w)
    PROVE  ContextInv'
<1> USE DEF ContextInv
<1>a. PICK to : to = (IF c_task[On(w)] \in BackNodes THEN "back" ELSE "run")  OBVIOUS
<1>b. c_pc[On(w)] = "start" /\ "start" \in Busy /\ to \in {"back", "run"} /\ Go(w, "start", to)
    BY <1>a DEF Start, Go, At, Busy
<1>0. StaysOn(w, "start", to)
    BY <1>b DEF Start, StaysOn, OnStack, Busy, schedVars
<1>1. Holders'  BY <1>0, HoldersStep
<1>2. PICK x \in Contexts : x = On(w)  BY <1>b, Stack
<1>3. PICK n \in Nodes : n = c_task[x]  BY <1>b, <1>2, Mine
<1>4. /\ c_pc[x] = "start" /\ Live(x) /\ c_task[x] = n /\ n # nullptr
      /\ status[n] = "Initing" /\ waits[n] = {} /\ n \notin queue
      /\ \A y \in Contexts : y # x => c_task[y] # n
      /\ \A y \in Contexts : n \notin c_notified[y]
      /\ c_notified[x] = {} /\ c_back[x] = nullptr
      /\ n \in BackNodes <=> to = "back"
    <2>1. StateAt("start") = "Initing" /\ "start" \notin Bound /\ "start" \notin Ending
        BY DEF StateAt, Bound, Ending
    <2> QED  BY <1>a, <1>b, <1>2, <1>3, <2>1, Stack, Mine
<1>5. /\ c_pc'[x] = to /\ \A y \in Contexts : y # x => c_pc'[y] = c_pc[y]
      /\ \A v \in Workers : On(v)' = On(v) /\ c_pc'[v] = c_pc[v]
      /\ \A v \in Workers : v # w => c_pc'[On(v)] = c_pc[On(v)]
      /\ \A v \in Workers : v # w => On(v) # x /\ On(v) \in Contexts
    BY <1>0, <1>2, OtherStacks, Disjoint DEF Holders, OwnContext, On
<1>6. /\ current_task' = [current_task EXCEPT ![w] = n]
      /\ status' = [status EXCEPT ![n] = StateAt(to)]
      /\ UNCHANGED <<c_status, c_task, c_notified, c_nodes, c_back, context_ptr, context_pre_ptr,
                     stack_pool, mapped, waits, back_task, back_run_context_ptr, schedVars>>
    <2>1. StateAt("back") = "Recoverable" /\ StateAt("run") = "Running"  BY DEF StateAt, Ending
    <2> QED  BY <1>2, <1>3, <1>4, <1>b, <2>1 DEF Start, set_current_task
<1>7. /\ status'[n] = StateAt(to) /\ status[n] = "Initing"
      /\ \A m \in Nodes : m # n => status'[m] = status[m]
      /\ n \in BackNodes => status'[n] = "Recoverable"
    BY <1>4, <1>6 DEF Types, StateAt
<1>8. Types'
    <2>1. c_pc' \in [Contexts -> Points]  BY <1>b DEF Go, Types, Points
    <2>2. status' \in [Nodes -> Statuses]  BY <1>6, <1>b DEF Types, Statuses, StateAt
    <2>3. current_task' \in [Workers -> Nodes \cup {nullptr}]  BY <1>6 DEF Types
    <2> QED  BY <1>6, <2>1, <2>2, <2>3 DEF Types, schedVars
<1>9. Locals'
    <2>1. to \in Busy /\ to \notin Bound  BY <1>b DEF Busy, Bound
    <2>2. n \in BackNodes \/ n \in Tasks  BY Disjoint
    <2>3. IF to = "back" THEN n \in BackNodes ELSE n \in Tasks  BY <1>4, <2>2
    <2> QED  BY <1>4, <1>5, <1>6, <1>b, <2>1, <2>3 DEF Tidy, Locals, Live
<1>10. Bonds'
    <2>1. \A b \in BackNodes : status'[b] \in {"Initing", "Recoverable"}
                                  <=> status[b] \in {"Initing", "Recoverable"}
        BY <1>7, Disjoint
    <2> QED  BY <1>6, <2>1 DEF Tidy, Bonds
<1>11. \A m : Placed(m)' <=> Placed(m)  BY <1>6 DEF Placed, schedVars
<1>12. States'
    <2>1. \A y \in Contexts : c_task[y] # nullptr => status'[c_task[y]] = StateAt(c_pc'[y])
        BY <1>4, <1>5, <1>7 DEF Tidy, States, Types
    <2>2. \A y \in Contexts : \A m \in c_notified[y] : status'[m] = "Initing"
        BY <1>4, <1>7 DEF Tidy, States, Types
    <2>3. \A y \in Contexts : Live(y) /\ c_pc'[y] = "edges" =>
             status'[c_back[y]] = "Initing" /\ waits[c_back[y]] = {} /\ ~Placed(c_back[y])
        <3> SUFFICES ASSUME NEW y \in Contexts, Live(y), c_pc'[y] = "edges"
                     PROVE  status'[c_back[y]] = "Initing" /\ waits[c_back[y]] = {}
                            /\ ~Placed(c_back[y])
            OBVIOUS
        <3>1. y # x /\ c_pc[y] = "edges"  BY <1>b, <1>5
        <3>2. Placed(n)  BY <1>4 DEF Placed
        <3>3. c_back[y] # n  BY <3>1, <3>2 DEF Tidy, States
        <3>4. c_back[y] \in Nodes  BY <3>1, MyBack, Disjoint DEF Bound
        <3> QED  BY <1>7, <3>1, <3>3, <3>4 DEF Tidy, States
    <2>4. \A m \in queue : status'[m] = "Initing"
        BY <1>4, <1>7 DEF Tidy, States, Types
    <2>5. \A m \in Nodes : waits[m] # {} => status'[m] = "Initing"
        BY <1>4, <1>7 DEF Tidy, States
    <2>6. \A m \in Tasks : status'[m] = "none" <=> m > made
        <3>1. status'[n] # "none"  BY <1>7, <1>b DEF StateAt
        <3> QED  BY <1>4, <1>7, <3>1, Disjoint DEF Tidy, States
    <2> QED  BY <1>6, <1>11, <2>1, <2>2, <2>3, <2>4, <2>5, <2>6
             DEF Tidy, States, Live, schedVars
<1>13. OnePlace'  BY <1>6 DEF Tidy, OnePlace, schedVars
<1>14. Current'  BY <1>2, <1>4, <1>5, <1>6 DEF Tidy, Current, Types
<1>15. Main'
    <2>1. Alive(n)  BY <1>4 DEF Alive
    <2> QED  BY <1>5, <1>6, <2>1 DEF Main, schedVars
<1> QED  BY <1>1, <1>8, <1>9, <1>10, <1>12, <1>13, <1>14, <1>15 DEF Tidy

\* What is left of a set of one.
LEMMA OneLess ==
    ASSUME NEW g, NEW over
    PROVE  {g} \ over = {} \/ {g} \ over = {g}
<1>1. CASE g \in over  BY <1>1
<1>2. CASE g \notin over  BY <1>2
<1> QED  BY <1>1, <1>2

\* A step of finish: what waited for r only is released, and what the worker
\* has released is kept or goes into the queue.
Ends(w, r, kept, more, from, to) ==
    /\ from \in {"run", "notify"} /\ to \in Ending /\ Go(w, from, to)
    /\ waits' = [m \in Nodes |-> waits[m] \ {r}]
    /\ kept \cup more = c_notified[On(w)] \cup Released(r) /\ kept \cap more = {}
    /\ c_notified' = [c_notified EXCEPT ![On(w)] = kept]
    /\ queue' = queue \cup more
    /\ status' = [status EXCEPT ![c_task[On(w)]] = "Finish"]
    /\ UNCHANGED <<c_status, c_task, c_nodes, c_back, context_ptr, context_pre_ptr, stack_pool,
                   current_task, mapped, back_task, back_run_context_ptr, flags,
                   idle_worker_num, m_pc, made>>

LEMMA HandParts ==
    ASSUME NEW w \in Workers, NEW notified, Hand(w, notified)
    PROVE  \E kept : \E more :
              /\ kept \cup more = notified /\ kept \cap more = {}
              /\ c_notified' = [c_notified EXCEPT ![On(w)] = kept]
              /\ queue' = queue \cup more
<1>1. PICK next \in IF notified = {} THEN {{}} ELSE {{m} : m \in notified} :
          /\ c_notified' = [c_notified EXCEPT ![On(w)] = next]
          /\ queue' = queue \cup (notified \ next)
    BY DEF Hand
<1>2. next \subseteq notified  BY <1>1
<1>3. next \cup (notified \ next) = notified /\ next \cap (notified \ next) = {}  BY <1>2
<1> QED  BY <1>1, <1>3

LEMMA FinishEnds ==
    ASSUME ContextInv, NEW w \in Workers, Finish(w)
    PROVE  \E kept, more, to : Ends(w, c_task[On(w)], kept, more, "run", to)
<1> USE DEF ContextInv
<1> DEFINE n == c_task[On(w)]
           last == get_wait_count(GraphOf[n]) = 1
<1>1. c_pc[On(w)] = "run" /\ "run" \in Busy /\ "run" \notin Ending
    BY DEF Finish, Go, At, Busy, Ending
<1>2. c_notified[On(w)] = {} /\ On(w) \in Contexts  BY <1>1, Mine, Stack
<1>3. PICK to : to = IF last THEN "notify" ELSE "recover"  OBVIOUS
<1>4. to \in Ending /\ Go(w, "run", to)  BY <1>3 DEF Finish, Ending
<1>5. /\ waits' = [m \in Nodes |-> waits[m] \ {n}]
      /\ status' = [status EXCEPT ![n] = "Finish"]
      /\ UNCHANGED <<c_status, c_task, c_nodes, c_back, context_ptr, context_pre_ptr, stack_pool,
                     current_task, mapped, back_task, back_run_context_ptr, flags,
                     idle_worker_num, m_pc, made>>
    BY DEF Finish, Release, thrVars
<1>6. \E kept : \E more :
          /\ kept \cup more = Released(n) /\ kept \cap more = {}
          /\ c_notified' = [c_notified EXCEPT ![On(w)] = kept]
          /\ queue' = queue \cup more
    <2>1. CASE last
        <3>1. c_notified' = [c_notified EXCEPT ![On(w)] = Released(n)] /\ queue' = queue
            BY <2>1 DEF Finish
        <3>2. Released(n) \cup {} = Released(n) /\ Released(n) \cap {} = {} /\ queue = queue \cup {}
            OBVIOUS
        <3> QED  BY <3>1, <3>2
    <2>2. CASE ~last
        <3>1. Hand(w, Released(n))  BY <2>2 DEF Finish
        <3> QED  BY <3>1, HandParts
    <2> QED  BY <2>1, <2>2
<1>7. PICK kept, more :
          /\ kept \cup more = Released(n) /\ kept \cap more = {}
          /\ c_notified' = [c_notified EXCEPT ![On(w)] = kept]
          /\ queue' = queue \cup more
    BY <1>6
<1>8. kept \cup more = c_notified[On(w)] \cup Released(n)  BY <1>2, <1>7
<1>9. Ends(w, n, kept, more, "run", to)  BY <1>4, <1>5, <1>7, <1>8 DEF Ends
<1> QED  BY <1>9

LEMMA NotifyEnds ==
    ASSUME ContextInv, NEW w \in Workers, Notify(w)
    PROVE  \E kept, more : Ends(w, GraphOf[c_task[On(w)]], kept, more, "notify", "recover")
<1> USE DEF ContextInv
<1>1. c_pc[On(w)] = "notify" /\ "notify" \in Busy /\ StateAt("notify") = "Finish"
    BY DEF Notify, Go, At, Busy, StateAt, Ending
<1>2. PICK n \in Nodes : n = c_task[On(w)]  BY <1>1, Mine
<1>3. status[n] = "Finish"  BY <1>1, <1>2, Mine
<1>4. status' = [status EXCEPT ![n] = "Finish"]
    <2>1. status' = status  BY DEF Notify
    <2> QED  BY <1>3, <2>1 DEF Types
<1>5. /\ Go(w, "notify", "recover")
      /\ waits' = [m \in Nodes |-> waits[m] \ {GraphOf[n]}]
      /\ Hand(w, c_notified[On(w)] \cup Released(GraphOf[n]))
      /\ UNCHANGED <<c_status, c_task, c_nodes, c_back, context_ptr, context_pre_ptr, stack_pool,
                     current_task, mapped, back_task, back_run_context_ptr, flags,
                     idle_worker_num, m_pc, made>>
    BY <1>2 DEF Notify, Release, thrVars
<1> DEFINE all == c_notified[On(w)] \cup Released(GraphOf[n])
<1>8. \E kept : \E more :
          /\ kept \cup more = all /\ kept \cap more = {}
          /\ c_notified' = [c_notified EXCEPT ![On(w)] = kept]
          /\ queue' = queue \cup more
    <2>1. Hand(w, all)  BY <1>5
    <2> HIDE DEF all
    <2> QED  BY <2>1, HandParts
<1>6. PICK kept, more :
          /\ kept \cup more = c_notified[On(w)] \cup Released(GraphOf[n]) /\ kept \cap more = {}
          /\ c_notified' = [c_notified EXCEPT ![On(w)] = kept]
          /\ queue' = queue \cup more
    BY <1>8
<1>7. Ends(w, GraphOf[n], kept, more, "notify", "recover")
    BY <1>2, <1>4, <1>5, <1>6 DEF Ends, Ending
<1> QED  BY <1>2, <1>7

\* Node::finish and Graph::finish keep all in place.
LEMMA EndsInv ==
    ASSUME ContextInv, NEW w \in Workers, NEW r, NEW kept, NEW more, NEW from, NEW to,
           Ends(w, r, kept, more, from, to)
    PROVE  ContextInv'
<1> USE DEF ContextInv
<1>b. c_pc[On(w)] = from /\ from \in Busy /\ from \in {"run", "notify"} /\ from \notin Bound
      /\ to \in Ending /\ to \in Busy /\ to \notin Bound /\ StateAt(to) = "Finish"
    BY DEF Ends, Go, At, Busy, Bound, Ending, StateAt
<1>0. StaysOn(w, from, to)
    <2>1. from \in OnStack /\ to \in OnStack  BY <1>b DEF OnStack, Busy, Ending
    <2>2. /\ Go(w, from, to) /\ UNCHANGED <<c_status, c_task, c_back, context_ptr, context_pre_ptr>>
          /\ \A y \in Contexts : y # On(w) => c_notified'[y] = c_notified[y]
        BY DEF Ends, Types
    <2> QED  BY <2>1, <2>2 DEF StaysOn
<1>1. Holders'  BY <1>0, HoldersStep
<1>2. PICK x \in Contexts : x = On(w)  BY <1>b, Stack
<1>3. PICK n \in Nodes : n = c_task[x]  BY <1>b, <1>2, Mine
<1>4. /\ c_pc[x] = from /\ Live(x) /\ c_task[x] = n /\ n # nullptr
      /\ status[n] \in {"Running", "Finish"} /\ waits[n] = {} /\ n \notin queue
      /\ \A y \in Contexts : y # x => c_task[y] # n
      /\ \A y \in Contexts : n \notin c_notified[y]
      /\ c_back[x] = nullptr /\ n \in Tasks
    <2>1. StateAt(from) \in {"Running", "Finish"} /\ from \notin {"start", "back"}
        BY <1>b DEF StateAt, Ending
    <2> QED  BY <1>b, <1>2, <1>3, <2>1, Stack, Mine
<1>5. /\ c_pc'[x] = to /\ \A y \in Contexts : y # x => c_pc'[y] = c_pc[y]
      /\ \A v \in Workers : On(v)' = On(v) /\ c_pc'[v] = c_pc[v]
      /\ \A v \in Workers : v # w => c_pc'[On(v)] = c_pc[On(v)]
      /\ \A v \in Workers : v # w => On(v) # x /\ On(v) \in Contexts
    BY <1>0, <1>2, OtherStacks, Disjoint DEF Holders, OwnContext, On
<1>6. /\ waits' = [m \in Nodes |-> waits[m] \ {r}]
      /\ kept \cup more = c_notified[x] \cup Released(r) /\ kept \cap more = {}
      /\ c_notified' = [c_notified EXCEPT ![x] = kept]
      /\ queue' = queue \cup more
      /\ status' = [status EXCEPT ![n] = "Finish"]
    BY <1>2, <1>3 DEF Ends
<1>7. UNCHANGED <<c_status, c_task, c_nodes, c_back, context_ptr, context_pre_ptr, stack_pool,
                  current_task, mapped, back_task, back_run_context_ptr, flags,
                  idle_worker_num, m_pc, made>>
    BY DEF Ends
<1>a. \A m \in Released(r) : /\ m \in Nodes /\ status[m] = "Initing" /\ m # n /\ ~Placed(m)
    BY <1>4 DEF Released, Tidy, States
<1>c. \A m \in c_notified[x] : m \in Nodes /\ status[m] = "Initing" /\ m # n /\ Placed(m)
    BY <1>4 DEF Tidy, States, Types, Placed
<1>8. /\ \A m \in Released(r) : waits'[m] = {}
      /\ \A m \in Nodes \ Released(r) : waits[m] # {} => waits'[m] # {}
      /\ \A m \in Nodes : waits[m] = {} => waits'[m] = {}
    BY <1>6 DEF Released
<1>9. /\ \A m \in Nodes : m # n => status'[m] = status[m]
      /\ status'[n] = "Finish"
    BY <1>6 DEF Types
<1>10. c_notified'[x] = kept /\ \A y \in Contexts : y # x => c_notified'[y] = c_notified[y]
    BY <1>6 DEF Types
<1>d. \A m : m \in kept \/ m \in more <=> m \in c_notified[x] \/ m \in Released(r)  BY <1>6
<1>11. Types'
    <2>1. c_pc' \in [Contexts -> Points]
        <3>1. to \in Points  BY <1>b DEF Ending, Points
        <3> QED  BY <3>1 DEF Ends, Go, Types
    <2>2. status' \in [Nodes -> Statuses]  BY <1>6 DEF Types, Statuses
    <2>3. c_notified' \in [Contexts -> SUBSET Nodes]
        <3>1. kept \in SUBSET Nodes  BY <1>a, <1>c, <1>d
        <3> QED  BY <1>6, <3>1 DEF Types
    <2>4. waits' \in [Nodes -> (SUBSET Tasks) \cup {{g} : g \in Graphs}]
        <3>1. ASSUME NEW m \in Nodes
              PROVE  waits[m] \ {r} \in (SUBSET Tasks) \cup {{g} : g \in Graphs}
            <4>1. CASE waits[m] \in SUBSET Tasks  BY <4>1
            <4>2. CASE waits[m] \in {{g} : g \in Graphs}
                <5>1. PICK g \in Graphs : waits[m] = {g}  BY <4>2
                <5>2. waits[m] \ {r} = {} \/ waits[m] \ {r} = {g}  BY <5>1, OneLess
                <5>3. CASE waits[m] \ {r} = {}  BY <5>3
                <5>4. CASE waits[m] \ {r} = {g}  BY <5>1, <5>4
                <5> QED  BY <5>2, <5>3, <5>4
            <4> QED  BY <4>1, <4>2 DEF Types
        <3> QED  BY <1>6, <3>1
    <2>5. queue' \subseteq Nodes
        <3>1. more \subseteq Nodes  BY <1>a, <1>c, <1>d
        <3> QED  BY <1>6, <3>1 DEF Types
    <2> QED  BY <1>7, <2>1, <2>2, <2>3, <2>4, <2>5 DEF Types
<1>12. Locals'
    <2>1. ~(from = "start") /\ ~(from = "back") /\ ~(to = "start") /\ ~(to = "back")
        BY <1>b DEF Ending
    <2> QED  BY <1>b, <1>4, <1>5, <1>7, <1>10, <2>1 DEF Tidy, Locals, Live
<1>13. Bonds'
    <2>1. \A b \in BackNodes : status'[b] = status[b]  BY <1>4, <1>9, Disjoint
    <2> QED  BY <1>7, <2>1 DEF Tidy, Bonds
<1>14. \A m \in Nodes : Placed(m)' <=> Placed(m) \/ m \in Released(r)
    <2> SUFFICES ASSUME NEW m \in Nodes PROVE Placed(m)' <=> Placed(m) \/ m \in Released(r)
        OBVIOUS
    <2>1. \/ m \in queue'
          \/ \E y \in Contexts : m \in c_notified'[y]
          <=> \/ m \in queue \/ m \in Released(r)
              \/ \E y \in Contexts : m \in c_notified[y]
        BY <1>6, <1>10, <1>d
    <2> QED  BY <1>7, <2>1 DEF Placed
<1>15. States'
    <2>1. \A y \in Contexts : c_task[y] # nullptr => status'[c_task[y]] = StateAt(c_pc'[y])
        BY <1>b, <1>4, <1>5, <1>9 DEF Tidy, States, Types
    <2>2. \A y \in Contexts : \A m \in c_notified'[y] : status'[m] = "Initing"
        <3>1. \A y \in Contexts : \A m \in c_notified[y] : status'[m] = "Initing"
            BY <1>4, <1>9 DEF Tidy, States, Types
        <3>2. \A m \in Released(r) : status'[m] = "Initing"  BY <1>a, <1>9
        <3> QED  BY <1>d, <1>10, <3>1, <3>2
    <2>3. \A y \in Contexts : Live(y) /\ c_pc'[y] = "edges" =>
             status'[c_back[y]] = "Initing" /\ waits'[c_back[y]] = {} /\ ~Placed(c_back[y])'
        <3> SUFFICES ASSUME NEW y \in Contexts, Live(y), c_pc'[y] = "edges"
                     PROVE  status'[c_back[y]] = "Initing" /\ waits'[c_back[y]] = {}
                            /\ ~Placed(c_back[y])'
            OBVIOUS
        <3>1. y # x /\ c_pc[y] = "edges"  BY <1>b, <1>5 DEF Ending
        <3>2. PICK b : b = c_back[y]  OBVIOUS
        <3>3. b \in BackNodes  BY <3>1, <3>2, MyBack DEF Bound
        <3>4. b # n /\ b \in Nodes  BY <1>4, <3>3, Disjoint
        <3>5. status[b] = "Initing" /\ waits[b] = {} /\ ~Placed(b)
            BY <3>1, <3>2 DEF Tidy, States
        <3>6. b \notin Released(r)  BY <3>5 DEF Released
        <3>7. status'[b] = "Initing" /\ waits'[b] = {} /\ ~Placed(b)'
            BY <1>8, <1>9, <1>14, <3>4, <3>5, <3>6
        <3>8. c_back'[y] = b  BY <1>7, <3>2
        <3> QED  BY <3>2, <3>7, <3>8
    <2>4. \A m \in queue' : status'[m] = "Initing"
        <3>1. \A m \in queue : status'[m] = "Initing"  BY <1>4, <1>9 DEF Tidy, States, Types
        <3>2. \A m \in more : status'[m] = "Initing"  BY <1>a, <1>c, <1>d, <1>9
        <3> QED  BY <1>6, <3>1, <3>2
    <2>5. \A m \in Nodes : waits'[m] # {} => status'[m] = "Initing"
        BY <1>4, <1>8, <1>9 DEF Tidy, States
    <2>6. \A m \in Tasks : status'[m] = "none" <=> m > made
        BY <1>4, <1>9, Disjoint DEF Tidy, States
    <2>7. \A m \in Nodes : Placed(m)' => waits'[m] = {}
        BY <1>8, <1>14 DEF Tidy, States
    <2> QED  BY <1>7, <2>1, <2>2, <2>3, <2>4, <2>5, <2>6, <2>7 DEF Tidy, States, Live
<1>16. OnePlace'
    <2>1. \A y \in Contexts : c_task[y] \notin Released(r) /\ c_notified[y] \cap Released(r) = {}
        BY <1>a DEF Placed
    <2>2. Released(r) \cap queue = {}  BY <1>a DEF Placed
    <2>3. \A y \in Contexts : c_task[y] \notin kept /\ c_task[y] \notin more
        BY <1>d, <2>1 DEF Tidy, OnePlace
    <2>4. \A y \in Contexts : y # x => c_notified[y] \cap kept = {} /\ c_notified[y] \cap more = {}
        BY <1>d, <2>1 DEF Tidy, OnePlace
    <2>5. kept \cap queue = {}
        <3>1. c_notified[x] \cap queue = {}  BY DEF Tidy, OnePlace
        <3> QED  BY <1>d, <2>2, <3>1
    <2>6. kept \cap queue' = {}  BY <1>6, <2>5
    <2>7. \A y, z \in Contexts : y # z => c_notified'[y] \cap c_notified'[z] = {}
        <3> SUFFICES ASSUME NEW y \in Contexts, NEW z \in Contexts, y # z
                     PROVE  c_notified'[y] \cap c_notified'[z] = {}
            OBVIOUS
        <3>1. CASE y = x  BY <1>10, <2>4, <3>1
        <3>2. CASE z = x  BY <1>10, <2>4, <3>2
        <3>3. CASE y # x /\ z # x  BY <1>10, <3>3 DEF Tidy, OnePlace
        <3> QED  BY <3>1, <3>2, <3>3
    <2>8. \A y, z \in Contexts : c_task[y] \notin c_notified'[z]
        <3> SUFFICES ASSUME NEW y \in Contexts, NEW z \in Contexts
                     PROVE  c_task[y] \notin c_notified'[z]
            OBVIOUS
        <3>1. CASE z = x  BY <1>10, <2>3, <3>1
        <3>2. CASE z # x  BY <1>10, <3>2 DEF Tidy, OnePlace
        <3> QED  BY <3>1, <3>2
    <2>9. \A y \in Contexts : c_task[y] \notin queue' /\ c_notified'[y] \cap queue' = {}
        <3> SUFFICES ASSUME NEW y \in Contexts
                     PROVE  c_task[y] \notin queue' /\ c_notified'[y] \cap queue' = {}
            OBVIOUS
        <3>1. c_task[y] \notin queue'  BY <1>6, <2>3 DEF Tidy, OnePlace
        <3>2. CASE y = x  BY <1>10, <2>6, <3>1, <3>2
        <3>3. CASE y # x
            <4>1. c_notified[y] \cap queue = {}  BY DEF Tidy, OnePlace
            <4> QED  BY <1>6, <1>10, <2>4, <3>1, <3>3, <4>1
        <3> QED  BY <3>2, <3>3
    <2> QED  BY <1>7, <2>7, <2>8, <2>9 DEF Tidy, OnePlace
<1>17. Current'
    <2>1. to \notin {"run", "edges", "yield", "resumed"}  BY <1>b DEF Ending
    <2> QED  BY <1>2, <1>5, <1>7, <2>1 DEF Tidy, Current
<1>18. Main'
    <2>1. Alive(n)  BY <1>4 DEF Alive
    <2> QED  BY <1>5, <1>7, <2>1 DEF Main
<1> QED  BY <1>1, <1>11, <1>12, <1>13, <1>15, <1>16, <1>17, <1>18 DEF Tidy

\* The node has finished: it, and maybe its graph, are not waited for any more.
LEMMA FinishInv ==
    ASSUME ContextInv, NEW w \in Workers, Finish(w)
    PROVE  ContextInv'
BY FinishEnds, EndsInv

\* The waiters of the graph are released.
LEMMA NotifyInv ==
    ASSUME ContextInv, NEW w \in Workers, Notify(w)
    PROVE  ContextInv'
BY NotifyEnds, EndsInv

\* The node is Recoverable; the worker goes on with the next, or looks for one.
LEMMA RecoverInv ==
    ASSUME ContextInv, NEW w \in Workers, Recover(w)
    PROVE  ContextInv'
<1> USE DEF ContextInv
<1>c. PICK next \in IF c_notified[On(w)] = {} THEN {nullptr} ELSE c_notified[On(w)] :
          /\ Go(w, "recover", IF next = nullptr THEN "loop" ELSE "start")
          /\ status' = [status EXCEPT ![c_task[On(w)]] = "Recoverable"]
          /\ c_task' = [c_task EXCEPT ![On(w)] = next]
          /\ c_notified' = [c_notified EXCEPT ![On(w)] = {}]
    BY DEF Recover
<1>d. /\ next = nullptr \/ next \in c_notified[On(w)]
      /\ UNCHANGED <<c_status, c_nodes, c_back, thrVars, waits, back_task,
                     back_run_context_ptr, queue, flags, m_pc, made>>
    BY <1>c DEF Recover
<1>a. PICK to : to = (IF next = nullptr THEN "loop" ELSE "start")  OBVIOUS
<1>b. c_pc[On(w)] = "recover" /\ "recover" \in Busy /\ to \in {"loop", "start"}
      /\ Go(w, "recover", to)
    BY <1>a, <1>c DEF Go, At, Busy
<1>0. StaysOn(w, "recover", to)
    <2>1. "recover" \in OnStack /\ to \in OnStack  BY <1>b DEF OnStack, Busy
    <2>2. \A y \in Contexts : y # On(w) => c_task'[y] = c_task[y] /\ c_notified'[y] = c_notified[y]
        BY <1>c DEF Types
    <2> QED  BY <1>b, <1>d, <2>1, <2>2 DEF StaysOn, thrVars
<1>1. Holders'  BY <1>0, HoldersStep
<1>2. PICK x \in Contexts : x = On(w)  BY <1>b, Stack
<1>3. PICK n \in Nodes : n = c_task[x]  BY <1>b, <1>2, Mine
<1>e. next = nullptr \/ (next \in c_notified[x] /\ next \in Nodes)
    BY <1>2, <1>d DEF Types
<1>4. /\ c_pc[x] = "recover" /\ Live(x) /\ c_task[x] = n /\ n # nullptr
      /\ status[n] = "Finish" /\ waits[n] = {} /\ n \notin queue
      /\ \A y \in Contexts : y # x => c_task[y] # n
      /\ \A y \in Contexts : n \notin c_notified[y]
      /\ c_back[x] = nullptr /\ n \in Tasks
      /\ next \in Nodes \cup {nullptr} /\ next # n /\ (next = nullptr <=> to = "loop")
    <2>1. StateAt("recover") = "Finish" /\ "recover" \notin Bound /\ "recover" \in Ending
        BY DEF StateAt, Bound, Ending
    <2> QED  BY <1>a, <1>b, <1>2, <1>3, <1>e, <2>1, Stack, Mine DEF Types
<1>5. /\ c_pc'[x] = to /\ \A y \in Contexts : y # x => c_pc'[y] = c_pc[y]
      /\ \A v \in Workers : On(v)' = On(v) /\ c_pc'[v] = c_pc[v]
      /\ \A v \in Workers : v # w => c_pc'[On(v)] = c_pc[On(v)]
      /\ \A v \in Workers : v # w => On(v) # x /\ On(v) \in Contexts
    BY <1>0, <1>2, OtherStacks, Disjoint DEF Holders, OwnContext, On
<1>6. /\ status' = [status EXCEPT ![n] = "Recoverable"]
      /\ c_task' = [c_task EXCEPT ![x] = next]
      /\ c_notified' = [c_notified EXCEPT ![x] = {}]
      /\ UNCHANGED <<c_status, c_nodes, c_back, context_ptr, context_pre_ptr, stack_pool,
                     current_task, mapped, waits, back_task, back_run_context_ptr, queue,
                     flags, m_pc, made>>
    BY <1>2, <1>3, <1>c, <1>d DEF thrVars
<1>7. /\ \A m \in Nodes : m # n => status'[m] = status[m]
      /\ status'[n] = "Recoverable"
      /\ c_task'[x] = next /\ \A y \in Contexts : y # x => c_task'[y] = c_task[y]
      /\ c_notified'[x] = {} /\ \A y \in Contexts : y # x => c_notified'[y] = c_notified[y]
    BY <1>6 DEF Types
<1>8. Types'
    <2>1. c_pc' \in [Contexts -> Points]  BY <1>b DEF Go, Types, Points
    <2>2. status' \in [Nodes -> Statuses]  BY <1>6 DEF Types, Statuses
    <2>3. c_task' \in [Contexts -> Nodes \cup {nullptr}]  BY <1>4, <1>6 DEF Types
    <2>4. c_notified' \in [Contexts -> SUBSET Nodes]  BY <1>6 DEF Types
    <2> QED  BY <1>6, <2>1, <2>2, <2>3, <2>4 DEF Types
<1>9. Locals'
    <2>1. "start" \in Busy /\ "loop" \notin Busy /\ to \notin Bound  BY <1>b DEF Busy, Bound
    <2> QED  BY <1>b, <1>4, <1>5, <1>6, <1>7, <2>1 DEF Tidy, Locals, Live
<1>10. Bonds'
    <2>1. \A b \in BackNodes : status'[b] = status[b]  BY <1>4, <1>7, Disjoint
    <2>2. \A y \in Contexts : c_back[y] \in BackNodes => c_task'[y] = c_task[y]
        BY <1>4, <1>7, Disjoint
    <2> QED  BY <1>6, <2>1, <2>2, Disjoint DEF Tidy, Bonds
<1>11. \A m \in Nodes : Placed(m)' => Placed(m)
    BY <1>6, <1>7, <1>e, Disjoint DEF Placed
<1>12. States'
    <2>1. \A y \in Contexts : c_task'[y] # nullptr => status'[c_task'[y]] = StateAt(c_pc'[y])
        <3>1. StateAt("start") = "Initing"  BY DEF StateAt
        <3>2. next # nullptr => status[next] = "Initing"  BY <1>e DEF Tidy, States
        <3>3. next # nullptr => status'[next] = "Initing"  BY <1>4, <1>7, <3>2
        <3> QED  BY <1>4, <1>5, <1>7, <1>b, <3>1, <3>3 DEF Tidy, States, Types
    <2>2. \A y \in Contexts : \A m \in c_notified'[y] : status'[m] = "Initing"
        <3>1. \A y \in Contexts : \A m \in c_notified[y] : status'[m] = "Initing"
            BY <1>4, <1>7 DEF Tidy, States, Types
        <3> QED  BY <1>7, <3>1
    <2>3. \A y \in Contexts : Live(y) /\ c_pc'[y] = "edges" =>
             status'[c_back[y]] = "Initing" /\ waits[c_back[y]] = {} /\ ~Placed(c_back[y])'
        <3> SUFFICES ASSUME NEW y \in Contexts, Live(y), c_pc'[y] = "edges"
                     PROVE  status'[c_back[y]] = "Initing" /\ waits[c_back[y]] = {}
                            /\ ~Placed(c_back[y])'
            OBVIOUS
        <3>1. y # x /\ c_pc[y] = "edges"  BY <1>b, <1>5
        <3>2. PICK b : b = c_back[y]  OBVIOUS
        <3>3. b \in BackNodes  BY <3>1, <3>2, MyBack DEF Bound
        <3>4. b # n /\ b \in Nodes  BY <1>4, <3>3, Disjoint
        <3>5. status[b] = "Initing" /\ waits[b] = {} /\ ~Placed(b)
            BY <3>1, <3>2 DEF Tidy, States
        <3>7. status'[b] = "Initing" /\ ~Placed(b)'
            BY <1>7, <1>11, <3>4, <3>5
        <3>8. c_back'[y] = b  BY <1>6, <3>2
        <3> QED  BY <3>2, <3>5, <3>7, <3>8
    <2>4. \A m \in queue : status'[m] = "Initing"
        BY <1>4, <1>7 DEF Tidy, States, Types
    <2>5. \A m \in Nodes : waits[m] # {} => status'[m] = "Initing"
        BY <1>4, <1>7 DEF Tidy, States
    <2>6. \A m \in Tasks : status'[m] = "none" <=> m > made
        BY <1>4, <1>7, Disjoint DEF Tidy, States
    <2>7. \A m \in Nodes : Placed(m)' => waits[m] = {}
        BY <1>11 DEF Tidy, States
    <2> QED  BY <1>6, <2>1, <2>2, <2>3, <2>4, <2>5, <2>6, <2>7 DEF Tidy, States, Live
<1>13. OnePlace'
    <2>1. next # nullptr => /\ \A y \in Contexts : c_task[y] # next
                            /\ \A y \in Contexts : y # x => next \notin c_notified[y]
                            /\ next \notin queue
        BY <1>e DEF Tidy, OnePlace
    <2>2. nullptr \notin queue /\ \A y \in Contexts : nullptr \notin c_notified[y]
        BY NoNull, Disjoint DEF Types
    <2> QED  BY <1>6, <1>7, <2>1, <2>2 DEF Tidy, OnePlace
<1>14. Current'
    <2>1. to \notin {"run", "edges", "yield", "resumed"}  BY <1>b
    <2> QED  BY <1>2, <1>5, <1>6, <1>7, <2>1 DEF Tidy, Current
<1>15. Main'
    <2>1. Alive(n)  BY <1>4 DEF Alive
    <2> QED  BY <1>5, <1>6, <2>1 DEF Main
<1> QED  BY <1>1, <1>8, <1>9, <1>10, <1>12, <1>13, <1>14, <1>15 DEF Tidy

-----------------------------------------------------------------------------
(* require_node and wait_graph *)

\* A back node nobody has used.
LEMMA FreshNode ==
    ASSUME Types, Tidy, NEW b \in BackNodes, status[b] = "none"
    PROVE  /\ waits[b] = {} /\ ~Placed(b) /\ back_run_context_ptr[b] = nullptr
           /\ \A x \in Contexts : c_back[x] # b
<1>1. b \in Nodes /\ b # nullptr  BY Disjoint
<1>2. waits[b] = {}  BY <1>1 DEF Tidy, States
<1>3. ~Placed(b)
    <2>1. \A x \in Contexts : c_task[x] = b => status[b] = StateAt(c_pc[x]) /\ c_pc[x] \in Busy
        BY <1>1 DEF Tidy, States, Locals
    <2>2. \A pc \in Busy : StateAt(pc) # "none"  BY DEF Busy, StateAt
    <2> QED  BY <1>1, <2>1, <2>2 DEF Tidy, States, Placed
<1>4. back_run_context_ptr[b] = nullptr  BY DEF Tidy, Bonds
<1>5. \A x \in Contexts : c_back[x] # b  BY <1>4, Disjoint DEF Tidy, Bonds
<1> QED  BY <1>2, <1>3, <1>4, <1>5

\* The back node names the task that waits and the context it will go on in.
LEMMA NewBackNodeInv ==
    ASSUME ContextInv, NEW w \in Workers,
           NEW what \in (SUBSET Tasks) \cup {{g} : g \in Graphs}, NewBackNode(w, what)
    PROVE  ContextInv'
<1> USE DEF ContextInv
<1>b. c_pc[On(w)] = "run" /\ "run" \in Busy  BY DEF NewBackNode, Go, At, Busy
<1>0. StaysOn(w, "run", "edges")
    <2>1. /\ Go(w, "run", "edges") /\ UNCHANGED <<c_status, c_task, c_notified, thrVars>>
          /\ \A y \in Contexts : y # On(w) => c_back'[y] = c_back[y]
        BY DEF NewBackNode, Types
    <2> QED  BY <2>1 DEF StaysOn, OnStack, Busy, thrVars
<1>1. Holders'  BY <1>0, HoldersStep
<1>2. PICK x \in Contexts : x = On(w)  BY <1>b, Stack
<1>3. PICK n \in Nodes : n = c_task[x]  BY <1>b, <1>2, Mine
<1>4. /\ c_pc[x] = "run" /\ Live(x) /\ c_task[x] = n /\ n # nullptr /\ n \in Tasks
      /\ status[n] = "Running" /\ c_notified[x] = {} /\ c_back[x] = nullptr
      /\ x \in Coroutines /\ context_ptr[w] = x /\ x # nullptr /\ current_task[w] = n
    <2>1. StateAt("run") = "Running" /\ "run" \notin Bound /\ "run" \notin Ending
        BY DEF StateAt, Bound, Ending
    <2> QED  BY <1>b, <1>2, <1>3, <2>1, Stack, Mine, Disjoint DEF Tidy, Current
<1>5. /\ c_pc'[x] = "edges" /\ \A y \in Contexts : y # x => c_pc'[y] = c_pc[y]
      /\ \A v \in Workers : On(v)' = On(v) /\ c_pc'[v] = c_pc[v]
      /\ \A v \in Workers : v # w => c_pc'[On(v)] = c_pc[On(v)]
      /\ \A v \in Workers : v # w => On(v) # x /\ On(v) \in Contexts
    BY <1>0, <1>2, OtherStacks, Disjoint DEF Holders, OwnContext, On
<1>c. PICK b \in BackNodes : b = (CHOOSE k \in BackNodes : status[k] = "none") /\ status[b] = "none"
    BY DEF NewBackNode
<1>6. /\ status' = [status EXCEPT ![b] = "Initing"]
      /\ back_task' = [back_task EXCEPT ![b] = n]
      /\ back_run_context_ptr' = [back_run_context_ptr EXCEPT ![b] = x]
      /\ c_back' = [c_back EXCEPT ![x] = b]
      /\ c_nodes' = [c_nodes EXCEPT ![x] = what]
      /\ UNCHANGED <<c_status, c_task, c_notified, thrVars, waits, schedVars>>
    BY <1>2, <1>4, <1>c DEF NewBackNode
<1>7. /\ b \in Nodes /\ b # nullptr /\ b # n
      /\ waits[b] = {} /\ ~Placed(b) /\ back_run_context_ptr[b] = nullptr
      /\ \A y \in Contexts : c_back[y] # b
    BY <1>4, <1>c, FreshNode, Disjoint
<1>8. /\ \A m \in Nodes : m # b => status'[m] = status[m]
      /\ status'[b] = "Initing"
      /\ c_back'[x] = b /\ \A y \in Contexts : y # x => c_back'[y] = c_back[y]
      /\ back_task'[b] = n /\ \A k \in BackNodes : k # b => back_task'[k] = back_task[k]
      /\ back_run_context_ptr'[b] = x
      /\ \A k \in BackNodes : k # b => back_run_context_ptr'[k] = back_run_context_ptr[k]
    BY <1>6, <1>7 DEF Types
<1>9. Types'
    <2>1. c_pc' \in [Contexts -> Points]  BY DEF NewBackNode, Go, Types, Points
    <2>2. status' \in [Nodes -> Statuses]  BY <1>6 DEF Types, Statuses
    <2>3. c_back' \in [Contexts -> BackNodes \cup {nullptr}]  BY <1>6 DEF Types
    <2>4. c_nodes' \in [Contexts -> (SUBSET Tasks) \cup {{g} : g \in Graphs}]
        BY <1>6 DEF Types
    <2>5. back_task' \in [BackNodes -> Tasks \cup {nullptr}]  BY <1>4, <1>6 DEF Types
    <2>6. back_run_context_ptr' \in [BackNodes -> Contexts \cup {nullptr}]  BY <1>6 DEF Types
    <2> QED  BY <1>6, <2>1, <2>2, <2>3, <2>4, <2>5, <2>6 DEF Types, thrVars, schedVars
<1>10. Locals'
    <2>1. {"run", "edges"} \subseteq Busy /\ "edges" \in Bound  BY DEF Busy, Bound
    <2> QED  BY <1>4, <1>5, <1>6, <1>7, <1>8, <2>1 DEF Tidy, Locals, Live
<1>11. Bonds'
    <2> SUFFICES ASSUME NEW k \in BackNodes
                 PROVE  /\ back_run_context_ptr'[k] # nullptr <=> status'[k] \in {"Initing", "Recoverable"}
                        /\ back_run_context_ptr'[k] # nullptr =>
                              /\ back_run_context_ptr'[k] \in Coroutines
                              /\ c_back'[back_run_context_ptr'[k]] = k
                              /\ back_task'[k] = c_task[back_run_context_ptr'[k]]
                        /\ \A y \in Contexts : c_back'[y] = k => back_run_context_ptr'[k] = y
        BY <1>6 DEF Bonds
    <2>1. CASE k = b  BY <1>4, <1>7, <1>8, <2>1
    <2>2. CASE k # b
        <3>1. \A y \in Contexts : c_back[y] = k => y # x  BY <1>4, Disjoint
        <3> QED  BY <1>8, <2>2, <3>1, Disjoint DEF Tidy, Bonds
    <2> QED  BY <2>1, <2>2
<1>12. \A m : Placed(m)' <=> Placed(m)  BY <1>6 DEF Placed, schedVars
<1>13. States'
    <2>1. \A y \in Contexts : c_task[y] # nullptr => status'[c_task[y]] = StateAt(c_pc'[y])
        <3>1. StateAt("edges") = StateAt("run")  BY DEF StateAt
        <3>2. \A y \in Contexts : c_task[y] # b  BY <1>7 DEF Placed
        <3> QED  BY <1>4, <1>5, <1>8, <3>1, <3>2 DEF Tidy, States, Types
    <2>2. \A y \in Contexts : \A m \in c_notified[y] : status'[m] = "Initing"
        BY <1>8 DEF Tidy, States, Types
    <2>3. \A y \in Contexts : Live(y) /\ c_pc'[y] = "edges" =>
             status'[c_back'[y]] = "Initing" /\ waits[c_back'[y]] = {} /\ ~Placed(c_back'[y])
        <3> SUFFICES ASSUME NEW y \in Contexts, Live(y), c_pc'[y] = "edges"
                     PROVE  status'[c_back'[y]] = "Initing" /\ waits[c_back'[y]] = {}
                            /\ ~Placed(c_back'[y])
            OBVIOUS
        <3>1. CASE y = x  BY <1>7, <1>8, <3>1
        <3>2. CASE y # x
            <4>1. c_pc[y] = "edges" /\ c_back'[y] = c_back[y]  BY <1>5, <1>8, <3>2
            <4>2. c_back[y] \in Nodes /\ c_back[y] # b  BY <1>7, <4>1, MyBack, Disjoint
                DEF Bound
            <4> QED  BY <1>8, <4>1, <4>2 DEF Tidy, States
        <3> QED  BY <3>1, <3>2
    <2>4. \A m \in queue : status'[m] = "Initing"
        BY <1>8 DEF Tidy, States, Types
    <2>5. \A m \in Nodes : waits[m] # {} => status'[m] = "Initing"
        BY <1>8 DEF Tidy, States
    <2>6. \A m \in Tasks : status'[m] = "none" <=> m > made
        BY <1>8, Disjoint DEF Tidy, States
    <2> QED  BY SMTT(60), <1>6, <1>12, <2>1, <2>2, <2>3, <2>4, <2>5, <2>6
             DEF Tidy, States, Live, schedVars
<1>14. OnePlace'  BY <1>6 DEF Tidy, OnePlace, schedVars
<1>15. Current'  BY <1>2, <1>4, <1>5, <1>6 DEF Tidy, Current, thrVars
<1>16. Main'
    <2>1. m_pc \notin {"join", "done"}  BY <1>4 DEF Main, Alive
    <2> QED  BY <1>5, <1>6, <2>1 DEF Main, schedVars
<1> QED  BY <1>1, <1>9, <1>10, <1>11, <1>13, <1>14, <1>15, <1>16 DEF Tidy

\* The back node gets its edges, and may run from now on.
LEMMA CreateEdgesInv ==
    ASSUME ContextInv, NEW w \in Workers, CreateEdges(w)
    PROVE  ContextInv'
<1> USE DEF ContextInv
<1>b. c_pc[On(w)] = "edges" /\ "edges" \in Busy /\ "edges" \in Bound
    BY DEF CreateEdges, Go, At, Busy, Bound
<1>0. StaysOn(w, "edges", "yield")
    BY DEF CreateEdges, StaysOn, OnStack, Busy, thrVars
<1>1. Holders'  BY <1>0, HoldersStep
<1>2. PICK x \in Contexts : x = On(w)  BY <1>b, Stack
<1>3. PICK b \in BackNodes : b = c_back[x]  BY <1>b, <1>2, Stack, MyBack
<1>4. /\ c_pc[x] = "edges" /\ Live(x) /\ b # nullptr /\ b \in Nodes
      /\ status[b] = "Initing" /\ waits[b] = {} /\ ~Placed(b)
      /\ back_run_context_ptr[b] = x
    BY <1>b, <1>2, <1>3, Stack, MyBack, Disjoint DEF Tidy, States
<1>5. /\ c_pc'[x] = "yield" /\ \A y \in Contexts : y # x => c_pc'[y] = c_pc[y]
      /\ \A v \in Workers : On(v)' = On(v) /\ c_pc'[v] = c_pc[v]
      /\ \A v \in Workers : v # w => c_pc'[On(v)] = c_pc[On(v)]
      /\ \A v \in Workers : v # w => On(v) # x /\ On(v) \in Contexts
    BY <1>0, <1>2, OtherStacks, Disjoint DEF Holders, OwnContext, On
<1>6. PICK left :
          /\ left \subseteq c_nodes[x]
          /\ waits' = [waits EXCEPT ![b] = left]
          /\ queue' = IF left = {} THEN queue \cup {b} ELSE queue
    <2> DEFINE left == {r \in c_nodes[On(w)] : IF r \in Graphs THEN get_wait_count(r) # 0
                                                      ELSE Unfinished(r)}
    <2>1. /\ waits' = [waits EXCEPT ![c_back[On(w)]] = left]
          /\ queue' = IF left = {} THEN queue \cup {c_back[On(w)]} ELSE queue
        BY DEF CreateEdges, ready
    <2>2. left \subseteq c_nodes[On(w)]  OBVIOUS
    <2> HIDE DEF left
    <2>3. \E l : /\ l \subseteq c_nodes[x]
                 /\ waits' = [waits EXCEPT ![b] = l]
                 /\ queue' = IF l = {} THEN queue \cup {b} ELSE queue
        <3> WITNESS left
        <3> QED  BY <1>2, <1>3, <2>1, <2>2
    <2> QED  BY ONLY <2>3
<1>7. UNCHANGED <<c_status, c_task, c_notified, c_nodes, c_back, thrVars, status, back_task,
                  back_run_context_ptr, flags, idle_worker_num, m_pc, made>>
    BY DEF CreateEdges
<1>8. /\ waits'[b] = left /\ \A m \in Nodes : m # b => waits'[m] = waits[m]
      /\ \A m : m \in queue' <=> m \in queue \/ (m = b /\ left = {})
    BY <1>4, <1>6 DEF Types
<1>9. Types'
    <2>1. c_pc' \in [Contexts -> Points]  BY DEF CreateEdges, Go, Types, Points
    <2>2. left \in (SUBSET Tasks) \cup {{g} : g \in Graphs}
        <3>1. PICK s : s = c_nodes[x]  OBVIOUS
        <3>2. left \subseteq s /\ s \in (SUBSET Tasks) \cup {{g} : g \in Graphs}
            BY <1>6, <3>1 DEF Types
        <3>3. CASE s \in SUBSET Tasks  BY <3>2, <3>3
        <3>4. CASE s \in {{g} : g \in Graphs}
            <4>1. PICK g \in Graphs : s = {g}  BY <3>4
            <4>2. left = {} \/ left = {g}  BY <3>2, <4>1
            <4>3. CASE left = {}  BY <4>3
            <4>4. CASE left = {g}  BY <4>1, <4>4
            <4> QED  BY <4>2, <4>3, <4>4
        <3> QED  BY <3>2, <3>3, <3>4
    <2>3. waits' \in [Nodes -> (SUBSET Tasks) \cup {{g} : g \in Graphs}]
        BY <1>6, <2>2 DEF Types
    <2>4. queue' \subseteq Nodes  BY <1>4, <1>8 DEF Types
    <2> QED  BY <1>7, <2>1, <2>3, <2>4 DEF Types, thrVars
<1>10. Locals'
    <2>1. /\ {"yield", "edges"} \subseteq Busy /\ {"yield", "edges"} \subseteq Bound
          /\ "edges" \notin Ending
        BY DEF Busy, Bound, Ending
    <2> QED  BY <1>4, <1>5, <1>7, <2>1 DEF Tidy, Locals, Live
<1>11. Bonds'  BY <1>7 DEF Tidy, Bonds
<1>12. \A m : Placed(m)' <=> Placed(m) \/ (m = b /\ left = {})  BY <1>7, <1>8 DEF Placed
<1>13. States'
    <2>1. \A y \in Contexts : c_task[y] # nullptr => status[c_task[y]] = StateAt(c_pc'[y])
        <3>1. StateAt("edges") = StateAt("yield")  BY DEF StateAt
        <3> QED  BY <1>4, <1>5, <3>1 DEF Tidy, States
    <2>3. \A y \in Contexts : Live(y) /\ c_pc'[y] = "edges" =>
             status[c_back[y]] = "Initing" /\ waits'[c_back[y]] = {} /\ ~Placed(c_back[y])'
        <3> SUFFICES ASSUME NEW y \in Contexts, Live(y), c_pc'[y] = "edges"
                     PROVE  status[c_back[y]] = "Initing" /\ waits'[c_back[y]] = {}
                            /\ ~Placed(c_back[y])'
            OBVIOUS
        <3>1. y # x /\ c_pc[y] = "edges"  BY <1>5
        <3>2. PICK k : k = c_back[y]  OBVIOUS
        <3>3. k \in BackNodes /\ back_run_context_ptr[k] = y  BY <3>1, <3>2, MyBack DEF Bound
        <3>4. k # b /\ k \in Nodes  BY <1>4, <3>1, <3>3, Disjoint
        <3>5. status[k] = "Initing" /\ waits[k] = {} /\ ~Placed(k)
            BY <3>1, <3>2 DEF Tidy, States
        <3>6. waits'[k] = {} /\ ~Placed(k)'  BY <1>8, <1>12, <3>4, <3>5
        <3>7. c_back'[y] = k  BY <1>7, <3>2
        <3> QED  BY <3>2, <3>5, <3>6, <3>7
    <2>4. \A m \in queue' : status[m] = "Initing"  BY <1>4, <1>8 DEF Tidy, States
    <2>5. \A m \in Nodes : waits'[m] # {} => status[m] = "Initing"
        BY <1>4, <1>8 DEF Tidy, States
    <2>7. \A m \in Nodes : Placed(m)' => waits'[m] = {}
        BY <1>4, <1>8, <1>12 DEF Tidy, States
    <2> QED  BY <1>7, <2>1, <2>3, <2>4, <2>5, <2>7 DEF Tidy, States, Live
<1>14. OnePlace'
    <2>1. \A y \in Contexts : c_task[y] # b /\ b \notin c_notified[y]  BY <1>4 DEF Placed
    <2> QED  BY <1>7, <1>8, <2>1 DEF Tidy, OnePlace
<1>15. Current'  BY <1>2, <1>4, <1>5, <1>7 DEF Tidy, Current, thrVars
<1>16. Main'  BY <1>5, <1>7 DEF Main, Alive
<1> QED  BY <1>1, <1>9, <1>10, <1>11, <1>13, <1>14, <1>15, <1>16 DEF Tidy

-----------------------------------------------------------------------------
(* Steps from one context to another *)

\* Nobody has a coroutine that does not exist.
LEMMA Unheld ==
    ASSUME Types, Holders, Tidy, NEW y \in Coroutines, c_status[y] = "none"
    PROVE  /\ \A v \in Workers : context_ptr[v] # y /\ context_pre_ptr[v] # y /\ On(v) # y /\ v # y
           /\ c_task[y] = nullptr /\ c_notified[y] = {} /\ c_back[y] = nullptr
           /\ \A b \in BackNodes : back_run_context_ptr[b] # y
           /\ y \in Contexts /\ y # nullptr
<1>1. y \in Contexts /\ y # nullptr  BY Disjoint
<1>2. \A v \in Workers : context_ptr[v] # y /\ context_pre_ptr[v] # y /\ v # y
    BY Disjoint DEF Holders, Standing, Behind
<1>3. \A v \in Workers : On(v) # y  BY <1>2 DEF On
<1>4. c_task[y] = nullptr /\ c_notified[y] = {} /\ c_back[y] = nullptr
    BY <1>1 DEF Tidy, Locals, Live
<1>5. \A b \in BackNodes : back_run_context_ptr[b] # y
    BY <1>1, <1>4, Disjoint DEF Tidy, Bonds
<1> QED  BY <1>1, <1>2, <1>3, <1>4, <1>5

\* Worker w leaves x for the new context y.
Leaves(w, x, y) ==
    /\ x = On(w) /\ (At(w, "routine") \/ At(w, "yield"))
    /\ context_pre_ptr' = [context_pre_ptr EXCEPT ![w] = x]
    /\ context_ptr' = [context_ptr EXCEPT ![w] = y]
    /\ c_pc' = [c_pc EXCEPT ![x] = IF x = w THEN "ended" ELSE "resumed", ![y] = "enter"]
    /\ c_status' = [c_status EXCEPT ![x] = IF x = w THEN "Ready" ELSE "Running",
                                    ![y] = "Initing"]
    /\ UNCHANGED <<c_task, c_back, c_notified>>

\* What such a step changes.
LEMMA LeavesEffect ==
    ASSUME Types, Holders, Tidy, NEW w \in Workers, NEW x \in Contexts, NEW y \in Coroutines,
           c_status[y] = "none", Leaves(w, x, y)
    PROVE  /\ x # y /\ x # nullptr /\ y # nullptr /\ y # w
           /\ context_ptr'[w] = y /\ context_pre_ptr'[w] = x /\ On(w)' = y
           /\ \A v \in Workers : v # w => /\ context_ptr'[v] = context_ptr[v]
                                          /\ context_pre_ptr'[v] = context_pre_ptr[v]
                                          /\ On(v)' = On(v)
           /\ \A v \in Workers : v # w => /\ On(v) # x /\ On(v) # y /\ v # x /\ v # y
                                          /\ context_ptr[v] # x /\ context_ptr[v] # y
                                          /\ context_pre_ptr[v] # x /\ context_pre_ptr[v] # y
                                          /\ On(v) \in Contexts
           /\ c_pc'[x] = (IF x = w THEN "ended" ELSE "resumed") /\ c_pc'[y] = "enter"
           /\ c_status'[x] = (IF x = w THEN "Ready" ELSE "Running") /\ c_status'[y] = "Initing"
           /\ \A z \in Contexts : z # x /\ z # y => c_pc'[z] = c_pc[z] /\ c_status'[z] = c_status[z]
           /\ \/ /\ x = w /\ c_pc[x] = "routine" /\ c_status[x] = "none"
                 /\ context_ptr[w] = nullptr
              \/ /\ x # w /\ x \in Coroutines /\ c_pc[x] = "yield" /\ c_status[x] = "Running"
                 /\ context_ptr[w] = x
                 /\ c_pc[w] = "ended" /\ c_status[w] = "Yield"
           /\ context_pre_ptr[w] = nullptr
<1>1. /\ y # nullptr /\ y \in Contexts /\ y # w /\ On(w) # y
      /\ \A v \in Workers : v # y /\ context_ptr[v] # y /\ context_pre_ptr[v] # y /\ On(v) # y
    BY Unheld
<1>2. \/ /\ x = w /\ c_pc[x] = "routine" /\ c_status[x] = "none"
         /\ context_ptr[w] = nullptr /\ context_pre_ptr[w] = nullptr
      \/ /\ x # w /\ x \in Coroutines /\ c_pc[x] = "yield" /\ c_status[x] = "Running"
         /\ context_ptr[w] = x /\ context_pre_ptr[w] = nullptr
         /\ c_pc[w] = "ended" /\ c_status[w] = "Yield"
    <2>1. CASE At(w, "routine")
        <3>1. context_ptr[w] = nullptr /\ context_pre_ptr[w] = nullptr
            BY <2>1, Disjoint DEF Holders, OwnContext, Standing, On, At, Busy
        <3> QED  BY <2>1, <3>1, Disjoint DEF Leaves, On, At, Holders, OwnContext
    <2>2. CASE At(w, "yield")
        <3>1. /\ context_ptr[w] = x /\ x \in Coroutines /\ context_pre_ptr[w] = nullptr
              /\ c_status[x] = "Running" /\ c_pc[x] = "yield" /\ c_pc[w] = "ended"
            BY <2>2, Stack DEF At, Busy, Leaves
        <3>2. c_status[w] = "Yield"  BY <3>1, Disjoint DEF Holders, OwnContext
        <3> QED  BY <3>1, <3>2, Disjoint
    <2> QED  BY <2>1, <2>2 DEF Leaves
<1>3. x # y /\ x # nullptr  BY <1>1, Disjoint DEF Leaves
<1>4. /\ context_ptr'[w] = y /\ context_pre_ptr'[w] = x
      /\ \A v \in Workers : v # w => context_ptr'[v] = context_ptr[v]
                                     /\ context_pre_ptr'[v] = context_pre_ptr[v]
    BY DEF Leaves, Types
<1>5. On(w)' = y /\ \A v \in Workers : v # w => On(v)' = On(v)
    BY <1>1, <1>4 DEF On
<1>6. \A v \in Workers : v # w => /\ On(v) # x /\ v # x /\ On(v) \in Contexts
                                  /\ context_ptr[v] # x /\ context_pre_ptr[v] # x
    <2> SUFFICES ASSUME NEW v \in Workers, v # w
                 PROVE  /\ On(v) # x /\ v # x /\ On(v) \in Contexts
                        /\ context_ptr[v] # x /\ context_pre_ptr[v] # x
        OBVIOUS
    <2>1. On(v) # x  BY DEF Leaves, Holders, OneHolder
    <2>2. v # x /\ On(v) \in Contexts  BY <1>2, Disjoint DEF On, Holders, OwnContext
    <2>3. context_ptr[v] # x  BY <1>3, <2>1 DEF On
    <2>4. context_pre_ptr[v] # x
        <3>1. CASE x = w  BY <3>1 DEF Holders, Behind
        <3>2. CASE x # w  BY <1>2, <1>3, <3>2 DEF Holders, OneHolder
        <3> QED  BY <3>1, <3>2
    <2> QED  BY <2>1, <2>2, <2>3, <2>4
<1>7. /\ c_pc'[x] = (IF x = w THEN "ended" ELSE "resumed") /\ c_pc'[y] = "enter"
      /\ c_status'[x] = (IF x = w THEN "Ready" ELSE "Running") /\ c_status'[y] = "Initing"
      /\ \A z \in Contexts : z # x /\ z # y => c_pc'[z] = c_pc[z] /\ c_status'[z] = c_status[z]
    BY <1>1, <1>3 DEF Leaves, Types
<1> QED  BY <1>1, <1>2, <1>3, <1>4, <1>5, <1>6, <1>7

\* The new context is held by its worker, and so is the one it has left until it
\* is marked.
LEMMA LeavesHolders ==
    ASSUME Types, Holders, Tidy, NEW w \in Workers, NEW x \in Contexts, NEW y \in Coroutines,
           c_status[y] = "none", Leaves(w, x, y)
    PROVE  Holders'
<1>1. /\ x # y /\ x # nullptr /\ y # nullptr /\ y # w
      /\ context_ptr'[w] = y /\ context_pre_ptr'[w] = x /\ On(w)' = y
      /\ \A v \in Workers : v # w => /\ context_ptr'[v] = context_ptr[v]
                                     /\ context_pre_ptr'[v] = context_pre_ptr[v]
                                     /\ On(v)' = On(v)
    BY LeavesEffect
<1>2. \A v \in Workers : v # w => /\ On(v) # x /\ On(v) # y /\ v # x /\ v # y
                                  /\ context_ptr[v] # x /\ context_ptr[v] # y
                                  /\ context_pre_ptr[v] # x /\ context_pre_ptr[v] # y
                                  /\ On(v) \in Contexts
    BY LeavesEffect
<1>3. /\ c_pc'[x] = (IF x = w THEN "ended" ELSE "resumed") /\ c_pc'[y] = "enter"
      /\ c_status'[x] = (IF x = w THEN "Ready" ELSE "Running") /\ c_status'[y] = "Initing"
      /\ \A z \in Contexts : z # x /\ z # y => c_pc'[z] = c_pc[z] /\ c_status'[z] = c_status[z]
    BY LeavesEffect
<1>4. /\ \/ x = w
         \/ /\ x # w /\ x \in Coroutines /\ c_status[x] = "Running"
            /\ c_pc[w] = "ended" /\ c_status[w] = "Yield"
      /\ context_pre_ptr[w] = nullptr
    BY LeavesEffect
<1>5. UNCHANGED <<c_task, c_back>>  BY DEF Leaves
<1>6. OwnContext'
    <2> SUFFICES ASSUME NEW v \in Workers
                 PROVE  \/ /\ context_ptr'[v] = nullptr /\ context_pre_ptr'[v] = nullptr
                           /\ c_pc'[v] \in {"routine", "joined"} /\ c_status'[v] = "none"
                        \/ /\ context_ptr'[v] = v /\ context_pre_ptr'[v] \in Coroutines
                           /\ c_pc'[v] = "ended" /\ c_status'[v] = "Yield"
                        \/ /\ context_ptr'[v] \in Coroutines
                           /\ c_pc'[v] = "ended"
                           /\ c_status'[v] = IF context_pre_ptr'[v] = v THEN "Ready" ELSE "Yield"
        BY DEF OwnContext
    <2>1. CASE v = w  BY <1>1, <1>3, <1>4, <2>1, Disjoint
    <2>2. CASE v # w
        <3>1. c_pc'[v] = c_pc[v] /\ c_status'[v] = c_status[v]  BY <1>2, <1>3, <2>2, Disjoint
        <3> QED  BY <1>1, <2>2, <3>1 DEF Holders, OwnContext
    <2> QED  BY <2>1, <2>2
<1>7. Standing'
    <2> SUFFICES ASSUME NEW v \in Workers, context_ptr'[v] \in Coroutines
                 PROVE  /\ c_pc'[context_ptr'[v]] \in Busy \cup {"enter", "loop"}
                        /\ c_status'[context_ptr'[v]] = IF At(v, "enter")' THEN "Initing" ELSE "Running"
        BY DEF Standing
    <2>1. CASE v = w  BY <1>1, <1>3, <2>1 DEF At
    <2>2. CASE v # w
        <3>1. PICK z \in Contexts : z = On(v)  BY <1>2, <2>2
        <3>2. z # x /\ z # y /\ On(v)' = z /\ context_ptr'[v] = z /\ context_ptr[v] = z
            BY <1>1, <1>2, <2>2, <3>1, Disjoint DEF On
        <3>3. c_pc'[z] = c_pc[z] /\ c_status'[z] = c_status[z]  BY <1>3, <3>2
        <3> QED  BY <3>1, <3>2, <3>3 DEF Holders, Standing, At
    <2> QED  BY <2>1, <2>2
<1>8. Behind'
    <2> SUFFICES ASSUME NEW v \in Workers, NEW p, p = context_pre_ptr'[v]
                 PROVE  /\ p # nullptr <=> c_pc'[On(v)'] \in {"enter", "resumed"} \/ context_ptr'[v] = v
                        /\ p \in Coroutines =>
                              /\ c_status'[p] = "Running"
                              /\ c_pc'[p] = CASE context_ptr'[v] = v -> "loop"
                                              [] At(v, "enter")' -> "resumed"
                                              [] OTHER -> "back"
                              /\ At(v, "resumed")' => c_task'[p] = c_back'[On(v)']
                        /\ p \in Workers => p = v /\ At(v, "enter")'
        BY DEF Behind
    <2>1. CASE v = w
        <3>1. At(v, "enter")' /\ ~At(v, "resumed")'  BY <1>1, <1>3, <2>1 DEF At
        <3> QED  BY <1>1, <1>3, <1>4, <2>1, <3>1, Disjoint
    <2>2. CASE v # w
        <3>1. PICK z \in Contexts : z = On(v)  BY <1>2, <2>2
        <3>2. /\ z # x /\ z # y /\ On(v)' = z /\ context_ptr'[v] = context_ptr[v]
              /\ p = context_pre_ptr[v] /\ p # x /\ p # y
            BY <1>1, <1>2, <2>2, <3>1
        <3>3. c_pc'[z] = c_pc[z]  BY <1>3, <3>2
        <3>4. p \in Coroutines => c_pc'[p] = c_pc[p] /\ c_status'[p] = c_status[p]
            BY <1>3, <3>2, Disjoint
        <3>5. (At(v, "enter")' <=> At(v, "enter")) /\ (At(v, "resumed")' <=> At(v, "resumed"))
            BY <3>1, <3>2, <3>3 DEF At
        <3> QED  BY <1>5, <3>1, <3>2, <3>3, <3>4, <3>5 DEF Holders, Behind
    <2> QED  BY <2>1, <2>2
<1>9. OneHolder'
    <2>1. \A v, u \in Workers : v # u => On(v)' # On(u)'
        BY <1>1, <1>2 DEF Holders, OneHolder
    <2>2. \A v, u \in Workers : context_pre_ptr'[v] # nullptr =>
              /\ context_pre_ptr'[v] # context_ptr'[u]
              /\ v # u => context_pre_ptr'[v] # context_pre_ptr'[u]
        BY <1>1, <1>2 DEF Holders, OneHolder
    <2> QED  BY <2>1, <2>2 DEF OneHolder
<1>10. Suspended'
    <2> SUFFICES ASSUME NEW z \in Coroutines
                 PROVE  /\ c_status'[z] = "Yield" => c_pc'[z] = "resumed"
                        /\ \/ c_status'[z] \in {"none", "Yield"}
                           \/ \E v \in Workers : context_ptr'[v] = z \/ context_pre_ptr'[v] = z
        BY DEF Suspended
    <2>1. CASE z = x \/ z = y  BY <1>1, <1>3, <2>1, Disjoint
    <2>2. CASE z # x /\ z # y
        <3>1. c_pc'[z] = c_pc[z] /\ c_status'[z] = c_status[z]  BY <1>3, <2>2, Disjoint
        <3>2. \A v \in Workers : context_ptr[v] = z \/ context_pre_ptr[v] = z => v # w
            BY <1>4, <2>2, LeavesEffect, Disjoint
        <3> QED  BY <1>1, <3>1, <3>2 DEF Holders, Suspended
    <2> QED  BY <2>1, <2>2
<1> QED  BY <1>6, <1>7, <1>8, <1>9, <1>10 DEF Holders

\* Neither leaving a thread's own context nor a coroutine disturbs what the
\* others have on their stacks.
LEMMA LeavesLocals ==
    ASSUME ContextInv, NEW w \in Workers, NEW x \in Contexts, NEW y \in Coroutines,
           c_status[y] = "none", Leaves(w, x, y), UNCHANGED <<current_task, m_pc, flags>>
    PROVE  /\ Locals' /\ Current'
           /\ c_pc' \in [Contexts -> Points] /\ c_status' \in [Contexts -> Statuses]
           /\ context_ptr' \in [Workers -> Contexts \cup {nullptr}]
           /\ context_pre_ptr' \in [Workers -> Contexts \cup {nullptr}]
           /\ m_pc \notin {"join", "done"} =>
                 flags' = 0 /\ \A v \in Workers : c_pc'[v] # "joined"
           /\ m_pc # "done" /\ flags' \in 0 .. 2 * Cardinality(Workers)
<1> USE DEF ContextInv
<1>1. /\ x # y /\ On(w)' = y
      /\ \A v \in Workers : v # w => On(v)' = On(v) /\ On(v) # x /\ On(v) # y /\ v # x /\ v # y
                                     /\ On(v) \in Contexts
      /\ c_pc'[x] = (IF x = w THEN "ended" ELSE "resumed") /\ c_pc'[y] = "enter"
      /\ c_status'[x] = (IF x = w THEN "Ready" ELSE "Running") /\ c_status'[y] = "Initing"
      /\ \A z \in Contexts : z # x /\ z # y => c_pc'[z] = c_pc[z] /\ c_status'[z] = c_status[z]
      /\ \/ x = w /\ c_pc[x] = "routine" /\ c_status[x] = "none"
         \/ x # w /\ c_pc[x] = "yield" /\ c_status[x] = "Running" /\ c_pc[w] = "ended"
      /\ y # w
    BY LeavesEffect
<1>2. c_task[y] = nullptr /\ c_notified[y] = {} /\ c_back[y] = nullptr  BY Unheld
<1>3. UNCHANGED <<c_task, c_back, c_notified>>  BY DEF Leaves
<1>4. Locals'
    <2>1. /\ {"resumed", "yield"} \subseteq Busy /\ {"resumed", "yield"} \subseteq Bound
          /\ "ended" \notin Busy /\ "ended" \notin Bound /\ "enter" \notin Busy
          /\ "enter" \notin Bound /\ "routine" \notin Busy /\ "routine" \notin Bound
          /\ "routine" \notin Ending /\ "yield" \notin Ending
        BY DEF Busy, Bound, Ending
    <2> SUFFICES ASSUME NEW z \in Contexts
                 PROVE  /\ c_task[z] # nullptr <=> Live(z)' /\ c_pc'[z] \in Busy
                        /\ c_back[z] # nullptr <=> Live(z)' /\ c_pc'[z] \in Bound
                        /\ c_notified[z] # {} => Live(z)' /\ c_pc'[z] \in Ending
                        /\ Live(z)' /\ c_pc'[z] \in Busy \ {"start"} =>
                              IF c_pc'[z] = "back" THEN c_task[z] \in BackNodes
                                                   ELSE c_task[z] \in Tasks
        BY <1>3 DEF Locals, Live
    <2>2. CASE z = y  BY <1>1, <1>2, <2>1, <2>2
    <2>3. CASE z = x /\ x = w
        BY <1>1, <2>1, <2>3 DEF Tidy, Locals, Live
    <2>4. CASE z = x /\ x # w
        BY <1>1, <2>1, <2>4 DEF Tidy, Locals, Live
    <2>5. CASE z # x /\ z # y
        BY <1>1, <2>5 DEF Tidy, Locals, Live
    <2> QED  BY <2>2, <2>3, <2>4, <2>5
<1>5. Current'
    <2> SUFFICES ASSUME NEW v \in Workers, c_pc'[On(v)'] \in {"run", "edges", "yield", "resumed"}
                 PROVE  current_task[v] = c_task[On(v)']
        BY <1>3 DEF Current
    <2>1. v # w  BY <1>1
    <2> QED  BY <1>1, <2>1 DEF Tidy, Current
<1>6. c_pc' \in [Contexts -> Points] /\ c_status' \in [Contexts -> Statuses]
    BY DEF Leaves, Types, Points, Statuses
<1>7. /\ context_ptr' \in [Workers -> Contexts \cup {nullptr}]
      /\ context_pre_ptr' \in [Workers -> Contexts \cup {nullptr}]
    BY Disjoint DEF Leaves, Types
<1>8. m_pc # "done"  BY <1>1 DEF Main
<1>9. m_pc \notin {"join", "done"} => flags' = 0 /\ \A v \in Workers : c_pc'[v] # "joined"
    <2>1. \A v \in Workers : c_pc'[v] # "joined" \/ c_pc'[v] = c_pc[v]
        BY <1>1, Disjoint
    <2> QED  BY <2>1 DEF Main
<1> QED  BY <1>4, <1>5, <1>6, <1>7, <1>8, <1>9 DEF Main

\* A worker leaves its thread's own context for its first coroutine.
LEMMA RoutineInv ==
    ASSUME ContextInv, NEW w \in Workers, routine(w)
    PROVE  ContextInv'
<1> USE DEF ContextInv
<1>1. At(w, "routine")  BY DEF routine
<1>2. PICK y \in Coroutines : y = NewContext /\ c_status[y] = "none"  BY <1>1, FreeContext
<1>3. On(w) = w /\ w \in Contexts
    BY <1>1, Disjoint DEF Holders, OwnContext, Standing, On, At, Busy
<1>4. Leaves(w, w, y)
    BY <1>1, <1>2, <1>3, Disjoint DEF Leaves, routine, swap_new_context
<1>5. Holders'  BY <1>2, <1>3, <1>4, LeavesHolders
<1>6. UNCHANGED <<c_task, c_notified, c_nodes, c_back, current_task, nodeVars, schedVars>>
    BY DEF routine
<1>7. /\ Locals' /\ Current'
      /\ c_pc' \in [Contexts -> Points] /\ c_status' \in [Contexts -> Statuses]
      /\ context_ptr' \in [Workers -> Contexts \cup {nullptr}]
      /\ context_pre_ptr' \in [Workers -> Contexts \cup {nullptr}]
      /\ m_pc \notin {"join", "done"} =>
            flags' = 0 /\ \A v \in Workers : c_pc'[v] # "joined"
      /\ m_pc # "done" /\ flags' \in 0 .. 2 * Cardinality(Workers)
    BY <1>2, <1>3, <1>4, <1>6, LeavesLocals DEF schedVars
<1>8. /\ c_pc[w] = "routine" /\ c_status[w] = "none"
      /\ \A z \in Contexts : z # w /\ z # y => c_pc'[z] = c_pc[z] /\ c_status'[z] = c_status[z]
      /\ c_pc'[w] = "ended" /\ c_pc'[y] = "enter"
    BY <1>2, <1>3, <1>4, LeavesEffect
<1>9. c_task[y] = nullptr /\ c_task[w] = nullptr
    BY <1>2, <1>3, <1>8, Unheld DEF Tidy, Locals, Live
<1>10. Types'  BY <1>6, <1>7 DEF Types, nodeVars, schedVars
<1>11. Bonds'  BY <1>6 DEF Tidy, Bonds, nodeVars
<1>12. \A m : Placed(m)' <=> Placed(m)  BY <1>6 DEF Placed, schedVars
<1>13. States'
    <2>1. \A z \in Contexts : c_task[z] # nullptr => status[c_task[z]] = StateAt(c_pc'[z])
        BY <1>8, <1>9 DEF Tidy, States
    <2>2. \A z \in Contexts : Live(z)' /\ c_pc'[z] = "edges" => Live(z) /\ c_pc[z] = "edges"
        BY <1>8 DEF Live
    <2> QED  BY <1>6, <1>12, <2>1, <2>2 DEF Tidy, States, nodeVars, schedVars
<1>14. OnePlace'  BY <1>6 DEF Tidy, OnePlace, schedVars
<1>15. Main'  BY <1>6, <1>7 DEF Main, Alive, nodeVars, schedVars
<1> QED  BY <1>5, <1>7, <1>10, <1>11, <1>13, <1>14, <1>15 DEF Tidy

\* A task that waits gives its worker a new context.
LEMMA YieldTaskInv ==
    ASSUME ContextInv, NEW w \in Workers, YieldTask(w)
    PROVE  ContextInv'
<1> USE DEF ContextInv
<1>1. At(w, "yield") /\ c_pc[On(w)] \in Busy /\ c_pc[On(w)] \in Bound
    BY DEF YieldTask, At, Busy, Bound
<1>2. PICK y \in Coroutines : y = NewContext /\ c_status[y] = "none"  BY <1>1, FreeContext
<1>3. PICK x \in Contexts : x = On(w) /\ Live(x) /\ x # w /\ c_status[x] = "Running"
    BY <1>1, Stack, Disjoint DEF At
<1>a. c_pc[x] = "yield"  BY <1>1, <1>3 DEF At
<1>b. back_run_context_ptr[c_back[x]] = x  BY <1>1, <1>3, MyBack
<1>c. PICK n \in Nodes : n = c_task[x]  BY <1>1, <1>3, Mine
<1>4. Leaves(w, x, y)
    <2>1. c_status' = [c_status EXCEPT ![y] = "Initing"]  BY <1>2 DEF YieldTask
    <2>2. c_status' = [c_status EXCEPT ![x] = "Running", ![y] = "Initing"]
        BY <1>3, <2>1 DEF Types
    <2> QED  BY <1>1, <1>2, <1>3, <1>b, <2>2 DEF Leaves, YieldTask, swap_new_context
<1>5. Holders'  BY <1>2, <1>3, <1>4, LeavesHolders
<1>6. /\ status' = [status EXCEPT ![n] = "Yield"]
      /\ UNCHANGED <<c_task, c_notified, c_nodes, c_back, current_task, waits, back_task,
                     back_run_context_ptr, queue, flags, m_pc, made>>
    BY <1>3, <1>c DEF YieldTask
<1>7. /\ Locals' /\ Current'
      /\ c_pc' \in [Contexts -> Points] /\ c_status' \in [Contexts -> Statuses]
      /\ context_ptr' \in [Workers -> Contexts \cup {nullptr}]
      /\ context_pre_ptr' \in [Workers -> Contexts \cup {nullptr}]
      /\ m_pc \notin {"join", "done"} =>
            flags' = 0 /\ \A v \in Workers : c_pc'[v] # "joined"
      /\ m_pc # "done" /\ flags' \in 0 .. 2 * Cardinality(Workers)
    BY <1>2, <1>3, <1>4, <1>6, LeavesLocals
<1>8. /\ \A z \in Contexts : z # x /\ z # y => c_pc'[z] = c_pc[z] /\ c_status'[z] = c_status[z]
      /\ c_pc'[x] = "resumed" /\ c_pc'[y] = "enter" /\ x # y
    BY <1>2, <1>3, <1>4, LeavesEffect
<1>9. /\ status[n] = "Running" /\ waits[n] = {} /\ n \notin queue /\ n \in Tasks
      /\ n # nullptr
      /\ \A z \in Contexts : z # x => c_task[z] # n
      /\ \A z \in Contexts : n \notin c_notified[z]
    <2>1. StateAt("yield") = "Running"  BY DEF StateAt
    <2> QED  BY <1>1, <1>3, <1>a, <1>c, <2>1, Mine
<1>d. c_task[y] = nullptr  BY <1>2, Unheld
<1>e. status'[n] = "Yield" /\ \A m \in Nodes : m # n => status'[m] = status[m]
    BY <1>6 DEF Types
<1>10. Types'
    <2>1. status' \in [Nodes -> Statuses]  BY <1>6 DEF Types, Statuses
    <2> QED  BY <1>6, <1>7, <2>1 DEF Types
<1>11. Bonds'
    <2>1. \A b \in BackNodes : status'[b] = status[b]  BY <1>9, <1>e, Disjoint
    <2> QED  BY <1>6, <2>1 DEF Tidy, Bonds
<1>12. \A m : Placed(m)' <=> Placed(m)  BY <1>6 DEF Placed
<1>13. States'
    <2>1. \A z \in Contexts : c_task[z] # nullptr => status'[c_task[z]] = StateAt(c_pc'[z])
        <3>1. StateAt("resumed") = "Yield"  BY DEF StateAt
        <3> QED  BY <1>8, <1>9, <1>c, <1>d, <1>e, <3>1 DEF Tidy, States, Types
    <2>2. \A z \in Contexts : \A m \in c_notified[z] : status'[m] = "Initing"
        BY <1>9, <1>e DEF Tidy, States, Types
    <2>3. \A z \in Contexts : Live(z)' /\ c_pc'[z] = "edges" =>
             status'[c_back[z]] = "Initing" /\ waits[c_back[z]] = {} /\ ~Placed(c_back[z])
        <3> SUFFICES ASSUME NEW z \in Contexts, Live(z)', c_pc'[z] = "edges"
                     PROVE  status'[c_back[z]] = "Initing" /\ waits[c_back[z]] = {}
                            /\ ~Placed(c_back[z])
            OBVIOUS
        <3>1. z # x /\ c_pc[z] = "edges" /\ Live(z)  BY <1>8 DEF Live
        <3>2. c_back[z] \in BackNodes  BY <3>1, MyBack DEF Bound
        <3>3. c_back[z] # n /\ c_back[z] \in Nodes  BY <1>9, <3>2, Disjoint
        <3> QED  BY <1>e, <3>1, <3>3 DEF Tidy, States
    <2>4. \A m \in queue : status'[m] = "Initing"
        BY <1>9, <1>e DEF Tidy, States, Types
    <2>5. \A m \in Nodes : waits[m] # {} => status'[m] = "Initing"
        BY <1>9, <1>e DEF Tidy, States
    <2>6. \A m \in Tasks : status'[m] = "none" <=> m > made
        BY <1>9, <1>e, Disjoint DEF Tidy, States
    <2> QED  BY <1>6, <1>12, <2>1, <2>2, <2>3, <2>4, <2>5, <2>6 DEF Tidy, States
<1>14. OnePlace'  BY <1>6 DEF Tidy, OnePlace
<1>15. Main'
    <2>1. Alive(n)  BY <1>9 DEF Alive
    <2> QED  BY <1>6, <1>7, <2>1 DEF Main
<1> QED  BY <1>5, <1>7, <1>10, <1>11, <1>13, <1>14, <1>15 DEF Tidy

\* Places in code that has no task.
LEMMA Taskless ==
    /\ {"enter", "loop", "ended", "routine", "joined"} \cap (Busy \cup Bound) = {}
    /\ Bound \subseteq Busy
    /\ {"start", "run", "edges", "yield", "back", "resumed", "notify", "recover"} \subseteq Busy
    /\ {"run", "back", "start", "notify", "recover"} \cap Bound = {}
    /\ {"enter", "loop", "ended", "routine", "joined", "start", "run", "back"} \cap Ending = {}
    /\ Ending \cap Bound = {}
BY DEF Busy, Bound, Ending

\* Only now is the context that was left marked as one others may enter.
LEMMA ChangeContextStatusInv ==
    ASSUME ContextInv, NEW w \in Workers, change_context_status(w)
    PROVE  ContextInv'
<1> USE DEF ContextInv
<1>1. c_pc[On(w)] = "enter" /\ At(w, "enter")  BY DEF change_context_status, Go, At
<1>2. PICK y \in Coroutines : y = On(w) /\ y = context_ptr[w] /\ y # w /\ y \in Contexts
                              /\ c_status[y] = "Initing" /\ Live(y)
    BY <1>1, Stack
<1>3. PICK p \in Contexts : p = context_pre_ptr[w] /\ p # nullptr
    BY <1>1, Stack DEF Types
<1>4. /\ p # y /\ Live(p)
      /\ p \in Coroutines => c_pc[p] = "resumed"
      /\ p \in Workers => p = w
      /\ c_pc[w] = "ended" /\ (p # w => c_status[w] = "Yield")
    <2>1. p # y  BY <1>2, <1>3 DEF Holders, OneHolder
    <2>2. p \in Coroutines => c_pc[p] = "resumed" /\ c_status[p] = "Running"
        BY <1>1, <1>2, <1>3 DEF Holders, Behind
    <2>3. p \in Workers => p = w  BY <1>3 DEF Holders, Behind
    <2>4. c_pc[w] = "ended" /\ c_status[w] = IF p = w THEN "Ready" ELSE "Yield"
        BY <1>2, <1>3, Disjoint DEF Holders, OwnContext
    <2> QED  BY <2>1, <2>2, <2>3, <2>4, Disjoint DEF Live
<1>5. /\ c_pc' = [c_pc EXCEPT ![y] = "loop"]
      /\ c_status' = [c_status EXCEPT ![y] = "Running", ![p] = "Yield"]
      /\ context_pre_ptr' = [context_pre_ptr EXCEPT ![w] = nullptr]
      /\ UNCHANGED <<c_task, c_notified, c_nodes, c_back, context_ptr, stack_pool, current_task,
                     mapped, nodeVars, schedVars>>
    BY <1>2, <1>3 DEF change_context_status, Go
<1>6. /\ c_pc'[y] = "loop" /\ \A z \in Contexts : z # y => c_pc'[z] = c_pc[z]
      /\ c_status'[y] = "Running" /\ c_status'[p] = "Yield"
      /\ \A z \in Contexts : z # y /\ z # p => c_status'[z] = c_status[z]
      /\ context_pre_ptr'[w] = nullptr
      /\ \A v \in Workers : v # w => context_pre_ptr'[v] = context_pre_ptr[v]
      /\ \A v \in Workers : On(v)' = On(v) /\ c_pc'[v] = c_pc[v]
    BY <1>2, <1>4, <1>5, OnKept, Disjoint DEF Types
<1>c. c_task' = c_task /\ c_back' = c_back /\ context_ptr' = context_ptr  BY <1>5
<1>7. \A v \in Workers : v # w =>
          /\ On(v) # y /\ context_ptr[v] # y /\ context_ptr[v] # p
          /\ context_pre_ptr[v] # p /\ context_pre_ptr[v] # y
          /\ v # y /\ v # p /\ On(v) \in Contexts /\ On(v) # p
    <2> SUFFICES ASSUME NEW v \in Workers, v # w
                 PROVE  /\ On(v) # y /\ context_ptr[v] # y /\ context_ptr[v] # p
                        /\ context_pre_ptr[v] # p /\ context_pre_ptr[v] # y
                        /\ v # y /\ v # p /\ On(v) \in Contexts /\ On(v) # p
        OBVIOUS
    <2>1. On(v) # y /\ context_ptr[v] # y  BY <1>2, Disjoint DEF Holders, OneHolder, On
    <2>2. context_ptr[v] # p /\ context_pre_ptr[v] # p  BY <1>3 DEF Holders, OneHolder
    <2>3. context_pre_ptr[v] # y  BY <1>2, Disjoint DEF Holders, OneHolder
    <2>4. v # y /\ v # p  BY <1>2, <1>4, Disjoint
    <2> QED  BY <2>1, <2>2, <2>3, <2>4, Disjoint DEF On, Holders, OwnContext
<1>8. Holders'
    <2>1. OwnContext'
        <3> SUFFICES ASSUME NEW v \in Workers
                     PROVE  \/ /\ context_ptr[v] = nullptr /\ context_pre_ptr'[v] = nullptr
                               /\ c_pc[v] \in {"routine", "joined"} /\ c_status'[v] = "none"
                            \/ /\ context_ptr[v] = v /\ context_pre_ptr'[v] \in Coroutines
                               /\ c_pc[v] = "ended" /\ c_status'[v] = "Yield"
                            \/ /\ context_ptr[v] \in Coroutines
                               /\ c_pc[v] = "ended"
                               /\ c_status'[v] = IF context_pre_ptr'[v] = v THEN "Ready" ELSE "Yield"
            BY ZenonT(60), <1>5, <1>6 DEF OwnContext
        <3>1. CASE v = w  BY <1>2, <1>4, <1>6, <3>1, Disjoint
        <3>2. CASE v # w  BY <1>6, <1>7, <3>2, Disjoint DEF Holders, OwnContext
        <3> QED  BY <3>1, <3>2
    <2>2. Standing'
        <3> SUFFICES ASSUME NEW v \in Workers, context_ptr[v] \in Coroutines
                     PROVE  /\ c_pc'[context_ptr[v]] \in Busy \cup {"enter", "loop"}
                            /\ c_status'[context_ptr[v]] = IF At(v, "enter")' THEN "Initing" ELSE "Running"
            BY <1>5 DEF Standing
        <3>1. CASE v = w  BY <1>2, <1>6, <3>1 DEF At
        <3>2. CASE v # w
            <4>1. PICK z \in Contexts : z = On(v)  BY <1>7, <3>2
            <4>2. z = context_ptr[v] /\ z # y /\ z # p  BY <1>7, <3>2, <4>1, Disjoint DEF On
            <4>3. c_pc'[z] = c_pc[z] /\ c_status'[z] = c_status[z]  BY <1>6, <4>2
            <4>4. At(v, "enter")' <=> At(v, "enter")  BY <1>6, <4>1, <4>3 DEF At
            <4> QED  BY <4>2, <4>3, <4>4 DEF Holders, Standing
        <3> QED  BY <3>1, <3>2
    <2>3. Behind'
        <3> SUFFICES ASSUME NEW v \in Workers, NEW q, q = context_pre_ptr'[v]
                     PROVE  /\ q # nullptr <=> c_pc'[On(v)] \in {"enter", "resumed"} \/ context_ptr[v] = v
                            /\ q \in Coroutines =>
                                  /\ c_status'[q] = "Running"
                                  /\ c_pc'[q] = CASE context_ptr[v] = v -> "loop"
                                                  [] At(v, "enter")' -> "resumed"
                                                  [] OTHER -> "back"
                                  /\ At(v, "resumed")' => c_task[q] = c_back[On(v)]
                            /\ q \in Workers => q = v /\ At(v, "enter")'
            BY <1>6, <1>c DEF Behind
        <3>1. CASE v = w  BY <1>2, <1>6, <3>1, Disjoint
        <3>2. CASE v # w
            <4>1. PICK z \in Contexts : z = On(v)  BY <1>7, <3>2
            <4>2. z # y /\ q = context_pre_ptr[v] /\ q # p /\ q # y
                BY <1>6, <1>7, <3>2, <4>1
            <4>3. c_pc'[z] = c_pc[z]  BY <1>6, <4>2
            <4>4. q \in Coroutines => c_pc'[q] = c_pc[q] /\ c_status'[q] = c_status[q]
                BY <1>6, <4>2, Disjoint
            <4>5. (At(v, "enter")' <=> At(v, "enter")) /\ (At(v, "resumed")' <=> At(v, "resumed"))
                BY <1>6, <4>1, <4>3 DEF At
            <4> QED  BY <4>1, <4>2, <4>3, <4>4, <4>5 DEF Holders, Behind
        <3> QED  BY <3>1, <3>2
    <2>4. OneHolder'  BY <1>5, <1>6 DEF Holders, OneHolder
    <2>5. Suspended'
        <3> SUFFICES ASSUME NEW z \in Coroutines
                     PROVE  /\ c_status'[z] = "Yield" => c_pc'[z] = "resumed"
                            /\ \/ c_status'[z] \in {"none", "Yield"}
                               \/ \E v \in Workers : context_ptr[v] = z \/ context_pre_ptr'[v] = z
            BY <1>5 DEF Suspended
        <3>1. CASE z = y  BY <1>2, <1>6, <3>1
        <3>2. CASE z = p  BY <1>4, <1>6, <3>2
        <3>3. CASE z # y /\ z # p
            <4>1. c_pc'[z] = c_pc[z] /\ c_status'[z] = c_status[z]  BY <1>6, <3>3, Disjoint
            <4>2. \A v \in Workers : context_pre_ptr[v] = z => context_pre_ptr'[v] = z
                BY <1>3, <1>6, <3>3
            <4> QED  BY <4>1, <4>2 DEF Holders, Suspended
        <3> QED  BY <3>1, <3>2, <3>3
    <2> QED  BY <2>1, <2>2, <2>3, <2>4, <2>5 DEF Holders
<1>9. Types'
    <2>1. c_pc' \in [Contexts -> Points]  BY <1>5 DEF Types, Points
    <2>2. c_status' \in [Contexts -> Statuses]  BY <1>5 DEF Types, Statuses
    <2>3. context_pre_ptr' \in [Workers -> Contexts \cup {nullptr}]  BY <1>5 DEF Types
    <2> QED  BY <1>5, <2>1, <2>2, <2>3 DEF Types, nodeVars, schedVars
<1>a. \A z \in Contexts : Live(z)' <=> Live(z)  BY <1>2, <1>4, <1>6 DEF Live
<1>b. c_task[y] = nullptr /\ c_back[y] = nullptr /\ c_notified[y] = {}
    BY <1>1, <1>2, Taskless DEF Tidy, Locals
<1>10. Locals'
    <2>1. \A z \in Contexts : /\ c_pc'[z] \in Busy <=> c_pc[z] \in Busy
                              /\ c_pc'[z] \in Bound <=> c_pc[z] \in Bound
                              /\ c_pc[z] \in Busy => c_pc'[z] = c_pc[z]
        BY <1>1, <1>2, <1>6, Taskless
    <2>2. \A z \in Contexts : c_pc[z] \in Ending => c_pc'[z] \in Ending
        BY <1>1, <1>2, <1>6, Taskless
    <2> QED  BY <1>5, <1>a, <2>1, <2>2 DEF Tidy, Locals
<1>11. Bonds'  BY <1>5 DEF Tidy, Bonds, nodeVars
<1>12. \A m : Placed(m)' <=> Placed(m)  BY <1>5 DEF Placed, schedVars
<1>13. States'
    <2>1. \A z \in Contexts : c_task[z] # nullptr => status[c_task[z]] = StateAt(c_pc'[z])
        BY <1>6, <1>b DEF Tidy, States
    <2>2. \A z \in Contexts : Live(z)' /\ c_pc'[z] = "edges" => Live(z) /\ c_pc[z] = "edges"
        BY <1>6, <1>a
    <2> QED  BY <1>5, <1>12, <2>1, <2>2 DEF Tidy, States, nodeVars, schedVars
<1>14. OnePlace'  BY <1>5 DEF Tidy, OnePlace, schedVars
<1>15. Current'
    <2>1. \A v \in Workers : c_pc'[On(v)] \in {"run", "edges", "yield", "resumed"} =>
             c_pc'[On(v)] = c_pc[On(v)]
        BY <1>2, <1>6, <1>7
    <2> QED  BY <1>5, <1>6, <2>1 DEF Tidy, Current
<1>16. Main'  BY <1>5, <1>6 DEF Main, Alive, nodeVars, schedVars
<1> QED  BY <1>8, <1>9, <1>10, <1>11, <1>13, <1>14, <1>15, <1>16 DEF Tidy

\* The end signal brings a worker back to its thread's own context.
LEMMA EndSignalInv ==
    ASSUME ContextInv, NEW w \in Workers, EndSignal(w)
    PROVE  ContextInv'
<1> USE DEF ContextInv
<1>1. c_pc[On(w)] = "loop" /\ At(w, "loop") /\ flags > 0  BY DEF EndSignal, At
<1>2. PICK x \in Coroutines : x = On(w) /\ x = context_ptr[w] /\ x # w /\ x \in Contexts
                              /\ c_status[x] = "Running" /\ x # nullptr
    BY <1>1, Stack, Disjoint DEF At
<1>3. c_pc[w] = "ended" /\ c_status[w] = "Yield" /\ context_pre_ptr[w] = nullptr
    <2>1. context_pre_ptr[w] = nullptr  BY <1>1, Stack DEF At
    <2>2. c_pc[w] = "ended" /\ c_status[w] = IF context_pre_ptr[w] = w THEN "Ready" ELSE "Yield"
        BY <1>2, Disjoint DEF Holders, OwnContext
    <2> QED  BY <2>1, <2>2, Disjoint
<1>4. /\ flags' = flags - 1
      /\ context_ptr' = [context_ptr EXCEPT ![w] = w]
      /\ context_pre_ptr' = [context_pre_ptr EXCEPT ![w] = x]
      /\ UNCHANGED <<ctxVars, stack_pool, current_task, mapped, nodeVars, queue,
                     idle_worker_num, m_pc, made>>
    BY <1>2 DEF EndSignal, set_context
<1>5. /\ context_ptr'[w] = w /\ context_pre_ptr'[w] = x
      /\ \A v \in Workers : v # w => /\ context_pre_ptr'[v] = context_pre_ptr[v]
                                     /\ context_ptr'[v] = context_ptr[v]
      /\ On(w)' = w /\ \A v \in Workers : v # w => On(v)' = On(v)
    <2>1. /\ context_ptr'[w] = w /\ context_pre_ptr'[w] = x
          /\ \A v \in Workers : v # w => /\ context_pre_ptr'[v] = context_pre_ptr[v]
                                         /\ context_ptr'[v] = context_ptr[v]
        BY <1>4 DEF Types
    <2> QED  BY <2>1 DEF On
<1>6. \A v \in Workers : v # w =>
          /\ On(v) # x /\ context_ptr[v] # x /\ context_pre_ptr[v] # x
          /\ On(v) # w /\ context_ptr[v] # w /\ context_pre_ptr[v] # w
    <2> SUFFICES ASSUME NEW v \in Workers, v # w
                 PROVE  /\ On(v) # x /\ context_ptr[v] # x /\ context_pre_ptr[v] # x
                        /\ On(v) # w /\ context_ptr[v] # w /\ context_pre_ptr[v] # w
        OBVIOUS
    <2>1. On(v) # x /\ context_ptr[v] # x  BY <1>2, Disjoint DEF Holders, OneHolder, On
    <2>2. context_pre_ptr[v] # x  BY <1>2, Disjoint DEF Holders, OneHolder
    <2>3. context_pre_ptr[v] # w  BY DEF Holders, Behind
    <2>4. context_ptr[v] # w /\ On(v) # w  BY Disjoint DEF Holders, OwnContext, On
    <2> QED  BY <2>1, <2>2, <2>3, <2>4
<1>7. c_pc' = c_pc /\ c_status' = c_status /\ c_task' = c_task /\ c_back' = c_back /\ c_notified' = c_notified
    BY <1>4 DEF ctxVars
<1>8. Holders'
    <2>1. OwnContext'
        <3>1. \A v \in Workers : v # w => v # x  BY <1>2, Disjoint
        <3> QED  BY <1>3, <1>5, <1>7 DEF Holders, OwnContext
    <2>2. Standing'
        <3> SUFFICES ASSUME NEW v \in Workers, context_ptr'[v] \in Coroutines
                     PROVE  /\ c_pc[context_ptr'[v]] \in Busy \cup {"enter", "loop"}
                            /\ c_status[context_ptr'[v]] = IF At(v, "enter")' THEN "Initing" ELSE "Running"
            BY <1>7 DEF Standing
        <3>1. v # w  BY <1>5, Disjoint
        <3> QED  BY <1>5, <1>7, <3>1 DEF Holders, Standing, At
    <2>3. Behind'
        <3> SUFFICES ASSUME NEW v \in Workers, NEW q, q = context_pre_ptr'[v]
                     PROVE  /\ q # nullptr <=> c_pc[On(v)'] \in {"enter", "resumed"} \/ context_ptr'[v] = v
                            /\ q \in Coroutines =>
                                  /\ c_status[q] = "Running"
                                  /\ c_pc[q] = CASE context_ptr'[v] = v -> "loop"
                                                  [] At(v, "enter")' -> "resumed"
                                                  [] OTHER -> "back"
                                  /\ At(v, "resumed")' => c_task[q] = c_back[On(v)']
                            /\ q \in Workers => q = v /\ At(v, "enter")'
            BY <1>7 DEF Behind
        <3>1. CASE v = w
            <4>1. ~At(v, "resumed")' /\ ~At(v, "enter")'  BY <1>3, <1>5, <1>7, <3>1 DEF At
            <4>2. c_pc[x] = "loop"  BY <1>1, <1>2
            <4>3. q = x /\ q \in Coroutines /\ q \notin Workers /\ q # nullptr
                BY <1>2, <1>5, <3>1, Disjoint
            <4>4. context_ptr'[v] = v  BY <1>5, <3>1
            <4> QED  BY <1>2, <4>1, <4>2, <4>3, <4>4
        <3>2. CASE v # w
            <4>1. (At(v, "enter")' <=> At(v, "enter")) /\ (At(v, "resumed")' <=> At(v, "resumed"))
                BY <1>5, <1>7, <3>2 DEF At
            <4> QED  BY <1>5, <3>2, <4>1 DEF Holders, Behind
        <3> QED  BY <3>1, <3>2
    <2>4. OneHolder'
        <3>1. \A u, v \in Workers : u # v => On(u)' # On(v)'
            BY <1>5, <1>6 DEF Holders, OneHolder
        <3>2. \A u, v \in Workers : context_pre_ptr'[u] # nullptr =>
                 /\ context_pre_ptr'[u] # context_ptr'[v]
                 /\ u # v => context_pre_ptr'[u] # context_pre_ptr'[v]
            BY <1>2, <1>5, <1>6 DEF Holders, OneHolder
        <3> QED  BY <3>1, <3>2 DEF OneHolder
    <2>5. Suspended'
        <3>1. \A z, v : v \in Workers /\ (context_ptr[v] = z \/ context_pre_ptr[v] = z) /\ z # nullptr =>
                 context_ptr'[v] = z \/ context_pre_ptr'[v] = z
            BY <1>2, <1>3, <1>5
        <3> QED  BY <1>7, <3>1, Disjoint DEF Holders, Suspended
    <2> QED  BY <2>1, <2>2, <2>3, <2>4, <2>5 DEF Holders
<1>9. Types'
    <2>1. context_ptr' \in [Workers -> Contexts \cup {nullptr}]
        BY <1>4, Disjoint DEF Types
    <2>2. context_pre_ptr' \in [Workers -> Contexts \cup {nullptr}]
        BY <1>2, <1>4 DEF Types
    <2> QED  BY <1>4, <2>1, <2>2 DEF Types, nodeVars, ctxVars
<1>10. Locals'  BY <1>7 DEF Tidy, Locals, Live
<1>11. Bonds'  BY <1>4, <1>7 DEF Tidy, Bonds, nodeVars
<1>12. \A m : Placed(m)' <=> Placed(m)  BY <1>4, <1>7 DEF Placed
<1>13. States'  BY <1>4, <1>7, <1>12 DEF Tidy, States, nodeVars, Live
<1>14. OnePlace'  BY <1>4, <1>7 DEF Tidy, OnePlace
<1>15. Current'
    <2> SUFFICES ASSUME NEW v \in Workers, c_pc[On(v)'] \in {"run", "edges", "yield", "resumed"}
                 PROVE  current_task[v] = c_task[On(v)']
        BY <1>4, <1>7 DEF Current
    <2>1. v # w  BY <1>3, <1>5
    <2> QED  BY <1>5, <2>1 DEF Tidy, Current
<1>16. Main'
    <2>1. Cardinality(Workers) \in Nat  BY CoroutineAssumption, FS_CardinalityType
    <2>2. flags \in 0 .. 2 * Cardinality(Workers) /\ m_pc \in {"join", "done"}
        BY <1>1 DEF Main, Types
    <2>3. flags' \in 0 .. 2 * Cardinality(Workers)  BY <1>1, <1>4, <2>1, <2>2
    <2> QED  BY <1>4, <1>7, <2>2, <2>3 DEF Main, Alive, nodeVars
<1> QED  BY <1>8, <1>9, <1>10, <1>11, <1>13, <1>14, <1>15, <1>16 DEF Tidy

\* A back node has its worker leave the context it stands on for the one
\* of the task.
LEMMA SwitchBackInv ==
    ASSUME ContextInv, NEW w \in Workers, SwitchBack(w)
    PROVE  ContextInv'
<1> USE DEF ContextInv
<1>1. c_pc[On(w)] = "back" /\ At(w, "back") /\ "back" \in Busy  BY DEF SwitchBack, At, Busy
<1>2. PICK o \in Coroutines : o = On(w) /\ o = context_ptr[w] /\ o # w /\ o \in Contexts
                              /\ c_status[o] = "Running" /\ o # nullptr
    BY <1>1, Stack, Disjoint DEF At
<1>3. PICK b \in BackNodes : b = c_task[o] /\ status[b] = "Recoverable"
    <2>1. StateAt("back") = "Recoverable"  BY DEF StateAt
    <2> QED  BY <1>1, <1>2, <2>1, Mine
<1>4. PICK x \in Coroutines : /\ x = back_run_context_ptr[b] /\ c_back[x] = b
                              /\ back_task[b] = c_task[x]
    BY <1>3 DEF Tidy, Bonds
<1>5. /\ c_status[x] = "Yield" /\ c_pc[x] = "resumed" /\ x # o /\ x \in Contexts /\ x # nullptr
      /\ \A v \in Workers : context_ptr[v] # x /\ context_pre_ptr[v] # x /\ On(v) # x
    <2>1. c_status[x] = "Yield"  BY <1>2, <1>3, <1>4 DEF SwitchBack, CanEnter
    <2>2. c_pc[x] = "resumed"  BY <2>1 DEF Holders, Suspended
    <2>3. \A v \in Workers : context_ptr[v] # x  BY <2>1 DEF Holders, Standing
    <2>4. \A v \in Workers : context_pre_ptr[v] # x  BY <2>1 DEF Holders, Behind
    <2> QED  BY <1>2, <2>1, <2>2, <2>3, <2>4, Disjoint DEF On
<1>6. c_pc[w] = "ended" /\ c_status[w] = "Yield" /\ context_pre_ptr[w] = nullptr
    <2>1. context_pre_ptr[w] = nullptr  BY <1>1, Stack DEF At
    <2>2. c_pc[w] = "ended" /\ c_status[w] = IF context_pre_ptr[w] = w THEN "Ready" ELSE "Yield"
        BY <1>2, Disjoint DEF Holders, OwnContext
    <2> QED  BY <2>1, <2>2, Disjoint
<1>7. /\ c_status' = [c_status EXCEPT ![x] = "Running"]
      /\ current_task' = [current_task EXCEPT ![w] = back_task[b]]
      /\ context_ptr' = [context_ptr EXCEPT ![w] = x]
      /\ context_pre_ptr' = [context_pre_ptr EXCEPT ![w] = o]
      /\ UNCHANGED <<c_pc, c_task, c_notified, c_nodes, c_back, stack_pool, mapped, nodeVars,
                     schedVars>>
    BY <1>2, <1>3, <1>4 DEF SwitchBack, set_context, set_current_task
<1>8. /\ context_ptr'[w] = x /\ context_pre_ptr'[w] = o
      /\ \A v \in Workers : v # w => /\ context_pre_ptr'[v] = context_pre_ptr[v]
                                     /\ context_ptr'[v] = context_ptr[v]
      /\ On(w)' = x /\ \A v \in Workers : v # w => On(v)' = On(v)
      /\ c_status'[x] = "Running" /\ \A z \in Contexts : z # x => c_status'[z] = c_status[z]
    <2>1. /\ context_ptr'[w] = x /\ context_pre_ptr'[w] = o
          /\ \A v \in Workers : v # w => /\ context_pre_ptr'[v] = context_pre_ptr[v]
                                         /\ context_ptr'[v] = context_ptr[v]
        BY <1>7 DEF Types
    <2>2. c_status'[x] = "Running" /\ \A z \in Contexts : z # x => c_status'[z] = c_status[z]
        BY <1>5, <1>7 DEF Types
    <2> QED  BY <1>5, <2>1, <2>2 DEF On
<1>9. \A v \in Workers : v # w =>
          /\ On(v) # o /\ context_ptr[v] # o /\ context_pre_ptr[v] # o /\ v # x
          /\ On(v) \in Contexts
    <2> SUFFICES ASSUME NEW v \in Workers, v # w
                 PROVE  /\ On(v) # o /\ context_ptr[v] # o /\ context_pre_ptr[v] # o /\ v # x
                        /\ On(v) \in Contexts
        OBVIOUS
    <2>1. On(v) # o /\ context_ptr[v] # o  BY <1>2, Disjoint DEF Holders, OneHolder, On
    <2>2. context_pre_ptr[v] # o  BY <1>2, Disjoint DEF Holders, OneHolder
    <2> QED  BY <2>1, <2>2, Disjoint DEF On, Holders, OwnContext
<1>a. c_pc' = c_pc /\ c_task' = c_task /\ c_back' = c_back /\ c_notified' = c_notified  BY <1>7
<1>10. Holders'
    <2>1. OwnContext'
        <3>1. \A v \in Workers : c_status'[v] = c_status[v]  BY <1>8, Disjoint
        <3>2. o # w /\ o \notin Workers  BY <1>2, Disjoint
        <3> QED  BY <1>6, <1>8, <1>a, <3>1, <3>2 DEF Holders, OwnContext
    <2>2. Standing'
        <3> SUFFICES ASSUME NEW v \in Workers, context_ptr'[v] \in Coroutines
                     PROVE  /\ c_pc[context_ptr'[v]] \in Busy \cup {"enter", "loop"}
                            /\ c_status'[context_ptr'[v]] = IF At(v, "enter")' THEN "Initing" ELSE "Running"
            BY <1>a DEF Standing
        <3>1. CASE v = w
            <4>1. ~At(v, "enter")'  BY <1>5, <1>8, <1>a, <3>1 DEF At
            <4> QED  BY <1>5, <1>8, <3>1, <4>1 DEF Busy
        <3>2. CASE v # w
            <4>1. c_status'[context_ptr[v]] = c_status[context_ptr[v]]
                BY <1>5, <1>8, <3>2, Disjoint
            <4>2. At(v, "enter")' <=> At(v, "enter")  BY <1>8, <1>a, <3>2 DEF At
            <4> QED  BY <1>8, <3>2, <4>1, <4>2 DEF Holders, Standing
        <3> QED  BY <3>1, <3>2
    <2>3. Behind'
        <3> SUFFICES ASSUME NEW v \in Workers, NEW q, q = context_pre_ptr'[v]
                     PROVE  /\ q # nullptr <=> c_pc[On(v)'] \in {"enter", "resumed"} \/ context_ptr'[v] = v
                            /\ q \in Coroutines =>
                                  /\ c_status'[q] = "Running"
                                  /\ c_pc[q] = CASE context_ptr'[v] = v -> "loop"
                                                  [] At(v, "enter")' -> "resumed"
                                                  [] OTHER -> "back"
                                  /\ At(v, "resumed")' => c_task[q] = c_back[On(v)']
                            /\ q \in Workers => q = v /\ At(v, "enter")'
            BY <1>a DEF Behind
        <3>1. CASE v = w
            <4>1. ~At(v, "enter")'  BY <1>5, <1>8, <1>a, <3>1 DEF At
            <4>2. q = o /\ o \notin Workers /\ o # nullptr /\ c_status'[o] = "Running"
                  /\ c_pc[o] = "back" /\ c_task[o] = b
                BY <1>1, <1>2, <1>3, <1>5, <1>8, <3>1, Disjoint
            <4>3. context_ptr'[v] # v /\ c_pc[On(v)'] = "resumed" /\ c_back[On(v)'] = b
                BY <1>4, <1>5, <1>8, <3>1, Disjoint
            <4> QED  BY <4>1, <4>2, <4>3
        <3>2. CASE v # w
            <4>1. (At(v, "enter")' <=> At(v, "enter")) /\ (At(v, "resumed")' <=> At(v, "resumed"))
                BY <1>8, <1>a, <3>2 DEF At
            <4>2. q = context_pre_ptr[v] /\ (q \in Coroutines => c_status'[q] = c_status[q])
                BY <1>5, <1>8, <3>2, Disjoint
            <4> QED  BY <1>8, <3>2, <4>1, <4>2 DEF Holders, Behind
        <3> QED  BY <3>1, <3>2
    <2>4. OneHolder'
        <3>1. \A u, v \in Workers : u # v => On(u)' # On(v)'
            BY <1>5, <1>8 DEF Holders, OneHolder
        <3>2. \A u, v \in Workers : context_pre_ptr'[u] # nullptr =>
                 /\ context_pre_ptr'[u] # context_ptr'[v]
                 /\ u # v => context_pre_ptr'[u] # context_pre_ptr'[v]
            BY <1>5, <1>8, <1>9 DEF Holders, OneHolder
        <3> QED  BY <3>1, <3>2 DEF OneHolder
    <2>5. Suspended'
        <3>1. \A z, v : v \in Workers /\ (context_ptr[v] = z \/ context_pre_ptr[v] = z) /\ z # nullptr =>
                 context_ptr'[v] = z \/ context_pre_ptr'[v] = z
            BY <1>2, <1>6, <1>8
        <3>2. \A z \in Coroutines : z # x => c_status'[z] = c_status[z]  BY <1>8, Disjoint
        <3> QED  BY <1>8, <1>a, <3>1, <3>2, Disjoint DEF Holders, Suspended
    <2> QED  BY <2>1, <2>2, <2>3, <2>4, <2>5 DEF Holders
<1>11. Types'
    <2>1. /\ context_ptr' \in [Workers -> Contexts \cup {nullptr}]
          /\ context_pre_ptr' \in [Workers -> Contexts \cup {nullptr}]
        BY <1>2, <1>5, <1>7 DEF Types
    <2>2. c_status' \in [Contexts -> Statuses]  BY <1>7 DEF Types, Statuses
    <2>3. back_task[b] \in Nodes \cup {nullptr}  BY Disjoint DEF Types
    <2>4. current_task' \in [Workers -> Nodes \cup {nullptr}]  BY <1>7, <2>3 DEF Types
    <2> QED  BY <1>7, <2>1, <2>2, <2>4 DEF Types, nodeVars, schedVars
<1>b. \A z \in Contexts : Live(z)' <=> Live(z)  BY <1>5, <1>8 DEF Live
<1>12. Locals'  BY <1>a, <1>b DEF Tidy, Locals
<1>13. Bonds'  BY <1>7, <1>a DEF Tidy, Bonds, nodeVars
<1>14. \A m : Placed(m)' <=> Placed(m)  BY <1>7, <1>a DEF Placed, schedVars
<1>15. States'  BY <1>7, <1>a, <1>b, <1>14 DEF Tidy, States, nodeVars, schedVars
<1>16. OnePlace'  BY <1>7, <1>a DEF Tidy, OnePlace, schedVars
<1>17. Current'
    <2> SUFFICES ASSUME NEW v \in Workers, c_pc[On(v)'] \in {"run", "edges", "yield", "resumed"}
                 PROVE  current_task'[v] = c_task[On(v)']
        BY <1>a DEF Current
    <2>1. CASE v = w  BY <1>4, <1>7, <1>8, <2>1 DEF Types
    <2>2. CASE v # w
        <3>1. current_task'[v] = current_task[v]  BY <1>7, <2>2 DEF Types
        <3> QED  BY <1>8, <2>2, <3>1 DEF Tidy, Current
    <2> QED  BY <2>1, <2>2
<1>18. Main'  BY <1>7, <1>a DEF Main, Alive, nodeVars, schedVars
<1> QED  BY <1>10, <1>11, <1>12, <1>13, <1>15, <1>16, <1>17, <1>18 DEF Tidy

\* The task goes on; the context its worker came from and the back node are
\* deleted, and nobody else has either.
LEMMA ResumedInv ==
    ASSUME ContextInv, NEW w \in Workers, Resumed(w)
    PROVE  ContextInv'
<1> USE DEF ContextInv
<1>1. c_pc[On(w)] = "resumed" /\ At(w, "resumed") /\ "resumed" \in Busy /\ "resumed" \in Bound
    BY DEF Resumed, Go, At, Busy, Bound
<1>2. PICK x \in Coroutines : x = On(w) /\ x = context_ptr[w] /\ x # w /\ x \in Contexts
                              /\ c_status[x] = "Running" /\ x # nullptr /\ Live(x)
    BY <1>1, Stack, Disjoint DEF At
<1>3. PICK b \in BackNodes : /\ b = c_back[x] /\ back_run_context_ptr[b] = x
                             /\ status[b] \in {"Initing", "Recoverable"}
    BY <1>1, <1>2, MyBack
<1>4. PICK n \in Tasks : n = c_task[x]  BY <1>1, <1>2, Mine
<1>5. PICK y \in Coroutines : /\ y = context_pre_ptr[w] /\ y \in Contexts /\ y # nullptr
                              /\ c_status[y] = "Running" /\ c_pc[y] = "back" /\ c_task[y] = b
    <2>1. context_pre_ptr[w] # nullptr  BY <1>1, Stack
    <2>2. context_pre_ptr[w] \notin Workers  BY <1>1 DEF Holders, Behind, At
    <2>3. context_pre_ptr[w] \in Coroutines  BY <2>1, <2>2, Disjoint DEF Types
    <2>4. ~At(w, "enter") /\ context_ptr[w] # w  BY <1>1, <1>2 DEF At
    <2> QED  BY <1>1, <1>2, <1>3, <2>3, <2>4, Disjoint DEF Holders, Behind
<1>6. /\ x # y
      /\ \A v \in Workers : v # w =>
             /\ On(v) # x /\ On(v) # y /\ context_ptr[v] # x /\ context_ptr[v] # y
             /\ context_pre_ptr[v] # x /\ context_pre_ptr[v] # y
             /\ v # x /\ v # y /\ On(v) \in Contexts
      /\ c_pc[w] = "ended" /\ c_status[w] = "Yield"
    <2>1. x # y  BY <1>1, <1>2, <1>5
    <2>2. \A v \in Workers : v # w => On(v) # x /\ context_ptr[v] # x
        BY <1>2, Disjoint DEF Holders, OneHolder, On
    <2>3. \A v \in Workers : context_ptr[v] # y /\ (v # w => context_pre_ptr[v] # y)
        BY <1>5 DEF Holders, OneHolder
    <2>4. \A v \in Workers : context_pre_ptr[v] # x  BY <1>2 DEF Holders, OneHolder
    <2>5. \A v \in Workers : v # x /\ v # y  BY Disjoint
    <2>6. \A v \in Workers : On(v) # y /\ On(v) \in Contexts
        BY <2>3, <2>5, Disjoint DEF On, Holders, OwnContext
    <2>7. c_pc[w] = "ended" /\ c_status[w] = "Yield"
        BY <1>2, <1>5, <2>5, Disjoint DEF Holders, OwnContext
    <2> QED  BY <2>1, <2>2, <2>3, <2>4, <2>5, <2>6, <2>7
<1>7. /\ c_pc' = [c_pc EXCEPT ![x] = "run"]
      /\ c_status' = [c_status EXCEPT ![y] = "none"]
      /\ c_task' = [c_task EXCEPT ![y] = nullptr]
      /\ context_pre_ptr' = [context_pre_ptr EXCEPT ![w] = nullptr]
      /\ back_run_context_ptr' = [back_run_context_ptr EXCEPT ![b] = nullptr]
      /\ status' = [status EXCEPT ![n] = "Running", ![b] = "Destroy"]
      /\ c_back' = [c_back EXCEPT ![x] = nullptr]
      /\ c_nodes' = [c_nodes EXCEPT ![x] = {}]
      /\ UNCHANGED <<c_notified, context_ptr, current_task, waits, back_task, schedVars>>
    BY <1>2, <1>3, <1>4, <1>5 DEF Resumed, Go, delete_context
<1>8. /\ n # b /\ n \in Nodes /\ b \in Nodes /\ n # nullptr /\ b # nullptr
      /\ status[n] = "Yield" /\ status[b] = "Recoverable"
      /\ \A z \in Contexts : (z # x => c_task[z] # n) /\ (z # y => c_task[z] # b)
      /\ \A z \in Contexts : n \notin c_notified[z] /\ b \notin c_notified[z]
      /\ n \notin queue /\ b \notin queue /\ waits[n] = {} /\ waits[b] = {}
    <2>1. StateAt("resumed") = "Yield" /\ StateAt("back") = "Recoverable"  BY DEF StateAt
    <2>2. n # b /\ n \in Nodes /\ b \in Nodes /\ n # nullptr /\ b # nullptr  BY Disjoint
    <2>3. status[n] = "Yield" /\ status[b] = "Recoverable"
        BY <1>1, <1>2, <1>4, <1>5, <2>1, <2>2 DEF Tidy, States
    <2>4. /\ \A z \in Contexts : (z # x => c_task[z] # n) /\ (z # y => c_task[z] # b)
          /\ \A z \in Contexts : n \notin c_notified[z] /\ b \notin c_notified[z]
          /\ n \notin queue /\ b \notin queue
        BY <1>2, <1>4, <1>5, <2>2 DEF Tidy, OnePlace
    <2>5. Placed(n) /\ Placed(b)  BY <1>2, <1>4, <1>5 DEF Placed
    <2> QED  BY <2>2, <2>3, <2>4, <2>5 DEF Tidy, States
<1>9. /\ c_pc'[x] = "run" /\ \A z \in Contexts : z # x => c_pc'[z] = c_pc[z]
      /\ c_status'[y] = "none" /\ \A z \in Contexts : z # y => c_status'[z] = c_status[z]
      /\ c_task'[y] = nullptr /\ \A z \in Contexts : z # y => c_task'[z] = c_task[z]
      /\ c_back'[x] = nullptr /\ \A z \in Contexts : z # x => c_back'[z] = c_back[z]
      /\ context_pre_ptr'[w] = nullptr
      /\ \A v \in Workers : v # w => context_pre_ptr'[v] = context_pre_ptr[v]
      /\ \A v \in Workers : On(v)' = On(v)
      /\ context_ptr' = context_ptr /\ c_notified' = c_notified
    BY <1>2, <1>5, <1>7, OnKept DEF Types
<1>10. /\ back_run_context_ptr'[b] = nullptr
       /\ \A k \in BackNodes : k # b => back_run_context_ptr'[k] = back_run_context_ptr[k]
       /\ status'[n] = "Running" /\ status'[b] = "Destroy"
       /\ \A m \in Nodes : m # n /\ m # b => status'[m] = status[m]
    BY <1>7, <1>8 DEF Types
<1>11. Holders'
    <2>1. OwnContext'
        <3>1. \A v \in Workers : c_status'[v] = c_status[v] /\ c_pc'[v] = c_pc[v]
            BY <1>6, <1>9, Disjoint
        <3>2. context_ptr[w] \in Coroutines /\ nullptr # w  BY <1>2, Disjoint
        <3> QED  BY <1>6, <1>9, <3>1, <3>2 DEF Holders, OwnContext
    <2>2. Standing'
        <3> SUFFICES ASSUME NEW v \in Workers, context_ptr[v] \in Coroutines
                     PROVE  /\ c_pc'[context_ptr[v]] \in Busy \cup {"enter", "loop"}
                            /\ c_status'[context_ptr[v]] = IF At(v, "enter")' THEN "Initing" ELSE "Running"
            BY <1>9 DEF Standing
        <3>1. CASE v = w
            <4>1. ~At(v, "enter")'  BY <1>2, <1>9, <3>1 DEF At
            <4> QED  BY <1>2, <1>6, <1>9, <3>1, <4>1 DEF Busy
        <3>2. CASE v # w
            <4>1. PICK z \in Contexts : z = On(v)  BY <1>6, <3>2
            <4>2. z = context_ptr[v] /\ z # y /\ z # x  BY <1>6, <3>2, <4>1, Disjoint DEF On
            <4>3. c_pc'[z] = c_pc[z] /\ c_status'[z] = c_status[z]  BY <1>9, <4>2
            <4>4. At(v, "enter")' <=> At(v, "enter")  BY <1>9, <4>1, <4>3 DEF At
            <4> QED  BY <4>2, <4>3, <4>4 DEF Holders, Standing
        <3> QED  BY <3>1, <3>2
    <2>3. Behind'
        <3> SUFFICES ASSUME NEW v \in Workers, NEW q, q = context_pre_ptr'[v]
                     PROVE  /\ q # nullptr <=> c_pc'[On(v)] \in {"enter", "resumed"} \/ context_ptr[v] = v
                            /\ q \in Coroutines =>
                                  /\ c_status'[q] = "Running"
                                  /\ c_pc'[q] = CASE context_ptr[v] = v -> "loop"
                                                  [] At(v, "enter")' -> "resumed"
                                                  [] OTHER -> "back"
                                  /\ At(v, "resumed")' => c_task'[q] = c_back'[On(v)]
                            /\ q \in Workers => q = v /\ At(v, "enter")'
            BY <1>9 DEF Behind
        <3>1. CASE v = w  BY <1>2, <1>9, <3>1, Disjoint
        <3>2. CASE v # w
            <4>1. PICK z \in Contexts : z = On(v)  BY <1>6, <3>2
            <4>2. z # x /\ q = context_pre_ptr[v] /\ q # x /\ q # y
                BY <1>6, <1>9, <3>2, <4>1
            <4>3. c_pc'[z] = c_pc[z] /\ c_back'[z] = c_back[z]  BY <1>9, <4>2
            <4>4. q \in Coroutines => c_pc'[q] = c_pc[q] /\ c_status'[q] = c_status[q]
                                      /\ c_task'[q] = c_task[q]
                BY <1>9, <4>2, Disjoint
            <4>5. (At(v, "enter")' <=> At(v, "enter")) /\ (At(v, "resumed")' <=> At(v, "resumed"))
                BY <1>9, <4>1, <4>3 DEF At
            <4> QED  BY <4>1, <4>2, <4>3, <4>4, <4>5 DEF Holders, Behind
        <3> QED  BY <3>1, <3>2
    <2>4. OneHolder'  BY <1>9 DEF Holders, OneHolder
    <2>5. Suspended'
        <3> SUFFICES ASSUME NEW z \in Coroutines
                     PROVE  /\ c_status'[z] = "Yield" => c_pc'[z] = "resumed"
                            /\ \/ c_status'[z] \in {"none", "Yield"}
                               \/ \E v \in Workers : context_ptr[v] = z \/ context_pre_ptr'[v] = z
            BY <1>9 DEF Suspended
        <3>1. CASE z = y  BY <1>9, <3>1
        <3>2. CASE z = x  BY <1>2, <1>6, <1>9, <3>2
        <3>3. CASE z # x /\ z # y
            <4>1. c_pc'[z] = c_pc[z] /\ c_status'[z] = c_status[z]  BY <1>9, <3>3, Disjoint
            <4>2. \A v \in Workers : context_pre_ptr[v] = z => context_pre_ptr'[v] = z
                BY <1>5, <1>9, <3>3
            <4> QED  BY <4>1, <4>2 DEF Holders, Suspended
        <3> QED  BY <3>1, <3>2, <3>3
    <2> QED  BY <2>1, <2>2, <2>3, <2>4, <2>5 DEF Holders
<1>12. Types'
    <2>1. c_pc' \in [Contexts -> Points]  BY <1>7 DEF Types, Points
    <2>2. c_status' \in [Contexts -> Statuses]  BY <1>7 DEF Types, Statuses
    <2>3. context_pre_ptr' \in [Workers -> Contexts \cup {nullptr}]  BY <1>7 DEF Types
    <2>4. c_task' \in [Contexts -> Nodes \cup {nullptr}]  BY <1>7 DEF Types
    <2>5. c_back' \in [Contexts -> BackNodes \cup {nullptr}]  BY <1>7 DEF Types
    <2>6. c_nodes' \in [Contexts -> (SUBSET Tasks) \cup {{g} : g \in Graphs}]
        <3>1. {} \in (SUBSET Tasks) \cup {{g} : g \in Graphs}  OBVIOUS
        <3> QED  BY <1>7, <3>1 DEF Types
    <2>7. back_run_context_ptr' \in [BackNodes -> Contexts \cup {nullptr}]
        BY <1>7 DEF Types
    <2>8. status' \in [Nodes -> Statuses]  BY <1>7 DEF Types, Statuses
    <2> QED  BY <1>7, <2>1, <2>2, <2>3, <2>4, <2>5, <2>6, <2>7, <2>8 DEF Types, schedVars
<1>13. /\ c_notified[x] = {} /\ c_notified[y] = {} /\ c_back[y] = nullptr
       /\ Live(x)' /\ ~Live(y)'
       /\ \A z \in Contexts : z # y => (Live(z)' <=> Live(z))
    <2>1. c_notified[x] = {} /\ c_notified[y] = {} /\ c_back[y] = nullptr
        BY <1>1, <1>2, <1>5, Taskless DEF Tidy, Locals
    <2> QED  BY <1>2, <1>6, <1>9, <2>1 DEF Live
<1>14. Locals'
    <2> SUFFICES ASSUME NEW z \in Contexts
                 PROVE  /\ c_task'[z] # nullptr <=> Live(z)' /\ c_pc'[z] \in Busy
                        /\ c_back'[z] # nullptr <=> Live(z)' /\ c_pc'[z] \in Bound
                        /\ c_notified[z] # {} => Live(z)' /\ c_pc'[z] \in Ending
                        /\ Live(z)' /\ c_pc'[z] \in Busy \ {"start"} =>
                              IF c_pc'[z] = "back" THEN c_task'[z] \in BackNodes
                                                   ELSE c_task'[z] \in Tasks
        BY <1>9 DEF Locals
    <2>1. CASE z = x
        <3>1. c_task'[z] = n  BY <1>4, <1>6, <1>9, <2>1
        <3> QED  BY <1>8, <1>9, <1>13, <2>1, <3>1, Taskless
    <2>2. CASE z = y  BY <1>6, <1>9, <1>13, <2>2
    <2>3. CASE z # x /\ z # y  BY <1>9, <1>13, <2>3 DEF Tidy, Locals
    <2> QED  BY <2>1, <2>2, <2>3
<1>15. Bonds'
    <2> SUFFICES ASSUME NEW k \in BackNodes
                 PROVE  /\ back_run_context_ptr'[k] # nullptr <=> status'[k] \in {"Initing", "Recoverable"}
                        /\ back_run_context_ptr'[k] # nullptr =>
                              /\ back_run_context_ptr'[k] \in Coroutines
                              /\ c_back'[back_run_context_ptr'[k]] = k
                              /\ back_task[k] = c_task'[back_run_context_ptr'[k]]
                        /\ \A z \in Contexts : c_back'[z] = k => back_run_context_ptr'[k] = z
        BY <1>7 DEF Bonds
    <2>1. CASE k = b
        <3>1. \A z \in Contexts : c_back'[z] # b
            <4>1. \A z \in Contexts : c_back[z] = b => z = x  BY <1>3 DEF Tidy, Bonds
            <4> QED  BY <1>8, <1>9, <4>1
        <3> QED  BY <1>10, <2>1, <3>1
    <2>2. CASE k # b
        <3>1. k # nullptr /\ k \in Nodes /\ k # n  BY Disjoint
        <3>2. status'[k] = status[k] /\ back_run_context_ptr'[k] = back_run_context_ptr[k]
            BY <1>10, <2>2, <3>1
        <3>3. \A z \in Contexts : c_back[z] = k => z # x /\ z # y
            BY <1>3, <1>13, <2>2, <3>1
        <3>4. back_run_context_ptr[k] # nullptr =>
                  /\ back_run_context_ptr[k] \in Coroutines /\ back_run_context_ptr[k] \in Contexts
                  /\ c_back[back_run_context_ptr[k]] = k
            BY Disjoint DEF Tidy, Bonds
        <3>5. back_run_context_ptr[k] # nullptr =>
                  back_run_context_ptr[k] # x /\ back_run_context_ptr[k] # y
            BY <3>3, <3>4
        <3>6. \A z \in Contexts : c_back'[z] = k => c_back[z] = k
            BY <1>9, <3>1
        <3> QED  BY <1>9, <3>2, <3>4, <3>5, <3>6 DEF Tidy, Bonds
    <2> QED  BY <2>1, <2>2
<1>16. \A m \in Nodes : Placed(m)' => Placed(m)
    <2> SUFFICES ASSUME NEW m \in Nodes, Placed(m)' PROVE Placed(m)
        OBVIOUS
    <2>1. m # nullptr /\ queue' = queue  BY <1>7, Disjoint DEF schedVars
    <2>2. \A z \in Contexts : c_task'[z] = m => c_task[z] = m  BY <1>9, <2>1
    <2> QED  BY <1>9, <2>1, <2>2 DEF Placed
<1>17. States'
    <2>1. \A z \in Contexts : c_task'[z] # nullptr => status'[c_task'[z]] = StateAt(c_pc'[z])
        <3> SUFFICES ASSUME NEW z \in Contexts, c_task'[z] # nullptr
                     PROVE  status'[c_task'[z]] = StateAt(c_pc'[z])
            OBVIOUS
        <3>1. StateAt("run") = "Running"  BY DEF StateAt
        <3>2. CASE z = x
            <4>1. c_task'[z] = n  BY <1>4, <1>6, <1>9, <3>2
            <4> QED  BY <1>9, <1>10, <3>1, <3>2, <4>1
        <3>3. CASE z # x
            <4>1. z # y  BY <1>9
            <4>2. c_task'[z] = c_task[z] /\ c_pc'[z] = c_pc[z]  BY <1>9, <3>3, <4>1
            <4>3. c_task[z] # n /\ c_task[z] # b /\ c_task[z] \in Nodes
                BY <1>8, <3>3, <4>1, <4>2 DEF Types
            <4> QED  BY <1>10, <4>2, <4>3 DEF Tidy, States
        <3> QED  BY <3>2, <3>3
    <2>2. \A z \in Contexts : \A m \in c_notified[z] : status'[m] = "Initing"
        BY <1>8, <1>10 DEF Tidy, States, Types
    <2>3. \A z \in Contexts : Live(z)' /\ c_pc'[z] = "edges" =>
             status'[c_back'[z]] = "Initing" /\ waits[c_back'[z]] = {} /\ ~Placed(c_back[z])'
        <3> SUFFICES ASSUME NEW z \in Contexts, Live(z)', c_pc'[z] = "edges"
                     PROVE  status'[c_back'[z]] = "Initing" /\ waits[c_back'[z]] = {}
                            /\ ~Placed(c_back[z])'
            OBVIOUS
        <3>1. z # x /\ z # y /\ c_pc[z] = "edges" /\ Live(z)  BY <1>9, <1>13
        <3>2. PICK k : k = c_back[z]  OBVIOUS
        <3>3. k \in BackNodes /\ back_run_context_ptr[k] = z  BY <3>1, <3>2, MyBack DEF Bound
        <3>4. k # b /\ k # n /\ k \in Nodes  BY <1>3, <3>1, <3>3, Disjoint
        <3>5. status[k] = "Initing" /\ waits[k] = {} /\ ~Placed(k)
            BY <3>1, <3>2 DEF Tidy, States
        <3>6. status'[k] = "Initing" /\ ~Placed(k)'  BY <1>10, <1>16, <3>4, <3>5
        <3>7. c_back'[z] = k  BY <1>9, <3>1, <3>2
        <3> QED  BY <3>5, <3>6, <3>7
    <2>4. \A m \in queue : status'[m] = "Initing"
        BY <1>8, <1>10 DEF Tidy, States, Types
    <2>5. \A m \in Nodes : waits[m] # {} => status'[m] = "Initing"
        BY <1>8, <1>10 DEF Tidy, States
    <2>6. \A m \in Tasks : status'[m] = "none" <=> m > made
        BY <1>8, <1>10, Disjoint DEF Tidy, States
    <2>7. \A m \in Nodes : Placed(m)' => waits[m] = {}  BY <1>16 DEF Tidy, States
    <2>8. queue' = queue /\ waits' = waits /\ made' = made /\ c_notified' = c_notified
        BY <1>7 DEF schedVars
    <2>9. \A z \in Contexts :
             /\ c_task'[z] # nullptr => status'[c_task'[z]] = StateAt(c_pc'[z])
             /\ \A m \in c_notified'[z] : status'[m] = "Initing"
             /\ Live(z)' /\ c_pc'[z] = "edges" =>
                   status'[c_back'[z]] = "Initing" /\ waits'[c_back'[z]] = {}
                   /\ ~Placed(c_back[z])'
        BY <2>1, <2>2, <2>3, <2>8
    <2> QED  BY <2>4, <2>5, <2>6, <2>7, <2>8, <2>9 DEF States
<1>18. OnePlace'
    <2>1. queue' = queue /\ nullptr \notin queue  BY <1>7, NoNull DEF schedVars
    <2>2. \A u \in Contexts : nullptr \notin c_notified[u]  BY Disjoint DEF Types
    <2>3. \A u \in Contexts : c_task'[u] = c_task[u] \/ c_task'[u] = nullptr  BY <1>9
    <2>4. ASSUME NEW u \in Contexts, NEW v \in Contexts, u # v
          PROVE  /\ c_task'[u] = c_task'[v] => c_task'[u] = nullptr
                 /\ c_notified'[u] \cap c_notified'[v] = {}
        BY <1>9, <2>3, <2>4 DEF Tidy, OnePlace
    <2>5. \A u, v \in Contexts : c_task'[u] \notin c_notified'[v]
        BY <1>9, <2>2, <2>3 DEF Tidy, OnePlace
    <2>6. \A u \in Contexts : c_task'[u] \notin queue' /\ c_notified'[u] \cap queue' = {}
        BY <1>9, <2>1, <2>3 DEF Tidy, OnePlace
    <2> QED  BY <2>4, <2>5, <2>6 DEF OnePlace
<1>19. Current'
    <2> SUFFICES ASSUME NEW v \in Workers, c_pc'[On(v)] \in {"run", "edges", "yield", "resumed"}
                 PROVE  current_task[v] = c_task'[On(v)]
        BY <1>7, <1>9 DEF Current
    <2>1. CASE v = w
        BY <1>1, <1>2, <1>6, <1>9, <2>1 DEF Tidy, Current
    <2>2. CASE v # w
        BY <1>6, <1>9, <2>2 DEF Tidy, Current
    <2> QED  BY <2>1, <2>2
<1>20. Main'
    <2>1. Alive(n)  BY <1>8 DEF Alive
    <2>2. m_pc \notin {"join", "done"}  BY <1>8, <2>1 DEF Main
    <2>3. \A v \in Workers : c_pc'[v] = c_pc[v]  BY <1>2, <1>9, Disjoint
    <2> QED  BY <1>7, <2>2, <2>3 DEF Main, schedVars
<1> QED  BY <1>11, <1>12, <1>14, <1>15, <1>17, <1>18, <1>19, <1>20 DEF Tidy

-----------------------------------------------------------------------------
(* The main thread *)

\* A thread that has ended is joined, and what it had is deleted.
LEMMA JoinInv ==
    ASSUME ContextInv, NEW w \in Workers, Join(w)
    PROVE  ContextInv'
<1> USE DEF ContextInv
<1>1. context_ptr[w] = w /\ m_pc = "join" /\ w # nullptr /\ w \in Contexts /\ w \notin Coroutines
    BY Disjoint DEF Join
<1>2. On(w) = w /\ c_pc[w] = "ended" /\ c_status[w] = "Yield"
    BY <1>1, Disjoint DEF Holders, OwnContext, On
<1>3. PICK p \in Coroutines : /\ p = context_pre_ptr[w] /\ p \in Contexts /\ p # nullptr
                              /\ c_status[p] = "Running" /\ c_pc[p] = "loop" /\ p # w
    <2>1. context_pre_ptr[w] \in Coroutines  BY <1>1, Disjoint DEF Holders, OwnContext
    <2>2. c_status[context_pre_ptr[w]] = "Running"  BY <2>1 DEF Holders, Behind
    <2>3. ~At(w, "enter")  BY <1>2 DEF At
    <2>4. c_pc[context_pre_ptr[w]] = "loop"  BY <1>1, <2>1, <2>3 DEF Holders, Behind
    <2> QED  BY <1>1, <2>1, <2>2, <2>4, Disjoint
<1>4. \A v \in Workers : v # w =>
          /\ On(v) # w /\ On(v) # p /\ context_ptr[v] # w /\ context_ptr[v] # p
          /\ context_pre_ptr[v] # w /\ context_pre_ptr[v] # p /\ v # p
          /\ On(v) \in Contexts
    <2> SUFFICES ASSUME NEW v \in Workers, v # w
                 PROVE  /\ On(v) # w /\ On(v) # p /\ context_ptr[v] # w /\ context_ptr[v] # p
                        /\ context_pre_ptr[v] # w /\ context_pre_ptr[v] # p /\ v # p
                        /\ On(v) \in Contexts
        OBVIOUS
    <2>1. context_ptr[v] # p /\ context_pre_ptr[v] # p  BY <1>3 DEF Holders, OneHolder
    <2>2. v # p /\ context_ptr[v] # w  BY Disjoint DEF Holders, OwnContext
    <2>3. context_pre_ptr[v] # w  BY DEF Holders, Behind
    <2> QED  BY <2>1, <2>2, <2>3, Disjoint DEF On, Holders, OwnContext
<1>5. /\ c_status' = [z \in Contexts |-> IF z \in {w, p} THEN "none" ELSE c_status[z]]
      /\ c_pc' = [c_pc EXCEPT ![w] = "joined"]
      /\ c_task' = [z \in Contexts |-> IF z \in {w, p} THEN nullptr ELSE c_task[z]]
      /\ context_ptr' = [context_ptr EXCEPT ![w] = nullptr]
      /\ context_pre_ptr' = [context_pre_ptr EXCEPT ![w] = nullptr]
      /\ m_pc' = IF \A v \in Workers \ {w} : c_pc[v] = "joined" THEN "done" ELSE "join"
      /\ UNCHANGED <<c_notified, c_nodes, c_back, current_task, nodeVars, queue, flags, made>>
    BY <1>1, <1>3 DEF Join
<1>6. /\ c_status'[w] = "none" /\ c_status'[p] = "none"
      /\ \A z \in Contexts : z # w /\ z # p => c_status'[z] = c_status[z]
      /\ c_task'[w] = nullptr /\ c_task'[p] = nullptr
      /\ \A z \in Contexts : z # w /\ z # p => c_task'[z] = c_task[z]
      /\ c_pc'[w] = "joined" /\ \A z \in Contexts : z # w => c_pc'[z] = c_pc[z]
      /\ context_ptr'[w] = nullptr /\ context_pre_ptr'[w] = nullptr
      /\ \A v \in Workers : v # w => /\ context_ptr'[v] = context_ptr[v]
                                     /\ context_pre_ptr'[v] = context_pre_ptr[v]
    BY <1>1, <1>3, <1>5 DEF Types
<1>7. \A v \in Workers : On(v)' = On(v)  BY <1>2, <1>6 DEF On
<1>8. /\ c_task[w] = nullptr /\ c_back[w] = nullptr /\ c_notified[w] = {}
      /\ c_task[p] = nullptr /\ c_back[p] = nullptr /\ c_notified[p] = {}
    BY <1>1, <1>2, <1>3, Taskless DEF Tidy, Locals
<1>9. c_task' = c_task /\ c_notified' = c_notified /\ c_back' = c_back
    <2>1. \A z \in Contexts : c_task'[z] = c_task[z]  BY <1>6, <1>8
    <2>2. c_task \in [Contexts -> Nodes \cup {nullptr}]  BY DEF Types
    <2>3. c_task' = [z \in Contexts |-> c_task'[z]]  BY <1>5
    <2> QED  BY <1>5, <2>1, <2>2, <2>3
<1>10. Holders'
    <2>1. OwnContext'
        <3>1. \A v \in Workers : v # w => c_status'[v] = c_status[v] /\ c_pc'[v] = c_pc[v]
            BY <1>4, <1>6, Disjoint
        <3> QED  BY <1>6, <3>1 DEF Holders, OwnContext
    <2>2. Standing'
        <3> SUFFICES ASSUME NEW v \in Workers, context_ptr'[v] \in Coroutines
                     PROVE  /\ c_pc'[context_ptr'[v]] \in Busy \cup {"enter", "loop"}
                            /\ c_status'[context_ptr'[v]] = IF At(v, "enter")' THEN "Initing" ELSE "Running"
            BY DEF Standing
        <3>1. v # w /\ context_ptr'[v] = context_ptr[v]  BY <1>6, Disjoint
        <3>2. PICK z \in Contexts : z = context_ptr[v] /\ z = On(v) /\ z # w /\ z # p
            BY <1>4, <3>1, Disjoint DEF On
        <3>3. c_pc'[z] = c_pc[z] /\ c_status'[z] = c_status[z]  BY <1>6, <3>2
        <3>4. At(v, "enter")' <=> At(v, "enter")  BY <1>7, <3>2, <3>3 DEF At
        <3> QED  BY <3>1, <3>2, <3>3, <3>4 DEF Holders, Standing
    <2>3. Behind'
        <3> SUFFICES ASSUME NEW v \in Workers, NEW q, q = context_pre_ptr'[v]
                     PROVE  /\ q # nullptr <=> c_pc'[On(v)] \in {"enter", "resumed"} \/ context_ptr'[v] = v
                            /\ q \in Coroutines =>
                                  /\ c_status'[q] = "Running"
                                  /\ c_pc'[q] = CASE context_ptr'[v] = v -> "loop"
                                                  [] At(v, "enter")' -> "resumed"
                                                  [] OTHER -> "back"
                                  /\ At(v, "resumed")' => c_task[q] = c_back[On(v)]
                            /\ q \in Workers => q = v /\ At(v, "enter")'
            BY <1>7, <1>9 DEF Behind
        <3>1. CASE v = w  BY <1>1, <1>2, <1>6, <3>1, Disjoint
        <3>2. CASE v # w
            <4>1. PICK z \in Contexts : z = On(v) /\ z # w /\ z # p  BY <1>4, <3>2
            <4>2. q = context_pre_ptr[v] /\ q # w /\ q # p /\ context_ptr'[v] = context_ptr[v]
                BY <1>4, <1>6, <3>2
            <4>3. c_pc'[z] = c_pc[z]  BY <1>6, <4>1
            <4>4. q \in Coroutines => c_pc'[q] = c_pc[q] /\ c_status'[q] = c_status[q]
                BY <1>6, <4>2, Disjoint
            <4>5. (At(v, "enter")' <=> At(v, "enter")) /\ (At(v, "resumed")' <=> At(v, "resumed"))
                BY <1>7, <4>1, <4>3 DEF At
            <4> QED  BY <4>1, <4>2, <4>3, <4>4, <4>5 DEF Holders, Behind
        <3> QED  BY <3>1, <3>2
    <2>4. OneHolder'
        <3>1. \A u, v \in Workers : context_pre_ptr'[u] # nullptr =>
                 /\ context_pre_ptr'[u] # context_ptr'[v]
                 /\ u # v => context_pre_ptr'[u] # context_pre_ptr'[v]
            BY <1>6 DEF Holders, OneHolder
        <3> QED  BY <1>7, <3>1 DEF Holders, OneHolder
    <2>5. Suspended'
        <3> SUFFICES ASSUME NEW z \in Coroutines
                     PROVE  /\ c_status'[z] = "Yield" => c_pc'[z] = "resumed"
                            /\ \/ c_status'[z] \in {"none", "Yield"}
                               \/ \E v \in Workers : context_ptr'[v] = z \/ context_pre_ptr'[v] = z
            BY DEF Suspended
        <3>1. CASE z = p  BY <1>6, <3>1
        <3>2. CASE z # p
            <4>1. z # w /\ c_pc'[z] = c_pc[z] /\ c_status'[z] = c_status[z]
                BY <1>1, <1>6, <3>2, Disjoint
            <4>2. \A v \in Workers : context_ptr[v] = z \/ context_pre_ptr[v] = z => v # w
                BY <1>1, <1>3, <3>2, <4>1
            <4> QED  BY <1>6, <4>1, <4>2 DEF Holders, Suspended
        <3> QED  BY <3>1, <3>2
    <2> QED  BY <2>1, <2>2, <2>3, <2>4, <2>5 DEF Holders
<1>11. Types'
    <2>1. c_pc' \in [Contexts -> Points]  BY <1>5 DEF Types, Points
    <2>2. c_status' \in [Contexts -> Statuses]  BY <1>5 DEF Types, Statuses
    <2>3. /\ context_ptr' \in [Workers -> Contexts \cup {nullptr}]
          /\ context_pre_ptr' \in [Workers -> Contexts \cup {nullptr}]
        BY <1>5 DEF Types
    <2>4. m_pc' \in {"join", "done"}  BY <1>5
    <2> QED  BY <1>5, <1>9, <2>1, <2>2, <2>3, <2>4 DEF Types, nodeVars
<1>12. Locals'
    <2>1. \A z \in Contexts : z # w /\ z # p => (Live(z)' <=> Live(z)) /\ c_pc'[z] = c_pc[z]
        BY <1>6 DEF Live
    <2>2. ~Live(w)' /\ ~Live(p)'  BY <1>6 DEF Live
    <2> QED  BY <1>8, <1>9, <2>1, <2>2 DEF Tidy, Locals
<1>13. Bonds'  BY <1>5, <1>9 DEF Tidy, Bonds, nodeVars
<1>14. \A m : Placed(m)' <=> Placed(m)  BY <1>5, <1>9 DEF Placed
<1>15. States'
    <2>1. \A z \in Contexts : c_task[z] # nullptr => c_pc'[z] = c_pc[z]  BY <1>6, <1>8
    <2>2. \A z \in Contexts : Live(z)' /\ c_pc'[z] = "edges" => Live(z) /\ c_pc[z] = "edges"
        BY <1>6 DEF Live
    <2> QED  BY <1>5, <1>9, <1>14, <2>1, <2>2 DEF Tidy, States, nodeVars
<1>16. OnePlace'  BY <1>5, <1>9 DEF Tidy, OnePlace
<1>17. Current'
    <2>1. \A v \in Workers : c_pc'[On(v)] \in {"run", "edges", "yield", "resumed"} =>
             c_pc'[On(v)] = c_pc[On(v)]
        BY <1>2, <1>4, <1>6
    <2> QED  BY <1>5, <1>7, <1>9, <2>1 DEF Tidy, Current
<1>18. Main'
    <2>1. \A n \in Nodes : ~Alive(n)'  BY <1>1, <1>5 DEF Main, Alive, nodeVars
    <2>2. m_pc' \in {"join", "done"}  BY <1>5
    <2>3. m_pc' = "done" => \A v \in Workers : c_pc'[v] = "joined"
        BY <1>5, <1>6, Disjoint
    <2> QED  BY <1>5, <2>1, <2>2, <2>3 DEF Main
<1> QED  BY <1>10, <1>11, <1>12, <1>13, <1>15, <1>16, <1>17, <1>18 DEF Tidy

\* init_work_thread and the end of the client only change the place of main.
LEMMA MainMovesInv ==
    ASSUME ContextInv, init_work_thread \/ StopClient
    PROVE  ContextInv'
<1> USE DEF ContextInv
<1>1. /\ m_pc \in {"init", "open"} /\ m_pc' \in {"open", "clear"}
      /\ UNCHANGED <<ctxVars, thrVars, nodeVars, queue, flags, idle_worker_num, made>>
    BY DEF init_work_thread, StopClient
<1>2. Holders'  BY <1>1, HoldersKept DEF ctxVars, thrVars
<1>3. Types'  BY <1>1 DEF Types, ctxVars, thrVars, nodeVars
<1>4. Locals' /\ Bonds' /\ OnePlace'
    BY <1>1 DEF Tidy, Locals, Bonds, OnePlace, Live, ctxVars, nodeVars
<1>5. \A m : Placed(m)' <=> Placed(m)  BY <1>1 DEF Placed, ctxVars
<1>6. States'  BY <1>1, <1>5 DEF Tidy, States, Live, ctxVars, nodeVars
<1>7. Current'  BY <1>1, OnKept DEF Tidy, Current, ctxVars, thrVars
<1>8. Main'  BY <1>1 DEF Main, Alive, ctxVars, nodeVars
<1> QED  BY <1>2, <1>3, <1>4, <1>6, <1>7, <1>8 DEF Tidy

\* The client submits a task.
LEMMA ClientInv ==
    ASSUME ContextInv, NEW R \in SUBSET Tasks, create_edges(R)
    PROVE  ContextInv'
<1> USE DEF ContextInv
<1>1. PICK n : n = made + 1  OBVIOUS
<1>2. PICK left : /\ left \subseteq R
                  /\ waits' = [waits EXCEPT ![n] = left]
                  /\ queue' = IF left = {} THEN queue \cup {n} ELSE queue
    <2> DEFINE left == {r \in R : Unfinished(r)}
    <2>1. /\ waits' = [waits EXCEPT ![made + 1] = left]
          /\ queue' = IF left = {} THEN queue \cup {made + 1} ELSE queue
        BY DEF create_edges, ready
    <2>2. left \subseteq R  OBVIOUS
    <2> HIDE DEF left
    <2>3. \E l : /\ l \subseteq R
                 /\ waits' = [waits EXCEPT ![n] = l]
                 /\ queue' = IF l = {} THEN queue \cup {n} ELSE queue
        <3> WITNESS left
        <3> QED  BY <1>1, <2>1, <2>2
    <2> QED  BY ONLY <2>3
<1>3. /\ m_pc = "open" /\ made < MaxNodes /\ made' = n /\ R \subseteq 1 .. made
      /\ status' = [status EXCEPT ![n] = "Initing"]
      /\ UNCHANGED <<ctxVars, thrVars, back_task, back_run_context_ptr, flags,
                     idle_worker_num, m_pc>>
    BY <1>1 DEF create_edges
<1>4. /\ made \in Nat /\ MaxNodes \in Nat /\ n \in Tasks /\ n \in Nodes /\ n \notin BackNodes
      /\ n # nullptr /\ n > made
    BY SMTT(60), <1>1, <1>3, CoroutineAssumption, Disjoint DEF Types, Tasks
<1>5. status[n] = "none"  BY <1>4 DEF Tidy, States
<1>6. waits[n] = {} /\ ~Placed(n)
    <2>1. waits[n] = {}  BY <1>4, <1>5 DEF Tidy, States
    <2>2. \A x \in Contexts : c_task[x] = n => status[n] = StateAt(c_pc[x]) /\ c_pc[x] \in Busy
        BY <1>4 DEF Tidy, States, Locals
    <2>3. \A pc \in Busy : StateAt(pc) # "none"  BY DEF Busy, StateAt
    <2> QED  BY <1>4, <1>5, <2>1, <2>2, <2>3 DEF Tidy, States, Placed
<1>7. /\ status'[n] = "Initing" /\ \A m \in Nodes : m # n => status'[m] = status[m]
      /\ waits'[n] = left /\ \A m \in Nodes : m # n => waits'[m] = waits[m]
      /\ \A m : m \in queue' <=> m \in queue \/ (m = n /\ left = {})
    BY <1>2, <1>3, <1>4 DEF Types
<1>8. Holders'  BY <1>3, HoldersKept DEF ctxVars, thrVars
<1>9. Types'
    <2>1. status' \in [Nodes -> Statuses]  BY <1>3 DEF Types, Statuses
    <2>2. left \in (SUBSET Tasks) \cup {{g} : g \in Graphs}  BY <1>2
    <2>3. waits' \in [Nodes -> (SUBSET Tasks) \cup {{g} : g \in Graphs}]
        BY <1>2, <2>2 DEF Types
    <2>4. queue' \subseteq Nodes  BY <1>4, <1>7 DEF Types
    <2>5. made' \in 0 .. MaxNodes  BY <1>1, <1>3, <1>4
    <2> QED  BY <1>3, <2>1, <2>3, <2>4, <2>5 DEF Types, ctxVars, thrVars
<1>10. Locals'  BY <1>3 DEF Tidy, Locals, Live, ctxVars
<1>11. Bonds'
    <2>1. \A b \in BackNodes : status'[b] = status[b]  BY <1>4, <1>7, Disjoint
    <2> QED  BY <1>3, <2>1 DEF Tidy, Bonds, ctxVars
<1>12. \A m : Placed(m)' <=> Placed(m) \/ (m = n /\ left = {})
    BY <1>3, <1>7 DEF Placed, ctxVars
<1>a. c_task' = c_task /\ c_pc' = c_pc /\ c_notified' = c_notified /\ c_back' = c_back
      /\ c_status' = c_status
    BY <1>3 DEF ctxVars
<1>b. \A y \in Contexts : c_task[y] # n /\ n \notin c_notified[y]  BY <1>6 DEF Placed
<1>13. States'
    <2>1. \A y \in Contexts :
             /\ c_task[y] # nullptr => status'[c_task[y]] = StateAt(c_pc[y])
             /\ \A m \in c_notified[y] : status'[m] = "Initing"
        BY <1>7, <1>b DEF Tidy, States, Types
    <2>3. \A y \in Contexts : Live(y) /\ c_pc[y] = "edges" =>
             status'[c_back[y]] = "Initing" /\ waits'[c_back[y]] = {} /\ ~Placed(c_back[y])'
        <3> SUFFICES ASSUME NEW y \in Contexts, Live(y), c_pc[y] = "edges"
                     PROVE  status'[c_back[y]] = "Initing" /\ waits'[c_back[y]] = {}
                            /\ ~Placed(c_back[y])'
            OBVIOUS
        <3>1. PICK k : k = c_back[y]  OBVIOUS
        <3>2. k \in BackNodes  BY <3>1, MyBack DEF Bound
        <3>3. k # n /\ k \in Nodes  BY <1>4, <3>2, Disjoint
        <3>4. status[k] = "Initing" /\ waits[k] = {} /\ ~Placed(k)
            BY <3>1 DEF Tidy, States
        <3>5. status'[k] = "Initing" /\ waits'[k] = {} /\ ~Placed(k)'
            BY <1>7, <1>12, <3>3, <3>4
        <3>6. c_back'[y] = k  BY <1>a, <3>1
        <3> QED  BY <3>1, <3>5, <3>6
    <2>4. \A m \in queue' : status'[m] = "Initing"
        <3>1. n \notin queue  BY <1>6 DEF Placed
        <3> QED  BY <1>7, <3>1 DEF Tidy, States, Types
    <2>5. \A m \in Nodes : waits'[m] # {} => status'[m] = "Initing"
        BY <1>7 DEF Tidy, States
    <2>6. \A m \in Tasks : status'[m] = "none" <=> m > made'
        <3> SUFFICES ASSUME NEW m \in Tasks PROVE status'[m] = "none" <=> m > made'
            OBVIOUS
        <3>1. m \in Nat /\ (m # n => (m > made <=> m > n))  BY <1>1, <1>4 DEF Tasks
        <3>2. CASE m = n  BY <1>3, <1>4, <1>7, <3>1, <3>2
        <3>3. CASE m # n  BY <1>3, <1>7, <3>1, <3>3, Disjoint DEF Tidy, States
        <3> QED  BY <3>2, <3>3
    <2>7. \A m \in Nodes : Placed(m)' => waits'[m] = {}
        BY <1>6, <1>7, <1>12 DEF Tidy, States
    <2> QED  BY <1>a, <2>1, <2>3, <2>4, <2>5, <2>6, <2>7 DEF States, Live
<1>14. OnePlace'  BY <1>7, <1>a, <1>b DEF Tidy, OnePlace
<1>15. Current'  BY <1>3, <1>a, OnKept DEF Tidy, Current, thrVars
<1>16. Main'  BY <1>3, <1>a DEF Main
<1> QED  BY <1>8, <1>9, <1>10, <1>11, <1>13, <1>14, <1>15, <1>16 DEF Tidy

\* clear_graph deletes the client's tasks, all Recoverable.
LEMMA ClearGraphInv ==
    ASSUME ContextInv, clear_graph
    PROVE  ContextInv'
<1> USE DEF ContextInv
<1>1. /\ m_pc = "clear" /\ m_pc' = "destroy"
      /\ \A n \in 1 .. made : status[n] = "Recoverable"
      /\ status' = [n \in Nodes |-> IF n \in 1 .. made THEN "Destroy" ELSE status[n]]
      /\ UNCHANGED <<ctxVars, thrVars, waits, back_task, back_run_context_ptr, queue, flags,
                     idle_worker_num, made>>
    BY DEF clear_graph
<1>2. Holders'  BY <1>1, HoldersKept DEF ctxVars, thrVars
<1>3. Types'
    <2>1. status' \in [Nodes -> Statuses]  BY <1>1 DEF Types, Statuses
    <2> QED  BY <1>1, <2>1 DEF Types, ctxVars, thrVars
<1>4. \A n \in Nodes : status'[n] # status[n] => status[n] = "Recoverable" /\ status'[n] = "Destroy"
                                                /\ n \in Tasks
    <2>1. made \in Nat /\ MaxNodes \in Nat /\ made <= MaxNodes
        BY CoroutineAssumption DEF Types
    <2>2. 1 .. made \subseteq Tasks  BY <2>1 DEF Tasks
    <2> QED  BY <1>1, <2>2
<1>5. Locals' /\ OnePlace'  BY <1>1 DEF Tidy, Locals, OnePlace, Live, ctxVars
<1>6. Bonds'
    <2>1. \A b \in BackNodes : status'[b] = status[b]  BY <1>4, Disjoint
    <2> QED  BY <1>1, <2>1 DEF Tidy, Bonds, ctxVars
<1>7. \A m : Placed(m)' <=> Placed(m)  BY <1>1 DEF Placed, ctxVars
<1>8. States'
    <2>1. \A y \in Contexts : c_task[y] # nullptr => status'[c_task[y]] = status[c_task[y]]
        <3> SUFFICES ASSUME NEW y \in Contexts, c_task[y] # nullptr,
                            status'[c_task[y]] # status[c_task[y]]
                     PROVE  FALSE
            OBVIOUS
        <3>1. c_task[y] \in Tasks /\ status[c_task[y]] = "Recoverable"
            BY <1>4 DEF Types
        <3>2. Live(y) /\ c_pc[y] \in Busy /\ StateAt(c_pc[y]) = "Recoverable"
            BY <3>1 DEF Tidy, Locals, States
        <3>3. \A pc \in Busy \ {"back"} : StateAt(pc) # "Recoverable"  BY DEF Busy, StateAt
        <3>4. c_pc[y] = "back"  BY <3>2, <3>3
        <3>5. "back" \in Busy \ {"start"}  BY DEF Busy
        <3>6. c_task[y] \in BackNodes  BY <3>2, <3>4, <3>5 DEF Tidy, Locals
        <3> QED  BY <3>1, <3>6, Disjoint
    <2>2. \A m \in Nodes : status[m] = "Initing" => status'[m] = "Initing"  BY <1>4
    <2>3. \A y \in Contexts : \A m \in c_notified[y] : status'[m] = "Initing"
        BY <2>2 DEF Tidy, States, Types
    <2>4. \A y \in Contexts : Live(y) /\ c_pc[y] = "edges" => status'[c_back[y]] = "Initing"
        <3> SUFFICES ASSUME NEW y \in Contexts, Live(y), c_pc[y] = "edges"
                     PROVE  status'[c_back[y]] = "Initing"
            OBVIOUS
        <3>1. c_back[y] \in Nodes  BY MyBack, Disjoint DEF Bound
        <3> QED  BY <2>2, <3>1 DEF Tidy, States
    <2>5. \A m \in Tasks : status'[m] = "none" <=> m > made
        BY <1>4, Disjoint DEF Tidy, States
    <2>6. \A m \in queue : status'[m] = "Initing"  BY <2>2 DEF Tidy, States, Types
    <2>7. \A m \in Nodes : waits[m] # {} => status'[m] = "Initing"
        BY <2>2 DEF Tidy, States
    <2> QED  BY <1>1, <1>7, <2>1, <2>3, <2>4, <2>5, <2>6, <2>7
             DEF Tidy, States, Live, ctxVars
<1>9. Current'  BY <1>1, OnKept DEF Tidy, Current, ctxVars, thrVars
<1>10. Main'  BY <1>1 DEF Main, ctxVars
<1> QED  BY <1>2, <1>3, <1>5, <1>6, <1>8, <1>9, <1>10 DEF Tidy

\* No node is left: only then are the end signals sent.
LEMMA SendFlagsInv ==
    ASSUME ContextInv, SendFlags
    PROVE  ContextInv'
<1> USE DEF ContextInv
<1>1. /\ m_pc = "destroy" /\ m_pc' = "join" /\ pending_worker_num = 0
      /\ flags' = flags + 2 * Cardinality(Workers)
      /\ UNCHANGED <<ctxVars, thrVars, nodeVars, queue, idle_worker_num, made>>
    BY DEF SendFlags, EndSignals
<1>2. Holders'  BY <1>1, HoldersKept DEF ctxVars, thrVars
<1>3. Types'  BY <1>1 DEF Types, ctxVars, thrVars, nodeVars
<1>4. Locals' /\ Bonds' /\ OnePlace'
    BY <1>1 DEF Tidy, Locals, Bonds, OnePlace, Live, ctxVars, nodeVars
<1>5. \A m : Placed(m)' <=> Placed(m)  BY <1>1 DEF Placed, ctxVars
<1>6. States'  BY <1>1, <1>5 DEF Tidy, States, Live, ctxVars, nodeVars
<1>7. Current'  BY <1>1, OnKept DEF Tidy, Current, ctxVars, thrVars
<1>8. \A n \in Nodes : ~Alive(n)
    <2>1. MaxNodes \in Nat /\ MaxWaits \in Nat  BY CoroutineAssumption
    <2>2. IsFiniteSet(Nodes)
        <3>1. PICK a, b : a = MaxNodes + 1 /\ b = MaxNodes + MaxWaits  OBVIOUS
        <3>2. IsFiniteSet(1 .. MaxNodes) /\ IsFiniteSet(a .. b)
            BY <2>1, <3>1, IntervalSize
        <3>3. IsFiniteSet(Tasks) /\ IsFiniteSet(BackNodes)
            BY <3>1, <3>2 DEF Tasks, BackNodes
        <3> QED  BY <3>3, FS_Union DEF Nodes
    <2>3. IsFiniteSet({n \in Nodes : Alive(n)})
        <3>1. {n \in Nodes : Alive(n)} \subseteq Nodes  OBVIOUS
        <3> QED  BY <2>2, <3>1, FS_Subset
    <2>4. {n \in Nodes : Alive(n)} = {}
        BY <1>1, <2>3, FS_EmptySet DEF pending_worker_num
    <2> QED  BY <2>4
<1>9. Main'
    <2>1. Cardinality(Workers) \in Nat  BY CoroutineAssumption, FS_CardinalityType
    <2>2. flags' \in 0 .. 2 * Cardinality(Workers)  BY <1>1, <2>1 DEF Main
    <2> QED  BY <1>1, <1>8, <2>2 DEF Main, Alive, ctxVars, nodeVars
<1> QED  BY <1>2, <1>3, <1>4, <1>6, <1>7, <1>9 DEF Tidy

-----------------------------------------------------------------------------
(* ContextInv is inductive *)

\* Schedule::init.
LEMMA ContextInit == Init => ContextInv
<1> SUFFICES ASSUME Init PROVE ContextInv
    OBVIOUS
<1>0. /\ \A w \in Workers : On(w) = w /\ context_ptr[w] = nullptr /\ context_pre_ptr[w] = nullptr
                            /\ c_pc[w] = "routine"
      /\ \A x \in Contexts : /\ c_status[x] = "none" /\ c_task[x] = nullptr
                             /\ c_notified[x] = {} /\ c_back[x] = nullptr
      /\ \A x \in Contexts : c_pc[x] \in {"routine", "none"}
    BY Disjoint DEF Init, On
<1>1. Types
    <2>1. 0 \in 0 .. MaxNodes  BY CoroutineAssumption
    <2>2. {} \in (SUBSET Tasks) \cup {{g} : g \in Graphs}  OBVIOUS
    <2>3. /\ c_status \in [Contexts -> Statuses] /\ c_pc \in [Contexts -> Points]
          /\ status \in [Nodes -> Statuses]
        BY DEF Init, Statuses, Points
    <2>4. /\ c_nodes \in [Contexts -> (SUBSET Tasks) \cup {{g} : g \in Graphs}]
          /\ waits \in [Nodes -> (SUBSET Tasks) \cup {{g} : g \in Graphs}]
        BY <2>2 DEF Init
    <2> QED  BY <2>1, <2>3, <2>4 DEF Init, Types
<1>2. Holders
    <2>1. OwnContext  BY <1>0, Disjoint DEF OwnContext
    <2>2. Standing  BY <1>0, Disjoint DEF Standing
    <2>3. Behind  BY <1>0, Disjoint DEF Behind
    <2>4. OneHolder  BY <1>0 DEF OneHolder
    <2>5. Suspended  BY <1>0, Disjoint DEF Suspended
    <2> QED  BY <2>1, <2>2, <2>3, <2>4, <2>5 DEF Holders
<1>3. Tidy
    <2>1. Locals  BY <1>0 DEF Locals, Live
    <2>2. Bonds
        <3>1. \A b \in BackNodes : b # nullptr /\ status[b] = "none"
                                   /\ back_run_context_ptr[b] = nullptr
            BY Disjoint DEF Init
        <3> QED  BY <1>0, <3>1 DEF Bonds
    <2>3. States
        <3>1. \A n \in Tasks : n > made  BY DEF Init, Tasks
        <3>2. \A n \in Tasks : status[n] = "none"  BY Disjoint DEF Init
        <3>3. \A n \in Nodes : waits[n] = {}  BY DEF Init
        <3>4. queue = {}  BY DEF Init
        <3>5. \A x \in Contexts : ~Live(x)  BY <1>0 DEF Live
        <3> QED  BY <1>0, <3>1, <3>2, <3>3, <3>4, <3>5 DEF States
    <2>4. OnePlace  BY <1>0 DEF OnePlace, Init
    <2>5. Current  BY <1>0 DEF Current
    <2> QED  BY <2>1, <2>2, <2>3, <2>4, <2>5 DEF Tidy
<1>4. Main
    <2>1. Cardinality(Workers) \in Nat  BY CoroutineAssumption, FS_CardinalityType
    <2>2. flags = 0 /\ flags \in 0 .. 2 * Cardinality(Workers)  BY <2>1 DEF Init
    <2>3. m_pc = "init"  BY DEF Init
    <2> QED  BY <1>0, <2>2, <2>3 DEF Main
<1> QED  BY <1>1, <1>2, <1>3, <1>4 DEF ContextInv

\* A step that changes nothing.
LEMMA ContextStutter ==
    ASSUME ContextInv, UNCHANGED vars
    PROVE  ContextInv'
<1> USE DEF ContextInv
<1>1. UNCHANGED <<ctxVars, thrVars, nodeVars, schedVars>>  BY DEF vars
<1>2. Holders'  BY <1>1, HoldersKept DEF ctxVars, thrVars
<1>3. Types'  BY <1>1 DEF Types, ctxVars, thrVars, nodeVars, schedVars
<1>4. Locals' /\ Bonds' /\ OnePlace'
    BY <1>1 DEF Tidy, Locals, Bonds, OnePlace, Live, ctxVars, nodeVars, schedVars
<1>5. \A m : Placed(m)' <=> Placed(m)  BY <1>1 DEF Placed, ctxVars, schedVars
<1>6. States'  BY <1>1, <1>5 DEF Tidy, States, Live, ctxVars, nodeVars, schedVars
<1>7. Current'  BY <1>1, OnKept DEF Tidy, Current, ctxVars, thrVars
<1>8. Main'  BY <1>1 DEF Main, Alive, ctxVars, nodeVars, schedVars
<1> QED  BY <1>2, <1>3, <1>4, <1>6, <1>7, <1>8 DEF Tidy

\* Every step.
LEMMA ContextStep == ContextInv /\ [Next]_vars => ContextInv'
<1> SUFFICES ASSUME ContextInv, [Next]_vars PROVE ContextInv'
    OBVIOUS
<1>1. CASE UNCHANGED vars  BY <1>1, ContextStutter
<1>2. ASSUME NEW w \in Workers, do_schedule(w) PROVE ContextInv'
    <2>1. CASE routine(w)  BY <2>1, RoutineInv
    <2>2. CASE change_context_status(w)  BY <2>2, ChangeContextStatusInv
    <2>3. CASE EndSignal(w)  BY <2>3, EndSignalInv
    <2>4. CASE \E n \in Nodes : Dequeue(w, n)  BY <2>4, DequeueInv
    <2>5. CASE Start(w)  BY <2>5, StartInv
    <2>6. CASE Finish(w)  BY <2>6, FinishInv
    <2>7. CASE Recover(w)  BY <2>7, RecoverInv
    <2>14. CASE Notify(w)  BY <2>14, NotifyInv
    <2>8. CASE \E nodes \in SUBSET Tasks : require_node(w, nodes)
        <3>1. PICK nodes \in SUBSET Tasks : NewBackNode(w, nodes)  BY <2>8 DEF require_node
        <3>2. nodes \in (SUBSET Tasks) \cup {{g} : g \in Graphs}  OBVIOUS
        <3> QED  BY <3>1, <3>2, NewBackNodeInv
    <2>9. CASE \E g \in Graphs : wait_graph(w, g)
        <3>1. PICK g \in Graphs : NewBackNode(w, {g})  BY <2>9 DEF wait_graph
        <3>2. {g} \in (SUBSET Tasks) \cup {{h} : h \in Graphs}  OBVIOUS
        <3> QED  BY <3>1, <3>2, NewBackNodeInv
    <2>10. CASE CreateEdges(w)  BY <2>10, CreateEdgesInv
    <2>11. CASE YieldTask(w)  BY <2>11, YieldTaskInv
    <2>12. CASE SwitchBack(w)  BY <2>12, SwitchBackInv
    <2>13. CASE Resumed(w)  BY <2>13, ResumedInv
    <2> QED  BY <1>2, <2>1, <2>2, <2>3, <2>4, <2>5, <2>6, <2>7, <2>8, <2>9, <2>10, <2>11,
                <2>12, <2>13, <2>14 DEF do_schedule
<1>3. CASE init_work_thread \/ StopClient  BY <1>3, MainMovesInv
<1>4. CASE destroy
    <2>1. CASE clear_graph  BY <2>1, ClearGraphInv
    <2>2. CASE SendFlags  BY <2>2, SendFlagsInv
    <2>3. CASE \E w \in Workers : Join(w)  BY <2>3, JoinInv
    <2> QED  BY <1>4, <2>1, <2>2, <2>3 DEF destroy
<1>5. CASE \E R \in SUBSET Tasks : create_edges(R)  BY <1>5, ClientInv
<1> QED  BY <1>1, <1>2, <1>3, <1>4, <1>5 DEF Next

-----------------------------------------------------------------------------
(* Idle workers *)

\* Where the code of the other workers stands; to is where w's stands after.
OthersStay(w, to) ==
    /\ c_pc'[On(w)'] = to
    /\ \A v \in Workers : v # w => c_pc'[On(v)'] = c_pc[On(v)]

\* A worker that goes on, on its stack.
LEMMA StaysPut ==
    ASSUME Types, Holders, NEW w \in Workers, NEW from, NEW to, Go(w, from, to),
           UNCHANGED context_ptr
    PROVE  c_pc[On(w)] = from /\ OthersStay(w, to)
<1>1. \A v \in Workers : On(v)' = On(v) /\ On(v) \in Contexts
    BY OnKept, Disjoint DEF On, Holders, OwnContext
<1>2. \A v \in Workers : v # w => On(v) # On(w)  BY DEF Holders, OneHolder
<1>3. c_pc' = [c_pc EXCEPT ![On(w)] = to]  BY DEF Go
<1>4. c_pc'[On(w)] = to /\ \A v \in Workers : v # w => c_pc'[On(v)] = c_pc[On(v)]
    BY <1>1, <1>2, <1>3 DEF Types
<1> QED  BY <1>1, <1>4 DEF OthersStay, Go, At

\* A worker that enters an old context.
LEMMA Enters ==
    ASSUME Types, NEW w \in Workers, NEW x, x # nullptr, set_context(w, x), UNCHANGED c_pc
    PROVE  On(w)' = x /\ OthersStay(w, c_pc[x])
<1>1. context_ptr'[w] = x /\ \A v \in Workers : v # w => context_ptr'[v] = context_ptr[v]
    BY DEF set_context, Types
<1>2. On(w)' = x /\ \A v \in Workers : v # w => On(v)' = On(v)  BY <1>1 DEF On
<1> QED  BY <1>2 DEF OthersStay

\* There are at least as many threads as init was asked for.
LEMMA AtLeastAsked == worker_num \in Nat /\ worker_num <= Cardinality(Workers)
<1>1. \A b \in Nat \ {0}, n \in Nat : ((n + b - 1) \div b) * b >= n
    <2> SUFFICES ASSUME NEW b \in Nat \ {0}, NEW n \in Nat
                 PROVE  ((n + b - 1) \div b) * b >= n
        OBVIOUS
    <2>1. PICK q, r : /\ q = (n + b - 1) \div b /\ r = (n + b - 1) % b
        OBVIOUS
    <2>2. n + b - 1 = b * q + r /\ q \in Int /\ r \in 0 .. b - 1
        BY <2>1
    <2>3. q * b = b * q /\ b * q \in Int
        BY <2>2
    <2> QED  BY <2>1, <2>2, <2>3
<1> QED  BY <1>1, WorkerAssumption

\* The threads that init adds.
LEMMA OffsetType == Cardinality(Workers) - worker_num \in Int
<1>1. Cardinality(Workers) \in Nat  BY CoroutineAssumption, FS_CardinalityType
<1> QED  BY <1>1, WorkerAssumption

\* The count changes with the place of one worker.
LEMMA IdleStep ==
    ASSUME IdleExact, m_pc # "done", m_pc' # "done",
           NEW w \in Workers, NEW from, NEW to, c_pc[On(w)] = from, OthersStay(w, to),
           idle_worker_num' = IF from \in Idle
                                 THEN IF to \in Idle THEN idle_worker_num ELSE idle_worker_num - 1
                                 ELSE IF to \in Idle THEN idle_worker_num + 1 ELSE idle_worker_num
    PROVE  IdleExact'
<1>1. IsFiniteSet(IdleWorkers)
    <2>1. IdleWorkers \subseteq Workers  BY DEF IdleWorkers
    <2> QED  BY <2>1, CoroutineAssumption, FS_Subset
<1>0. PICK k \in Int : k = Cardinality(Workers) - worker_num  BY OffsetType
<1>2. idle_worker_num = Cardinality(IdleWorkers) - k
    BY <1>0 DEF IdleExact, IdleWorkers, Idle
<1>3. Cardinality(IdleWorkers) \in Nat  BY <1>1, FS_CardinalityType
<1>4. PICK S, T : S = IdleWorkers /\ T = IdleWorkers'  OBVIOUS
<1>5. /\ \A v : v # w => (v \in T <=> v \in S)
      /\ w \in S <=> from \in Idle
      /\ w \in T <=> to \in Idle
    BY <1>4 DEF IdleWorkers, OthersStay
<1>6. idle_worker_num' = Cardinality(T) - k
    <2>1. CASE from \in Idle /\ to \notin Idle
        <3>1. T = S \ {w} /\ w \in S  BY <1>5, <2>1
        <3>2. Cardinality(T) = Cardinality(S) - 1  BY <1>1, <1>4, <3>1, FS_RemoveElement
        <3> QED  BY <1>0, <1>2, <1>3, <1>4, <2>1, <3>2
    <2>2. CASE from \notin Idle /\ to \in Idle
        <3>1. T = S \cup {w} /\ w \notin S  BY <1>5, <2>2
        <3>2. Cardinality(T) = Cardinality(S) + 1  BY <1>1, <1>4, <3>1, FS_AddElement
        <3> QED  BY <1>0, <1>2, <1>3, <1>4, <2>2, <3>2
    <2>3. CASE from \in Idle <=> to \in Idle
        <3>1. T = S  BY <1>5, <2>3
        <3> QED  BY <1>2, <1>4, <2>3, <3>1
    <2> QED  BY <2>1, <2>2, <2>3
<1> QED  BY <1>0, <1>4, <1>6 DEF IdleExact, IdleWorkers, Idle

\* When no worker moves the count stays.
LEMMA IdleKept ==
    ASSUME IdleExact, UNCHANGED <<c_pc, context_ptr, idle_worker_num>>,
           m_pc = "done" <=> m_pc' = "done"
    PROVE  IdleExact'
BY OnKept DEF IdleExact

\* No worker moves after the last join, and none moves the main thread.
LEMMA WorkersOfMain ==
    ASSUME ContextInv, NEW w \in Workers, do_schedule(w)
    PROVE  m_pc # "done" /\ m_pc' = m_pc
<1>1. m_pc' = m_pc
    <2>1. CASE routine(w) \/ change_context_status(w) \/ EndSignal(w)
        BY <2>1 DEF routine, change_context_status, EndSignal, schedVars
    <2>2. CASE \E n \in Nodes : Dequeue(w, n)
        BY <2>2 DEF Dequeue
    <2>3. CASE Start(w) \/ Finish(w) \/ Notify(w) \/ Recover(w)
        BY <2>3 DEF Start, Finish, Notify, Recover, schedVars
    <2>4. CASE \/ \E nodes \in SUBSET Tasks : require_node(w, nodes)
               \/ \E g \in Graphs : wait_graph(w, g)
        BY <2>4 DEF require_node, wait_graph, NewBackNode, schedVars, vars
    <2>5. CASE CreateEdges(w) \/ YieldTask(w) \/ SwitchBack(w) \/ Resumed(w)
        BY <2>5 DEF CreateEdges, YieldTask, SwitchBack, Resumed, schedVars
    <2> QED  BY <2>1, <2>2, <2>3, <2>4, <2>5 DEF do_schedule
<1>2. ASSUME c_pc[w] = "joined" PROVE FALSE
    <2>1. On(w) = w  BY <1>2, Disjoint DEF ContextInv, Holders, OwnContext, On
    <2>2. c_pc[On(w)] = "joined"  BY <1>2, <2>1
    <2>3. CASE routine(w) \/ change_context_status(w) \/ EndSignal(w)
        BY <2>2, <2>3 DEF routine, change_context_status, EndSignal, At, Go
    <2>4. CASE \E n \in Nodes : Dequeue(w, n)
        BY <2>2, <2>4 DEF Dequeue, At, Go
    <2>5. CASE Start(w) \/ Finish(w) \/ Notify(w) \/ Recover(w)
        <3>1. CASE Start(w)  BY <2>2, <3>1 DEF Start, At, Go
        <3>2. CASE Finish(w)  BY <2>2, <3>2 DEF Finish, At, Go
        <3>3. CASE Notify(w)  BY <2>2, <3>3 DEF Notify, At, Go
        <3>4. CASE Recover(w)  BY <2>2, <3>4 DEF Recover, At, Go
        <3> QED  BY <2>5, <3>1, <3>2, <3>3, <3>4
    <2>6. CASE \/ \E nodes \in SUBSET Tasks : require_node(w, nodes)
               \/ \E g \in Graphs : wait_graph(w, g)
        BY <2>2, <2>6 DEF require_node, wait_graph, NewBackNode, At, Go
    <2>7. CASE CreateEdges(w) \/ YieldTask(w) \/ SwitchBack(w) \/ Resumed(w)
        BY <2>2, <2>7 DEF CreateEdges, YieldTask, SwitchBack, Resumed, At, Go
    <2> QED  BY <2>3, <2>4, <2>5, <2>6, <2>7 DEF do_schedule
<1> QED  BY <1>1, <1>2 DEF ContextInv, Main

\* Which places are idle.
LEMMA IdlePlaces ==
    /\ {"routine", "enter", "loop", "ended", "joined"} \subseteq Idle
    /\ {"start", "run", "edges", "yield", "back", "resumed", "notify", "recover"} \cap Idle = {}
BY DEF Idle

\* idle_worker_num_ is right after every step.
LEMMA IdleInv == ContextInv /\ IdleExact /\ [Next]_vars => IdleExact'
<1> SUFFICES ASSUME ContextInv, IdleExact, [Next]_vars PROVE IdleExact'
    OBVIOUS
<1> USE DEF ContextInv
<1>1. CASE UNCHANGED vars
    BY <1>1, IdleKept DEF vars, ctxVars, thrVars, schedVars
<1>2. ASSUME NEW w \in Workers, do_schedule(w) PROVE IdleExact'
    <2>0. m_pc # "done" /\ m_pc' # "done"  BY <1>2, WorkersOfMain
    <2>1. CASE routine(w)
        <3>1. At(w, "routine") /\ c_pc[On(w)] = "routine" /\ idle_worker_num' = idle_worker_num
            BY <2>1 DEF routine, At, schedVars
        <3>2. PICK y \in Coroutines : y = NewContext /\ c_status[y] = "none"
            BY <3>1, FreeContext
        <3>3. On(w) = w /\ w \in Contexts
            BY <3>1, Disjoint DEF Holders, OwnContext, Standing, On, At, Busy
        <3>4. Leaves(w, w, y)
            BY <2>1, <3>1, <3>2, <3>3, Disjoint DEF Leaves, routine, swap_new_context
        <3>5. OthersStay(w, "enter")  BY <3>2, <3>3, <3>4, LeavesEffect DEF OthersStay
        <3> QED  BY <3>1, <3>5, <2>0, IdleStep, IdlePlaces
    <2>2. CASE change_context_status(w)
        <3>1. Go(w, "enter", "loop") /\ UNCHANGED <<context_ptr, idle_worker_num>>
            BY <2>2 DEF change_context_status, schedVars
        <3>2. c_pc[On(w)] = "enter" /\ OthersStay(w, "loop")  BY <3>1, StaysPut
        <3> QED  BY <3>1, <3>2, <2>0, IdleStep, IdlePlaces
    <2>3. CASE EndSignal(w)
        <3>1. /\ At(w, "loop") /\ c_pc[On(w)] = "loop" /\ set_context(w, w)
              /\ UNCHANGED <<c_pc, idle_worker_num>>
            BY <2>3 DEF EndSignal, At, ctxVars
        <3>2. c_pc[w] = "ended" /\ w # nullptr  BY <3>1, Stack, Disjoint
        <3>3. OthersStay(w, "ended")
            <4>1. OthersStay(w, c_pc[w])  BY <3>1, <3>2, Enters
            <4> QED  BY <3>2, <4>1
        <3> QED  BY <3>1, <3>3, <2>0, IdleStep, IdlePlaces
    <2>4. CASE \E n \in Nodes : Dequeue(w, n)
        <3>1. /\ Go(w, "loop", "start") /\ UNCHANGED context_ptr
              /\ idle_worker_num' = idle_worker_num - 1
            BY <2>4 DEF Dequeue, thrVars
        <3>2. c_pc[On(w)] = "loop" /\ OthersStay(w, "start")  BY <3>1, StaysPut
        <3> QED  BY <3>1, <3>2, <2>0, IdleStep, IdlePlaces
    <2>5. CASE Start(w)
        <3>1. PICK to : /\ Go(w, "start", to) /\ to \in {"back", "run"}
                        /\ UNCHANGED <<context_ptr, idle_worker_num>>
            BY <2>5 DEF Start, schedVars
        <3>2. c_pc[On(w)] = "start" /\ OthersStay(w, to)  BY <3>1, StaysPut
        <3>3. to \notin Idle  BY <3>1, IdlePlaces
        <3> QED  BY <3>1, <3>2, <3>3, <2>0, IdleStep, IdlePlaces
    <2>6. CASE Finish(w)
        <3>1. PICK to : /\ Go(w, "run", to) /\ to \in {"notify", "recover"}
                        /\ UNCHANGED <<context_ptr, idle_worker_num>>
            BY <2>6 DEF Finish, thrVars
        <3>2. c_pc[On(w)] = "run" /\ OthersStay(w, to)  BY <3>1, StaysPut
        <3>3. to \notin Idle  BY <3>1, IdlePlaces
        <3> QED  BY <3>1, <3>2, <3>3, <2>0, IdleStep, IdlePlaces
    <2>20. CASE Notify(w)
        <3>1. Go(w, "notify", "recover") /\ UNCHANGED <<context_ptr, idle_worker_num>>
            BY <2>20 DEF Notify, thrVars
        <3>2. c_pc[On(w)] = "notify" /\ OthersStay(w, "recover")  BY <3>1, StaysPut
        <3> QED  BY <3>1, <3>2, <2>0, IdleStep, IdlePlaces
    <2>7. CASE Recover(w)
        <3>1. PICK to : /\ Go(w, "recover", to) /\ UNCHANGED context_ptr
                        /\ to \in {"loop", "start"}
                        /\ idle_worker_num' = IF to = "loop" THEN idle_worker_num + 1
                                                            ELSE idle_worker_num
            <4>2. PICK next :
                  /\ Go(w, "recover", IF next = nullptr THEN "loop" ELSE "start")
                  /\ UNCHANGED context_ptr
                  /\ idle_worker_num' = IF next = nullptr THEN idle_worker_num + 1
                                                         ELSE idle_worker_num
                BY <2>7 DEF Recover, thrVars
            <4>3. CASE next = nullptr  BY <4>2, <4>3
            <4>4. CASE next # nullptr  BY <4>2, <4>4
            <4> QED  BY <4>3, <4>4
        <3>2. c_pc[On(w)] = "recover" /\ OthersStay(w, to)  BY <3>1, StaysPut
        <3>3. to \in Idle <=> to = "loop"  BY <3>1, IdlePlaces
        <3> QED  BY <3>1, <3>2, <3>3, <2>0, IdleStep, IdlePlaces
    <2>8. CASE \E what \in (SUBSET Tasks) \cup {{g} : g \in Graphs} : NewBackNode(w, what)
        <3>1. Go(w, "run", "edges") /\ UNCHANGED <<context_ptr, idle_worker_num>>
            BY <2>8 DEF NewBackNode, thrVars, schedVars
        <3>2. c_pc[On(w)] = "run" /\ OthersStay(w, "edges")  BY <3>1, StaysPut
        <3> QED  BY <3>1, <3>2, <2>0, IdleStep, IdlePlaces
    <2>9. CASE \E nodes \in SUBSET Tasks : require_node(w, nodes)
        BY <2>8, <2>9 DEF require_node
    <2>10. CASE \E g \in Graphs : wait_graph(w, g)
        <3>1. PICK g \in Graphs : NewBackNode(w, {g})  BY <2>10 DEF wait_graph
        <3>2. {g} \in (SUBSET Tasks) \cup {{h} : h \in Graphs}  OBVIOUS
        <3> QED  BY <2>8, <3>1, <3>2
    <2>11. CASE CreateEdges(w)
        <3>1. Go(w, "edges", "yield") /\ UNCHANGED <<context_ptr, idle_worker_num>>
            BY <2>11 DEF CreateEdges, thrVars
        <3>2. c_pc[On(w)] = "edges" /\ OthersStay(w, "yield")  BY <3>1, StaysPut
        <3> QED  BY <3>1, <3>2, <2>0, IdleStep, IdlePlaces
    <2>12. CASE YieldTask(w)
        <3>1. /\ At(w, "yield") /\ c_pc[On(w)] \in Busy /\ c_pc[On(w)] \in Bound
              /\ c_pc[On(w)] = "yield" /\ idle_worker_num' = idle_worker_num + 1
            BY <2>12 DEF YieldTask, At, Busy, Bound, idle_worker_add
        <3>2. PICK y \in Coroutines : y = NewContext /\ c_status[y] = "none"
            BY <3>1, FreeContext
        <3>3. PICK x \in Contexts : x = On(w) /\ Live(x) /\ x # w /\ c_status[x] = "Running"
            BY <3>1, Stack, Disjoint DEF At
        <3>4. back_run_context_ptr[c_back[x]] = x  BY <3>1, <3>3, MyBack
        <3>5. Leaves(w, x, y)
            <4>1. c_status' = [c_status EXCEPT ![y] = "Initing"]  BY <2>12, <3>2 DEF YieldTask
            <4>2. c_status' = [c_status EXCEPT ![x] = "Running", ![y] = "Initing"]
                BY <3>3, <4>1 DEF Types
            <4> QED  BY <2>12, <3>1, <3>2, <3>3, <3>4, <4>2 DEF Leaves, YieldTask,
                swap_new_context
        <3>6. OthersStay(w, "enter")  BY <3>2, <3>3, <3>5, LeavesEffect DEF OthersStay
        <3> QED  BY <3>1, <3>6, <2>0, IdleStep, IdlePlaces
    <2>13. CASE SwitchBack(w)
        <3>1. /\ c_pc[On(w)] = "back" /\ "back" \in Busy
              /\ set_context(w, back_run_context_ptr[c_task[On(w)]])
              /\ c_status[back_run_context_ptr[c_task[On(w)]]] = "Yield"
              /\ UNCHANGED <<c_pc, idle_worker_num>>
            BY <2>13 DEF SwitchBack, At, Busy, CanEnter, schedVars
        <3>2. c_task[On(w)] \in BackNodes /\ status[c_task[On(w)]] = "Recoverable"
            <4>1. StateAt("back") = "Recoverable"  BY DEF StateAt
            <4> QED  BY <3>1, <4>1, Mine DEF At
        <3>3. PICK x \in Coroutines : x = back_run_context_ptr[c_task[On(w)]]
            BY <3>2 DEF Tidy, Bonds
        <3>4. c_pc[x] = "resumed" /\ x # nullptr
            BY <3>1, <3>3, Disjoint DEF Holders, Suspended
        <3>5. OthersStay(w, "resumed")
            <4>1. OthersStay(w, c_pc[x])  BY <3>1, <3>3, <3>4, Enters
            <4> QED  BY <3>4, <4>1
        <3> QED  BY <3>1, <3>5, <2>0, IdleStep, IdlePlaces
    <2>14. CASE Resumed(w)
        <3>1. Go(w, "resumed", "run") /\ UNCHANGED <<context_ptr, idle_worker_num>>
            BY <2>14 DEF Resumed, schedVars
        <3>2. c_pc[On(w)] = "resumed" /\ OthersStay(w, "run")  BY <3>1, StaysPut
        <3> QED  BY <3>1, <3>2, <2>0, IdleStep, IdlePlaces
    <2> QED  BY <1>2, <2>1, <2>2, <2>3, <2>4, <2>5, <2>6, <2>7, <2>9, <2>10, <2>11, <2>12,
                <2>13, <2>14, <2>20 DEF do_schedule
<1>3. CASE init_work_thread \/ StopClient \/ clear_graph \/ SendFlags
    BY <1>3, IdleKept DEF init_work_thread, StopClient, clear_graph, SendFlags, ctxVars, thrVars
<1>4. ASSUME NEW w \in Workers, Join(w) PROVE IdleExact'
    <2>1. /\ context_ptr[w] = w /\ c_pc' = [c_pc EXCEPT ![w] = "joined"]
          /\ context_ptr' = [context_ptr EXCEPT ![w] = nullptr]
          /\ m_pc # "done"
          /\ idle_worker_num' = IF m_pc' = "done" THEN 0 ELSE idle_worker_num
        BY <1>4 DEF Join
    <2>2. On(w) = w /\ c_pc[w] = "ended" /\ w \in Contexts
        BY <2>1, Disjoint DEF Holders, OwnContext, On
    <2>3. OthersStay(w, "joined")
        <3>1. \A v \in Workers : On(v)' = On(v)  BY <2>1, <2>2 DEF On, Types
        <3>2. c_pc'[w] = "joined" /\ \A v \in Workers : v # w => c_pc'[On(v)] = c_pc[On(v)]
            <4>1. \A v \in Workers : v # w => On(v) # w /\ On(v) \in Contexts
                BY <2>2, Disjoint DEF On, Holders, OwnContext, OneHolder
            <4> QED  BY <2>1, <2>2, <4>1 DEF Types
        <3> QED  BY <2>2, <3>1, <3>2 DEF OthersStay
    <2>4. CASE m_pc' = "done"  BY <2>1, <2>4 DEF IdleExact
    <2>5. CASE m_pc' # "done"  BY <2>1, <2>2, <2>3, <2>5, IdleStep, IdlePlaces
    <2> QED  BY <2>4, <2>5
<1>5. CASE \E R \in SUBSET Tasks : create_edges(R)
    BY <1>5, IdleKept DEF create_edges, ctxVars, thrVars
<1> QED  BY <1>1, <1>2, <1>3, <1>4, <1>5 DEF Next, destroy

-----------------------------------------------------------------------------
(* Stacks *)

\* Pooled and LiveCoroutines are finite; what their sizes are made of.
LEMMA Finite ==
    ASSUME Pools
    PROVE  /\ IsFiniteSet(Pooled) /\ IsFiniteSet(LiveCoroutines)
           /\ Cardinality(Pooled) \in Nat /\ Cardinality(LiveCoroutines) \in Nat
<1>1. Cardinality(Workers) \in Nat /\ MaxWaits \in Nat
    BY CoroutineAssumption, FS_CardinalityType
<1>2. IsFiniteSet(Coroutines)
    <2>1. PICK b : b = Cardinality(Workers) + MaxWaits  OBVIOUS
    <2>2. 1 \in Int /\ b \in Int  BY <1>1, <2>1
    <2> QED  BY <2>1, <2>2, IntervalSize DEF Coroutines
<1>3. LiveCoroutines \subseteq Coroutines  BY DEF LiveCoroutines
<1>4. IsFiniteSet(LiveCoroutines)  BY <1>2, <1>3, FS_Subset
<1> QED  BY <1>4, FS_CardinalityType DEF Pools

\* No stack comes or goes.
LEMMA PoolsKept ==
    ASSUME Pools, UNCHANGED <<stack_pool, mapped>>,
           \A w \in Workers : c_pc'[w] = "joined" => c_pc[w] = "joined",
           \A x \in Coroutines : c_status'[x] = "none" <=> c_status[x] = "none"
    PROVE  Pools'
<1>1. Pooled' = Pooled  BY DEF Pooled
<1>2. LiveCoroutines' = LiveCoroutines  BY DEF LiveCoroutines, Live
<1> QED  BY <1>1, <1>2 DEF Pools

\* A context is made: its stack comes from the pool or is new.
LEMMA GetStack ==
    ASSUME Pools, NEW w \in Workers, c_pc[w] # "joined", get_stack(w),
           NEW y \in Coroutines, c_status[y] = "none", c_status'[y] # "none",
           \A x \in Coroutines : x # y => (c_status'[x] = "none" <=> c_status[x] = "none"),
           \A v \in Workers : c_pc'[v] = "joined" => c_pc[v] = "joined"
    PROVE  Pools'
<1>0. /\ IsFiniteSet(Pooled) /\ IsFiniteSet(LiveCoroutines)
      /\ Cardinality(Pooled) \in Nat /\ Cardinality(LiveCoroutines) \in Nat
    BY Finite
<1>1. PICK P, Q, L, M : P = Pooled /\ Q = Pooled' /\ L = LiveCoroutines /\ M = LiveCoroutines'
    OBVIOUS
<1>2. Cardinality(M) = Cardinality(L) + 1
    <2>1. M = L \cup {y} /\ y \notin L  BY <1>1 DEF LiveCoroutines, Live
    <2>2. IsFiniteSet(L)  BY <1>0, <1>1
    <2> QED  BY ONLY <2>1, <2>2, FS_AddElement
<1>3. PICK k \in 0 .. capacity : k = stack_pool[w]  BY DEF Pools
<1>4. capacity \in Nat  BY CapacityAssumption
<1>5. CASE try_dequeue(w) /\ UNCHANGED mapped
    <2>1. k > 0 /\ stack_pool' = [stack_pool EXCEPT ![w] = k - 1]
        BY <1>3, <1>5 DEF try_dequeue
    <2>2. stack_pool'[w] = k - 1 /\ \A v \in Workers : v # w => stack_pool'[v] = stack_pool[v]
        BY <2>1 DEF Pools
    <2>3. stack_pool' \in [Workers -> 0 .. capacity]  BY <1>3, <1>4, <2>1 DEF Pools
    <2>4. Q = P \ {<<w, k>>} /\ <<w, k>> \in P
        <3>1. \A v, i : <<v, i>> \in P <=> v \in Workers /\ i \in Nat /\ i \in 1 .. stack_pool[v]
            BY <1>1 DEF Pooled
        <3>2. \A v, i : <<v, i>> \in Q <=> v \in Workers /\ i \in Nat /\ i \in 1 .. stack_pool'[v]
            BY <1>1 DEF Pooled
        <3>3. \A v, i : <<v, i>> \in Q <=> <<v, i>> \in P /\ ~(v = w /\ i = k)
            <4> SUFFICES ASSUME NEW v, NEW i
                         PROVE  <<v, i>> \in Q <=> <<v, i>> \in P /\ ~(v = w /\ i = k)
                OBVIOUS
            <4>1. CASE v = w  BY <1>3, <2>1, <2>2, <3>1, <3>2, <4>1
            <4>2. CASE v # w  BY <2>2, <3>1, <3>2, <4>2
            <4> QED  BY <4>1, <4>2
        <3>4. P \subseteq Workers \X Nat /\ Q \subseteq Workers \X Nat  BY <1>1 DEF Pooled
        <3>5. \A s \in Workers \X Nat : s \in Q <=> s \in P /\ s # <<w, k>>
            BY <3>3
        <3>6. <<w, k>> \in P  BY <1>3, <2>1, <3>1
        <3> QED  BY <3>4, <3>5, <3>6
    <2>5. IsFiniteSet(Q) /\ Cardinality(Q) = Cardinality(P) - 1
        <3>1. PICK e : e = <<w, k>>  OBVIOUS
        <3>2. Q = P \ {e} /\ e \in P /\ IsFiniteSet(P)  BY <1>0, <1>1, <2>4, <3>1
        <3> QED  BY ONLY <3>2, FS_RemoveElement
    <2>6. mapped' = Cardinality(Q) + Cardinality(M)
        BY <1>0, <1>1, <1>2, <1>5, <2>5 DEF Pools
    <2>7. \A v \in Workers : c_pc'[v] = "joined" => stack_pool'[v] = 0
        BY <2>2 DEF Pools
    <2> QED  BY <1>1, <2>3, <2>5, <2>6, <2>7 DEF Pools
<1>6. CASE mapped' = mapped + 1 /\ UNCHANGED stack_pool
    <2>1. Q = P  BY <1>1, <1>6 DEF Pooled
    <2>2. mapped' = Cardinality(Q) + Cardinality(M)
        BY <1>0, <1>1, <1>2, <1>6, <2>1 DEF Pools
    <2> QED  BY <1>0, <1>1, <1>6, <2>1, <2>2 DEF Pools
<1> QED  BY <1>5, <1>6 DEF get_stack

\* A context is deleted: its stack goes into the pool or is given back.
LEMMA PutStack ==
    ASSUME Pools, NEW w \in Workers, c_pc[w] # "joined", put_stack(w),
           NEW y \in Coroutines, c_status'[y] = "none", c_status[y] # "none",
           \A x \in Coroutines : x # y => (c_status'[x] = "none" <=> c_status[x] = "none"),
           \A v \in Workers : c_pc'[v] = "joined" => c_pc[v] = "joined"
    PROVE  Pools'
<1>0. /\ IsFiniteSet(Pooled) /\ IsFiniteSet(LiveCoroutines)
      /\ Cardinality(Pooled) \in Nat /\ Cardinality(LiveCoroutines) \in Nat
    BY Finite
<1>1. PICK P, Q, L, M : P = Pooled /\ Q = Pooled' /\ L = LiveCoroutines /\ M = LiveCoroutines'
    OBVIOUS
<1>2. Cardinality(M) = Cardinality(L) - 1
    <2>1. M = L \ {y} /\ y \in L  BY <1>1 DEF LiveCoroutines, Live
    <2> QED  BY <1>0, <1>1, <2>1, FS_RemoveElement
<1>3. PICK k \in 0 .. capacity : k = stack_pool[w]  BY DEF Pools
<1>4. capacity \in Nat  BY CapacityAssumption
<1>5. CASE try_enqueue(w) /\ UNCHANGED mapped
    <2>1. k < capacity /\ stack_pool' = [stack_pool EXCEPT ![w] = k + 1]
        BY <1>3, <1>5 DEF try_enqueue
    <2>2. stack_pool'[w] = k + 1 /\ \A v \in Workers : v # w => stack_pool'[v] = stack_pool[v]
        BY <2>1 DEF Pools
    <2>3. stack_pool' \in [Workers -> 0 .. capacity]  BY <1>3, <1>4, <2>1 DEF Pools
    <2>4. Q = P \cup {<<w, k + 1>>} /\ <<w, k + 1>> \notin P
        <3>1. \A v, i : <<v, i>> \in P <=> v \in Workers /\ i \in Nat /\ i \in 1 .. stack_pool[v]
            BY <1>1 DEF Pooled
        <3>2. \A v, i : <<v, i>> \in Q <=> v \in Workers /\ i \in Nat /\ i \in 1 .. stack_pool'[v]
            BY <1>1 DEF Pooled
        <3>3. \A v, i : <<v, i>> \in Q <=> <<v, i>> \in P \/ (v = w /\ i = k + 1)
            <4> SUFFICES ASSUME NEW v, NEW i
                         PROVE  <<v, i>> \in Q <=> <<v, i>> \in P \/ (v = w /\ i = k + 1)
                OBVIOUS
            <4>1. CASE v = w  BY <1>3, <2>1, <2>2, <3>1, <3>2, <4>1
            <4>2. CASE v # w  BY <2>2, <3>1, <3>2, <4>2
            <4> QED  BY <4>1, <4>2
        <3>4. P \subseteq Workers \X Nat /\ Q \subseteq Workers \X Nat  BY <1>1 DEF Pooled
        <3>5. \A s \in Workers \X Nat : s \in Q <=> s \in P \/ s = <<w, k + 1>>
            BY <3>3
        <3>6. <<w, k + 1>> \notin P /\ <<w, k + 1>> \in Q  BY <1>3, <3>1, <3>3
        <3> QED  BY <3>4, <3>5, <3>6
    <2>5. IsFiniteSet(Q) /\ Cardinality(Q) = Cardinality(P) + 1
        <3>1. PICK e : e = <<w, k + 1>>  OBVIOUS
        <3>2. Q = P \cup {e} /\ e \notin P /\ IsFiniteSet(P)  BY <1>0, <1>1, <2>4, <3>1
        <3> QED  BY ONLY <3>2, FS_AddElement
    <2>6. mapped' = Cardinality(Q) + Cardinality(M)
        BY <1>0, <1>1, <1>2, <1>5, <2>5 DEF Pools
    <2>7. \A v \in Workers : c_pc'[v] = "joined" => stack_pool'[v] = 0
        BY <2>2 DEF Pools
    <2> QED  BY <1>1, <2>3, <2>5, <2>6, <2>7 DEF Pools
<1>6. CASE mapped' = mapped - 1 /\ UNCHANGED stack_pool
    <2>1. Q = P  BY <1>1, <1>6 DEF Pooled
    <2>2. mapped' = Cardinality(Q) + Cardinality(M)
        BY <1>0, <1>1, <1>2, <1>6, <2>1 DEF Pools
    <2> QED  BY <1>0, <1>1, <1>6, <2>1, <2>2 DEF Pools
<1> QED  BY <1>5, <1>6 DEF put_stack

\* ~Thread deletes the coroutine its worker came from, and empties the pool.
LEMMA JoinPools ==
    ASSUME ContextInv, Pools, NEW w \in Workers, Join(w)
    PROVE  Pools'
<1> USE DEF ContextInv
<1>0. /\ IsFiniteSet(Pooled) /\ IsFiniteSet(LiveCoroutines)
      /\ Cardinality(Pooled) \in Nat /\ Cardinality(LiveCoroutines) \in Nat
    BY Finite
<1>1. context_ptr[w] = w /\ w \in Contexts /\ w \notin Coroutines
    BY Disjoint DEF Join
<1>2. PICK p \in Coroutines : /\ p = context_pre_ptr[w] /\ p \in Contexts
                              /\ c_status[p] = "Running" /\ p # w
    <2>1. context_pre_ptr[w] \in Coroutines  BY <1>1, Disjoint DEF Holders, OwnContext
    <2>2. c_status[context_pre_ptr[w]] = "Running"  BY <2>1 DEF Holders, Behind
    <2> QED  BY <1>1, <2>1, <2>2, Disjoint
<1>3. PICK k \in 0 .. capacity : k = stack_pool[w]  BY DEF Pools
<1>4. capacity \in Nat  BY CapacityAssumption
<1>5. Cardinality({w, p} \cap Coroutines) = 1
    <2>1. {w, p} \cap Coroutines = {p}  BY <1>1
    <2> QED  BY <2>1, FS_Singleton
<1>6. /\ c_status' = [z \in Contexts |-> IF z \in {w, p} THEN "none" ELSE c_status[z]]
      /\ c_pc' = [c_pc EXCEPT ![w] = "joined"]
      /\ mapped' = mapped - k - 1
      /\ stack_pool' = [stack_pool EXCEPT ![w] = 0]
    BY <1>1, <1>2, <1>3, <1>5 DEF Join
<1>7. PICK P, Q, L, M : P = Pooled /\ Q = Pooled' /\ L = LiveCoroutines /\ M = LiveCoroutines'
    OBVIOUS
<1>8. Cardinality(M) = Cardinality(L) - 1
    <2>1. M = L \ {p} /\ p \in L
        BY <1>1, <1>2, <1>6, <1>7, Disjoint DEF LiveCoroutines, Live
    <2> QED  BY <1>0, <1>7, <2>1, FS_RemoveElement
<1>9. stack_pool'[w] = 0 /\ \A v \in Workers : v # w => stack_pool'[v] = stack_pool[v]
    BY <1>6 DEF Pools
<1>10. IsFiniteSet(Q) /\ Cardinality(Q) = Cardinality(P) - k
    <2>1. PICK D : D = {w} \X (1 .. k)  OBVIOUS
    <2>2. Cardinality(D) = k
        <3>1. IsFiniteSet(1 .. k) /\ Cardinality(1 .. k) = k
            <4>1. 1 \in Int /\ k \in Int  OBVIOUS
            <4>2. /\ IsFiniteSet(1 .. k)
                  /\ Cardinality(1 .. k) = IF 1 > k THEN 0 ELSE k - 1 + 1
                BY <4>1, IntervalSize
            <4> QED  BY <1>3, <1>4, <4>2
        <3>2. IsFiniteSet({w}) /\ Cardinality({w}) = 1  BY FS_Singleton
        <3>3. Cardinality(D) = Cardinality({w}) * Cardinality(1 .. k)
            BY <2>1, <3>1, <3>2, FS_Product
        <3> QED  BY <3>1, <3>2, <3>3
    <2>3. P \cap D = D /\ Q = P \ D
        <3>1. \A v, i : <<v, i>> \in P <=> v \in Workers /\ i \in Nat /\ i \in 1 .. stack_pool[v]
            BY <1>7 DEF Pooled
        <3>2. \A v, i : <<v, i>> \in Q <=> v \in Workers /\ i \in Nat /\ i \in 1 .. stack_pool'[v]
            BY <1>7 DEF Pooled
        <3>3. \A v, i : <<v, i>> \in D <=> v = w /\ i \in Nat /\ i \in 1 .. k
            BY <2>1
        <3>4. \A v, i : <<v, i>> \in Q <=> <<v, i>> \in P /\ <<v, i>> \notin D
            <4> SUFFICES ASSUME NEW v, NEW i
                         PROVE  <<v, i>> \in Q <=> <<v, i>> \in P /\ <<v, i>> \notin D
                OBVIOUS
            <4>1. CASE v = w  BY <1>3, <1>9, <3>1, <3>2, <3>3, <4>1
            <4>2. CASE v # w  BY <1>9, <3>1, <3>2, <3>3, <4>2
            <4> QED  BY <4>1, <4>2
        <3>5. \A v, i : <<v, i>> \in D => <<v, i>> \in P  BY <1>3, <3>1, <3>3
        <3>6. P \subseteq Workers \X Nat /\ Q \subseteq Workers \X Nat  BY <1>7 DEF Pooled
        <3>7. D \subseteq Workers \X Nat  BY <2>1
        <3>8. \A s \in Workers \X Nat : (s \in Q <=> s \in P /\ s \notin D) /\ (s \in D => s \in P)
            BY <3>4, <3>5
        <3> QED  BY <3>6, <3>7, <3>8
    <2>4. IsFiniteSet(P)  BY <1>0, <1>7
    <2>5. IsFiniteSet(P \ D) /\ Cardinality(P \ D) = Cardinality(P) - Cardinality(P \cap D)
        BY ONLY <2>4, FS_Difference
    <2> QED  BY <2>2, <2>3, <2>5
<1>11. mapped' = Cardinality(Q) + Cardinality(M)
    BY <1>0, <1>3, <1>6, <1>7, <1>8, <1>10 DEF Pools
<1>12. stack_pool' \in [Workers -> 0 .. capacity]  BY <1>4, <1>6 DEF Pools
<1>13. \A v \in Workers : c_pc'[v] = "joined" => stack_pool'[v] = 0
    BY <1>6, <1>9, Disjoint DEF Pools, Types
<1> QED  BY <1>7, <1>10, <1>11, <1>12, <1>13 DEF Pools

\* No code goes back from the place where its thread has been joined, and on
\* what no stack is got or given back depends.
LEMMA PoolsStay ==
    ASSUME ContextInv, Pools, NEW w \in Workers, NEW from, NEW to, Go(w, from, to), to # "joined",
           UNCHANGED <<context_ptr, stack_pool, mapped>>,
           \A x \in Coroutines : c_status'[x] = "none" <=> c_status[x] = "none"
    PROVE  Pools'
<1>1. \A v \in Workers : c_pc'[v] = "joined" => c_pc[v] = "joined"
    BY Disjoint DEF Go, ContextInv, Types
<1> QED  BY <1>1, PoolsKept

\* Every stack is in a pool or in a context, after every step.
LEMMA PoolsInv == ContextInv /\ Pools /\ [Next]_vars => Pools'
<1> SUFFICES ASSUME ContextInv, Pools, [Next]_vars PROVE Pools'
    OBVIOUS
<1> USE DEF ContextInv
<1>1. CASE UNCHANGED vars
    BY <1>1, PoolsKept DEF vars, ctxVars, thrVars
<1>2. ASSUME NEW w \in Workers, do_schedule(w) PROVE Pools'
    <2>1. CASE routine(w)
        <3>1. At(w, "routine") /\ get_stack(w)  BY <2>1 DEF routine, swap_new_context
        <3>2. PICK y \in Coroutines : y = NewContext /\ c_status[y] = "none"
            BY <3>1, FreeContext
        <3>3. On(w) = w /\ w \in Contexts
            BY <3>1, Disjoint DEF Holders, OwnContext, Standing, On, At, Busy
        <3>4. Leaves(w, w, y)
            BY <2>1, <3>1, <3>2, <3>3, Disjoint DEF Leaves, routine, swap_new_context
        <3>5. /\ c_pc'[w] = "ended" /\ c_pc'[y] = "enter" /\ c_status'[y] = "Initing"
              /\ \A z \in Contexts : z # w /\ z # y =>
                    c_pc'[z] = c_pc[z] /\ c_status'[z] = c_status[z]
            BY <3>2, <3>3, <3>4, LeavesEffect
        <3>6. c_pc[w] # "joined"  BY <3>1, <3>3 DEF At
        <3>7. \A v \in Workers : c_pc'[v] = "joined" => c_pc[v] = "joined"
            BY <3>5, Disjoint
        <3>8. \A x \in Coroutines : x # y => (c_status'[x] = "none" <=> c_status[x] = "none")
            BY <3>5, Disjoint
        <3> QED  BY <3>1, <3>2, <3>5, <3>6, <3>7, <3>8, GetStack
    <2>2. CASE change_context_status(w)
        <3>1. /\ Go(w, "enter", "loop") /\ UNCHANGED <<context_ptr, stack_pool, mapped>>
              /\ c_status' = [c_status EXCEPT ![context_ptr[w]] = "Running",
                                              ![context_pre_ptr[w]] = "Yield"]
            BY <2>2 DEF change_context_status
        <3>2. c_pc[On(w)] = "enter"  BY <3>1 DEF Go, At
        <3>3. PICK y \in Coroutines : y = context_ptr[w] /\ c_status[y] # "none"
            BY <3>2, Stack DEF Live
        <3>4. PICK p : p = context_pre_ptr[w]  OBVIOUS
        <3>5. p \in Coroutines => c_status[p] # "none"  BY <3>4 DEF Holders, Behind
        <3>6. \A x \in Coroutines : c_status'[x] = "none" <=> c_status[x] = "none"
            BY <3>1, <3>3, <3>4, <3>5, Disjoint DEF Types
        <3> QED  BY <3>1, <3>6, PoolsStay
    <2>3. CASE EndSignal(w)
        BY <2>3, PoolsKept DEF EndSignal, ctxVars
    <2>4. CASE \E n \in Nodes : Dequeue(w, n)
        BY <2>4, PoolsStay DEF Dequeue, thrVars
    <2>5. CASE Start(w)
        <3>1. PICK to : /\ Go(w, "start", to) /\ to \in {"back", "run"}
                        /\ UNCHANGED <<c_status, context_ptr, stack_pool, mapped>>
            BY <2>5 DEF Start
        <3> QED  BY <3>1, PoolsStay
    <2>6. CASE Finish(w)
        <3>1. PICK to : /\ Go(w, "run", to) /\ to \in {"notify", "recover"}
                        /\ UNCHANGED <<c_status, context_ptr, stack_pool, mapped>>
            BY <2>6 DEF Finish, thrVars
        <3> QED  BY <3>1, PoolsStay
    <2>20. CASE Notify(w)  BY <2>20, PoolsStay DEF Notify, thrVars
    <2>7. CASE Recover(w)
        <3>1. PICK to : /\ Go(w, "recover", to) /\ to \in {"loop", "start"}
                        /\ UNCHANGED <<c_status, context_ptr, stack_pool, mapped>>
            BY <2>7 DEF Recover, thrVars
        <3> QED  BY <3>1, PoolsStay
    <2>8. ASSUME NEW what, NewBackNode(w, what) PROVE Pools'
        <3>1. Go(w, "run", "edges") /\ UNCHANGED <<c_status, context_ptr, stack_pool, mapped>>
            BY <2>8 DEF NewBackNode, thrVars
        <3> QED  BY <3>1, PoolsStay
    <2>9. CASE \E nodes \in SUBSET Tasks : require_node(w, nodes)
        BY <2>8, <2>9 DEF require_node
    <2>10. CASE \E g \in Graphs : wait_graph(w, g)  BY <2>8, <2>10 DEF wait_graph
    <2>11. CASE CreateEdges(w)  BY <2>11, PoolsStay DEF CreateEdges, thrVars
    <2>12. CASE YieldTask(w)
        <3>1. /\ At(w, "yield") /\ c_pc[On(w)] \in Busy /\ c_pc[On(w)] \in Bound
              /\ get_stack(w)
            BY <2>12 DEF YieldTask, At, Busy, Bound, swap_new_context
        <3>2. PICK y \in Coroutines : y = NewContext /\ c_status[y] = "none"
            BY <3>1, FreeContext
        <3>3. PICK x \in Contexts : x = On(w) /\ Live(x) /\ x # w /\ c_status[x] = "Running"
            BY <3>1, Stack, Disjoint DEF At
        <3>4. back_run_context_ptr[c_back[x]] = x  BY <3>1, <3>3, MyBack
        <3>5. Leaves(w, x, y)
            <4>1. c_status' = [c_status EXCEPT ![y] = "Initing"]  BY <2>12, <3>2 DEF YieldTask
            <4>2. c_status' = [c_status EXCEPT ![x] = "Running", ![y] = "Initing"]
                BY <3>3, <4>1 DEF Types
            <4> QED  BY <2>12, <3>1, <3>2, <3>3, <3>4, <4>2 DEF Leaves, YieldTask,
                swap_new_context
        <3>6. /\ c_pc'[x] = "resumed" /\ c_pc'[y] = "enter" /\ c_status'[x] = "Running"
              /\ c_status'[y] = "Initing"
              /\ \A z \in Contexts : z # x /\ z # y =>
                    c_pc'[z] = c_pc[z] /\ c_status'[z] = c_status[z]
            BY <3>2, <3>3, <3>5, LeavesEffect
        <3>7. c_pc[w] # "joined"
            <4>1. c_pc[w] = "ended"  BY <3>1, Stack
            <4> QED  BY <4>1
        <3>8. \A v \in Workers : c_pc'[v] = "joined" => c_pc[v] = "joined"
            BY <3>6, Disjoint
        <3>9. \A z \in Coroutines : z # y => (c_status'[z] = "none" <=> c_status[z] = "none")
            BY <3>3, <3>6, Disjoint
        <3> QED  BY <3>1, <3>2, <3>6, <3>7, <3>8, <3>9, GetStack
    <2>13. CASE SwitchBack(w)
        <3>1. PICK x : /\ c_status[x] = "Yield" /\ c_status' = [c_status EXCEPT ![x] = "Running"]
                       /\ UNCHANGED <<c_pc, stack_pool, mapped>>
            BY <2>13 DEF SwitchBack, CanEnter
        <3>2. \A z \in Coroutines : c_status'[z] = "none" <=> c_status[z] = "none"
            BY <3>1, Disjoint DEF Types
        <3> QED  BY <3>1, <3>2, PoolsKept
    <2>14. CASE Resumed(w)
        <3>1. /\ c_pc[On(w)] = "resumed" /\ At(w, "resumed") /\ "resumed" \in Busy
              /\ c_pc' = [c_pc EXCEPT ![On(w)] = "run"]
              /\ c_status' = [c_status EXCEPT ![context_pre_ptr[w]] = "none"] /\ put_stack(w)
            BY <2>14 DEF Resumed, Go, At, Busy, delete_context
        <3>2. PICK y \in Coroutines : y = context_pre_ptr[w] /\ c_status[y] = "Running"
                                      /\ y \in Contexts
            <4>1. context_pre_ptr[w] # nullptr  BY <3>1, Stack
            <4>2. context_pre_ptr[w] \notin Workers  BY <3>1 DEF Holders, Behind, At
            <4>3. context_pre_ptr[w] \in Coroutines  BY <4>1, <4>2, Disjoint DEF Types
            <4> QED  BY <4>3, Disjoint DEF Holders, Behind
        <3>3. c_status'[y] = "none"
              /\ \A z \in Coroutines : z # y => (c_status'[z] = "none" <=> c_status[z] = "none")
            BY <3>1, <3>2, Disjoint DEF Types
        <3>4. c_pc[w] # "joined"
            <4>1. c_pc[w] = "ended"  BY <3>1, Stack
            <4> QED  BY <4>1
        <3>5. \A v \in Workers : c_pc'[v] = "joined" => c_pc[v] = "joined"
            BY <3>1, Disjoint DEF Types
        <3> QED  BY <3>1, <3>2, <3>3, <3>4, <3>5, PutStack
    <2> QED  BY <1>2, <2>1, <2>2, <2>3, <2>4, <2>5, <2>6, <2>7, <2>9, <2>10, <2>11, <2>12,
                <2>13, <2>14, <2>20 DEF do_schedule
<1>3. CASE init_work_thread \/ StopClient \/ clear_graph \/ SendFlags
    BY <1>3, PoolsKept DEF init_work_thread, StopClient, clear_graph, SendFlags, ctxVars,
       thrVars
<1>4. CASE \E w \in Workers : Join(w)  BY <1>4, JoinPools
<1>5. CASE \E R \in SUBSET Tasks : create_edges(R)
    BY <1>5, PoolsKept DEF create_edges, ctxVars, thrVars
<1> QED  BY <1>1, <1>2, <1>3, <1>4, <1>5 DEF Next, destroy

\* Thread::Thread has filled the pools.
LEMMA PoolsInit == Init => Pools /\ IdleExact
<1> SUFFICES ASSUME Init PROVE Pools /\ IdleExact
    OBVIOUS
<1>1. IsFiniteSet(Workers) /\ Cardinality(Workers) \in Nat
      /\ backup_coroutines \in Nat /\ capacity \in Nat /\ backup_coroutines <= capacity
    BY CoroutineAssumption, CapacityAssumption, FS_CardinalityType
<1>2. /\ stack_pool = [w \in Workers |-> backup_coroutines]
      /\ mapped = backup_coroutines * Cardinality(Workers)
      /\ \A w \in Workers : c_pc[w] = "routine" /\ On(w) = w
      /\ \A x \in Coroutines : c_status[x] = "none"
      /\ idle_worker_num = worker_num /\ m_pc # "done"
    BY Disjoint DEF Init, On
<1>3. IsFiniteSet(Pooled) /\ Cardinality(Pooled) = backup_coroutines * Cardinality(Workers)
    <2>1. PICK I : I = 1 .. backup_coroutines  OBVIOUS
    <2>2. IsFiniteSet(I) /\ Cardinality(I) = backup_coroutines
        <3>1. PICK b : b = backup_coroutines  OBVIOUS
        <3>2. 1 \in Int /\ b \in Int  BY <1>1, <3>1
        <3>3. IsFiniteSet(1 .. b) /\ Cardinality(1 .. b) = IF 1 > b THEN 0 ELSE b - 1 + 1
            BY <3>2, IntervalSize
        <3> QED  BY <1>1, <2>1, <3>1, <3>3
    <2>3. Pooled = Workers \X I
        <3>1. I \subseteq Nat  BY <1>1, <2>1
        <3>2. \A s : s \in Pooled <=> s \in Workers \X Nat /\ s[2] \in I
            BY <1>2, <2>1 DEF Pooled
        <3>3. \A s : s \in Workers \X I <=> s \in Workers \X Nat /\ s[2] \in I
            BY <3>1
        <3> QED  BY <3>2, <3>3
    <2>4. /\ IsFiniteSet(Workers \X I)
          /\ Cardinality(Workers \X I) = Cardinality(Workers) * Cardinality(I)
        BY <1>1, <2>2, FS_Product
    <2>5. Cardinality(Workers) * backup_coroutines = backup_coroutines * Cardinality(Workers)
        BY <1>1
    <2> QED  BY <2>2, <2>3, <2>4, <2>5
<1>4. Cardinality(LiveCoroutines) = 0
    <2>1. LiveCoroutines = {}  BY <1>2 DEF LiveCoroutines, Live
    <2> QED  BY <2>1, FS_EmptySet
<1>5. Pools
    <2>1. mapped = Cardinality(Pooled) + Cardinality(LiveCoroutines)
        <3>1. PICK m : m = mapped  OBVIOUS
        <3>2. mapped = Cardinality(Pooled) /\ Cardinality(Pooled) \in Nat
            BY <1>2, <1>3, FS_CardinalityType
        <3> QED  BY <1>4, <3>2
    <2>2. stack_pool \in [Workers -> 0 .. capacity]  BY <1>1, <1>2
    <2> QED  BY <1>2, <1>3, <2>1, <2>2 DEF Pools
<1>6. IdleExact
    <2>1. {w \in Workers : c_pc[On(w)] \in {"routine", "enter", "loop", "ended", "joined"}} = Workers
        BY <1>2
    <2>2. Cardinality(Workers) - (Cardinality(Workers) - worker_num) = worker_num
        BY <1>1, WorkerAssumption
    <2> QED  BY <1>2, <2>1, <2>2 DEF IdleExact
<1> QED  BY <1>5, <1>6

-----------------------------------------------------------------------------
(* Theorems *)

\* Each context that exists has one holder: a worker that stands on it, one
\* that has just left it, or the back node that will enter it; its code, its
\* task and the back node agree; every stack is in a pool or a context; and
\* idle_worker_num_ is right (executor.cpp, aspect.cpp, schedule.cpp).
THEOREM CoroutineInvariant == Spec => []CoroutineInv
<1>1. Init => CoroutineInv  BY ContextInit, PoolsInit DEF CoroutineInv
<1>2. CoroutineInv /\ [Next]_vars => CoroutineInv'
    BY ContextStep, PoolsInv, IdleInv DEF CoroutineInv
<1> QED  BY <1>1, <1>2, PTL DEF Spec

\* The type invariant; no pool takes more stacks than it has room for.
THEOREM TypeCorrect == Spec => []TypeOK
<1>1. CoroutineInv => TypeOK
    <2> SUFFICES ASSUME CoroutineInv PROVE TypeOK
        OBVIOUS
    <2>1. mapped \in Nat
        <3>1. Cardinality(Pooled) \in Nat /\ Cardinality(LiveCoroutines) \in Nat
            BY Finite DEF CoroutineInv
        <3> QED  BY <3>1 DEF CoroutineInv, Pools
    <2>2. idle_worker_num \in worker_num - Cardinality(Workers) .. worker_num
        <3>1. \/ idle_worker_num = 0
              \/ idle_worker_num = Cardinality(IdleWorkers) - (Cardinality(Workers) - worker_num)
            BY DEF CoroutineInv, IdleExact, IdleWorkers, Idle
        <3>2. IdleWorkers \subseteq Workers  BY DEF IdleWorkers
        <3>3. IsFiniteSet(IdleWorkers) /\ Cardinality(IdleWorkers) <= Cardinality(Workers)
            BY <3>2, CoroutineAssumption, FS_Subset
        <3>4. Cardinality(IdleWorkers) \in Nat /\ Cardinality(Workers) \in Nat
            BY <3>3, CoroutineAssumption, FS_CardinalityType
        <3>5. worker_num \in Nat /\ worker_num <= Cardinality(Workers)
            BY <3>4, AtLeastAsked
        <3> QED  BY <3>1, <3>3, <3>4, <3>5
    <2>3. stack_pool \in [Workers -> 0 .. capacity]  BY DEF CoroutineInv, Pools
    <2>4. flags \in 0 .. 2 * Cardinality(Workers)  BY DEF CoroutineInv, ContextInv, Main
    <2>5. Types  BY DEF CoroutineInv, ContextInv
    <2> QED  BY <2>1, <2>2, <2>3, <2>4, <2>5 DEF Types, TypeOK
<1> QED  BY <1>1, CoroutineInvariant, PTL

\* No stack has two threads, a context that may be entered has been left, and
\* none is deleted while a worker stands on it or a back node is to enter it.
THEOREM StacksAreExclusive == Spec => []StackExclusive
<1>1. CoroutineInv => StackExclusive
    <2> SUFFICES ASSUME ContextInv PROVE StackExclusive
        BY DEF CoroutineInv
    <2> USE DEF ContextInv
    <2>1. \A v, w \in Workers : v # w => On(v) # On(w)  BY DEF Holders, OneHolder
    <2>2. \A w \in Workers : context_ptr[w] \in Coroutines =>
             c_status[context_ptr[w]] # "none" /\ c_status[context_ptr[w]] # "Yield"
        BY DEF Holders, Standing
    <2>3. \A b \in BackNodes : back_run_context_ptr[b] # nullptr =>
             c_status[back_run_context_ptr[b]] # "none"
        <3> SUFFICES ASSUME NEW b \in BackNodes, back_run_context_ptr[b] # nullptr
                     PROVE  Live(back_run_context_ptr[b])
            BY DEF Live
        <3>1. PICK x \in Contexts : x = back_run_context_ptr[b] /\ c_back[x] = b
            BY Disjoint DEF Tidy, Bonds
        <3>2. b # nullptr  BY Disjoint
        <3> QED  BY <3>1, <3>2 DEF Tidy, Locals
    <2> QED  BY <2>1, <2>2, <2>3 DEF StackExclusive
<1> QED  BY <1>1, CoroutineInvariant, PTL

\* Whatever worker it was moved to, code finds the node it works for in the
\* state the assertions of schedule.cpp:214, 223 and node.cpp:99, 121 ask
\* for, and its back node has not been freed.
THEOREM WorkersRunTheirTasks == Spec => []RunsItsTask
<1>1. CoroutineInv => RunsItsTask
    <2> SUFFICES ASSUME ContextInv, NEW w \in Workers, NEW n, n = c_task[On(w)],
                        NEW b, b = c_back[On(w)]
                 PROVE  /\ At(w, "start") => status[n] = "Initing"
                        /\ c_pc[On(w)] \in {"run", "edges", "yield"} =>
                              status[n] = "Running" /\ current_task[w] = n
                        /\ c_pc[On(w)] \in {"edges", "yield"} => Alive(b)
                        /\ At(w, "resumed") =>
                              status[n] = "Yield" /\ current_task[w] = n /\ status[b] = "Recoverable"
                        /\ At(w, "back") => status[n] = "Recoverable" /\ back_task[n] # nullptr
                        /\ c_pc[On(w)] \in {"notify", "recover"} => status[n] = "Finish"
        BY DEF CoroutineInv, RunsItsTask
    <2> USE DEF ContextInv
    <2>1. /\ StateAt("start") = "Initing" /\ StateAt("run") = "Running"
          /\ StateAt("edges") = "Running" /\ StateAt("yield") = "Running"
          /\ StateAt("resumed") = "Yield" /\ StateAt("recover") = "Finish"
          /\ StateAt("notify") = "Finish" /\ StateAt("back") = "Recoverable"
        BY DEF StateAt
    <2>2. c_pc[On(w)] \in Busy => status[n] = StateAt(c_pc[On(w)])  BY Mine
    <2>3. At(w, "start") => status[n] = "Initing"  BY <2>1, <2>2 DEF At, Busy
    <2>4. c_pc[On(w)] \in {"notify", "recover"} => status[n] = "Finish"
        BY <2>1, <2>2 DEF Busy
    <2>5. c_pc[On(w)] \in {"run", "edges", "yield"} =>
             status[n] = "Running" /\ current_task[w] = n
        BY <2>1, <2>2 DEF Busy, Tidy, Current
    <2>6. c_pc[On(w)] \in {"edges", "yield"} => Alive(b)
        <3> SUFFICES ASSUME c_pc[On(w)] \in {"edges", "yield"} PROVE Alive(b)
            OBVIOUS
        <3>1. c_pc[On(w)] \in Busy /\ c_pc[On(w)] \in Bound  BY DEF Busy, Bound
        <3>2. On(w) \in Contexts /\ Live(On(w))  BY <3>1, Stack
        <3>3. status[b] \in {"Initing", "Recoverable"}  BY <3>1, <3>2, MyBack
        <3> QED  BY <3>3 DEF Alive
    <2>7. ASSUME At(w, "resumed")
          PROVE  status[n] = "Yield" /\ current_task[w] = n /\ status[b] = "Recoverable"
        <3>1. c_pc[On(w)] = "resumed" /\ "resumed" \in Busy  BY <2>7 DEF At, Busy
        <3>2. context_ptr[w] # w /\ context_pre_ptr[w] # nullptr  BY <2>7, <3>1, Stack
        <3>3. context_pre_ptr[w] \in Coroutines
            BY <2>7, <3>1, <3>2, Disjoint DEF Holders, Behind, Types, At
        <3>4. PICK p \in Contexts : p = context_pre_ptr[w]  BY <3>3, Disjoint
        <3>5. ~At(w, "enter")  BY <3>1 DEF At
        <3>6. c_pc[p] = "back" /\ c_task[p] = b
            BY <2>7, <3>2, <3>3, <3>4, <3>5 DEF Holders, Behind
        <3>7. On(w) \in Contexts /\ Live(On(w)) /\ c_pc[On(w)] \in Bound
            BY <3>1, Stack DEF Bound
        <3>8. b # nullptr  BY <3>7, MyBack
        <3>9. status[b] = "Recoverable"  BY <2>1, <3>4, <3>6, <3>8 DEF Tidy, States
        <3> QED  BY <2>1, <2>2, <3>1, <3>9 DEF Tidy, Current
    <2>8. ASSUME At(w, "back") PROVE status[n] = "Recoverable" /\ back_task[n] # nullptr
        <3>1. c_pc[On(w)] = "back" /\ "back" \in Busy  BY <2>8 DEF At, Busy
        <3>2. status[n] = "Recoverable" /\ n \in BackNodes  BY <2>1, <2>2, <2>8, <3>1, Mine
        <3>3. PICK x \in Contexts : c_back[x] = n /\ back_task[n] = c_task[x]
            BY <3>2, Disjoint DEF Tidy, Bonds
        <3>4. n # nullptr  BY <3>2, Disjoint
        <3>5. Live(x) /\ c_pc[x] \in Busy  BY <3>3, <3>4, Taskless DEF Tidy, Locals
        <3> QED  BY <3>2, <3>3, <3>5 DEF Tidy, Locals
    <2> QED  BY <2>3, <2>4, <2>5, <2>6, <2>7, <2>8
<1> QED  BY <1>1, CoroutineInvariant, PTL

\* idle_worker_num_ moves with the number of workers that run no task, although
\* a task that waits and one that goes on change it for different workers; it is
\* below it by the threads that init adds to those it was asked for.
THEOREM IdleIsExact == Spec => []IdleExact
<1>1. CoroutineInv => IdleExact  BY DEF CoroutineInv
<1> QED  BY <1>1, CoroutineInvariant, PTL

\* When destroy() has returned every context is deleted, every stack has gone
\* back to the system, and no node is left.
THEOREM NothingIsLeaked == Spec => []NothingLeaked
<1>1. CoroutineInv => NothingLeaked
    <2> SUFFICES ASSUME CoroutineInv, m_pc = "done"
                 PROVE  /\ mapped = 0
                        /\ \A x \in Contexts : c_status[x] = "none"
                        /\ pending_worker_num = 0 /\ queue = {}
        BY DEF NothingLeaked
    <2> USE DEF CoroutineInv, ContextInv
    <2>1. /\ \A w \in Workers : c_pc[w] = "joined"
          /\ \A n \in Nodes : ~Alive(n)
        BY DEF Main
    <2>2. \A w \in Workers : context_ptr[w] = nullptr /\ context_pre_ptr[w] = nullptr
                             /\ c_status[w] = "none"
        BY <2>1 DEF Holders, OwnContext
    <2>3. \A x \in Coroutines : c_status[x] = "none"
        <3> SUFFICES ASSUME NEW x \in Coroutines, c_status[x] # "none" PROVE FALSE
            OBVIOUS
        <3>1. c_status[x] = "Yield" /\ c_pc[x] = "resumed" /\ x \in Contexts
            BY <2>2, Disjoint DEF Holders, Suspended
        <3>2. c_task[x] # nullptr  BY <3>1 DEF Tidy, Locals, Live, Busy
        <3>3. c_task[x] \in Nodes  BY <3>1, <3>2 DEF Types
        <3>4. StateAt("resumed") = "Yield"  BY DEF StateAt
        <3>5. status[c_task[x]] = "Yield"  BY <3>1, <3>2, <3>4 DEF Tidy, States
        <3> QED  BY <2>1, <3>3, <3>5 DEF Alive
    <2>4. mapped = 0
        <3>1. LiveCoroutines = {}  BY <2>3 DEF LiveCoroutines, Live
        <3>2. Pooled = {}
            <4>1. \A w \in Workers : stack_pool[w] = 0  BY <2>1 DEF Pools
            <4> QED  BY <4>1 DEF Pooled
        <3>3. Cardinality(Pooled) = 0 /\ Cardinality(LiveCoroutines) = 0
            BY <3>1, <3>2, FS_EmptySet
        <3> QED  BY <3>3 DEF Pools
    <2>5. queue = {}  BY <2>1 DEF Tidy, States, Types, Alive
    <2>6. pending_worker_num = 0
        <3>1. {n \in Nodes : Alive(n)} = {}  BY <2>1
        <3> QED  BY <3>1, FS_EmptySet DEF pending_worker_num
    <2> QED  BY <2>2, <2>3, <2>4, <2>5, <2>6, Disjoint
<1> QED  BY <1>1, CoroutineInvariant, PTL
-----------------------------------------------------------------------------
(***************************************************************************)
(* Coroutine implements TaskLife: to its tasks require_node is a blocking  *)
(* call, and wait_graph one that returns when its graph is notified.       *)
(*                                                                         *)
(* The invariant has one thing to be added: a task that runs is the task   *)
(* of a context.  Such a context has a worker that stands on it, and no    *)
(* other task, so running tasks are counted by workers: the one that       *)
(* starts a task, or lets one go on, was free.                             *)
(***************************************************************************)

Over == {"Finish", "Recoverable", "Destroy"}

\* Between create_edges and the switch to the new context.
Yielding(n) == \E x \in Contexts : c_task[x] = n /\ c_pc[x] = "yield"

\* Between the count of a graph's nodes and the notifications.
Notifying(n) == \E x \in Contexts : c_task[x] = n /\ c_pc[x] = "notify"

\* Node::status is never Ready for longer than a step.
Working == \A n \in Tasks :
    /\ status[n] # "Ready"
    /\ status[n] = "Running" => \E x \in Contexts : c_task[x] = n

LifeInv == ContextInv /\ Working

-----------------------------------------------------------------------------
(* What TaskLife sees *)

\* A context whose task runs has a worker.
LEMMA HasWorker ==
    ASSUME ContextInv, NEW x \in Contexts, c_task[x] # nullptr,
           c_pc[x] \in {"run", "edges", "yield", "notify"}
    PROVE  \E w \in Workers : On(w) = x
<1>1. Live(x) /\ x \in Coroutines
    <2>1. Live(x)  BY DEF ContextInv, Tidy, Locals
    <2>2. x \notin Workers  BY DEF ContextInv, Holders, OwnContext
    <2> QED  BY <2>1, <2>2, Disjoint
<1>2. \E w \in Workers : context_ptr[w] = x \/ context_pre_ptr[w] = x
    BY <1>1 DEF ContextInv, Holders, Suspended, Live
<1>3. PICK w \in Workers : context_ptr[w] = x \/ context_pre_ptr[w] = x  BY <1>2
<1>4. context_pre_ptr[w] # x  BY <1>1 DEF ContextInv, Holders, Behind
<1> QED  BY <1>1, <1>3, <1>4, Disjoint DEF On

\* A task that yields, seen from the workers or from the contexts.
LEMMA YieldingWorker ==
    ASSUME ContextInv, NEW n \in Tasks
    PROVE  Yielding(n) <=> \E w \in Workers : At(w, "yield") /\ c_task[On(w)] = n
<1>1. ASSUME Yielding(n) PROVE \E w \in Workers : At(w, "yield") /\ c_task[On(w)] = n
    <2>1. PICK x \in Contexts : c_task[x] = n /\ c_pc[x] = "yield"  BY <1>1 DEF Yielding
    <2>2. c_task[x] # nullptr  BY <2>1, Disjoint
    <2>3. PICK w \in Workers : On(w) = x  BY <2>1, <2>2, HasWorker
    <2> QED  BY <2>1, <2>3 DEF At
<1>2. ASSUME NEW w \in Workers, At(w, "yield"), c_task[On(w)] = n PROVE Yielding(n)
    <2>1. On(w) \in Contexts  BY <1>2, Stack DEF At, Busy, ContextInv
    <2> QED  BY <1>2, <2>1 DEF At, Yielding
<1> QED  BY <1>1, <1>2

\* So a task whose graph is to be notified.
LEMMA NotifyingWorker ==
    ASSUME ContextInv, NEW n \in Tasks
    PROVE  Notifying(n) <=> \E w \in Workers : At(w, "notify") /\ c_task[On(w)] = n
<1>1. ASSUME Notifying(n) PROVE \E w \in Workers : At(w, "notify") /\ c_task[On(w)] = n
    <2>1. PICK x \in Contexts : c_task[x] = n /\ c_pc[x] = "notify"  BY <1>1 DEF Notifying
    <2>2. c_task[x] # nullptr  BY <2>1, Disjoint
    <2>3. PICK w \in Workers : On(w) = x  BY <2>1, <2>2, HasWorker
    <2> QED  BY <2>1, <2>3 DEF At
<1>2. ASSUME NEW w \in Workers, At(w, "notify"), c_task[On(w)] = n PROVE Notifying(n)
    <2>1. On(w) \in Contexts  BY <1>2, Stack DEF At, Busy, ContextInv
    <2> QED  BY <1>2, <2>1 DEF At, Notifying
<1> QED  BY <1>1, <1>2

\* The life of a task, by the state of its node.
LifeSeen == \A n \in Tasks :
    /\ status[n] \in {"none", "Initing", "Running", "Yield"} \cup Over
    /\ life[n] = "none" <=> status[n] = "none"
    /\ life[n] = "ready" <=> status[n] = "Initing"
    /\ life[n] = "ended" <=> status[n] \in Over
    /\ life[n] = "waiting" <=> status[n] = "Yield" \/ (status[n] = "Running" /\ Yielding(n))
    /\ life[n] = "running" <=> status[n] = "Running" /\ ~Yielding(n)

\* What a task needs, element by element.
NeedsSeen == \A n \in Tasks : \A z :
    z \in needs[n] <=> \/ z \in waits[n]
                       \/ \E b \in BackNodes : back_task[b] = n /\ z \in waits[b]

\* Which tasks have a graph to notify, element by element.
NotifyingSeen == \A z : z \in notifying <=> z \in Tasks /\ Notifying(z)

\* The CASE of life, decided by the state of the node.
LEMMA Life == LifeInv => LifeSeen
<1> SUFFICES ASSUME LifeInv, NEW n \in Tasks
             PROVE  /\ status[n] \in {"none", "Initing", "Running", "Yield"} \cup Over
                    /\ life[n] = "none" <=> status[n] = "none"
                    /\ life[n] = "ready" <=> status[n] = "Initing"
                    /\ life[n] = "ended" <=> status[n] \in Over
                    /\ life[n] = "waiting" <=>
                          status[n] = "Yield" \/ (status[n] = "Running" /\ Yielding(n))
                    /\ life[n] = "running" <=> status[n] = "Running" /\ ~Yielding(n)
    BY DEF LifeSeen
<1>1. status[n] \in {"none", "Initing", "Running", "Yield"} \cup Over
    <2>1. status[n] \in Statuses /\ status[n] # "Ready"
        BY Disjoint DEF LifeInv, ContextInv, Types, Working
    <2> QED  BY <2>1 DEF Statuses, Over
<1>2. life[n] = CASE status[n] = "none" -> "none"
                  [] status[n] = "Initing" -> "ready"
                  [] status[n] \in {"Finish", "Recoverable", "Destroy"} -> "ended"
                  [] status[n] = "Yield" \/ Yielding(n) -> "waiting"
                  [] OTHER -> "running"
    BY YieldingWorker DEF life, LifeInv
<1>3. Yielding(n) => status[n] = "Running"
    <2> SUFFICES ASSUME NEW x \in Contexts, c_task[x] = n, c_pc[x] = "yield"
                 PROVE  status[n] = "Running"
        BY DEF Yielding
    <2> QED  BY Disjoint DEF LifeInv, ContextInv, Tidy, States, StateAt
<1>4. CASE status[n] \in {"none", "Initing"} \cup Over  BY <1>2, <1>3, <1>4 DEF Over
<1>5. CASE status[n] = "Yield"  BY <1>2, <1>5 DEF Over
<1>6. CASE status[n] = "Running"
    <2>1. CASE Yielding(n)
        <3>1. life[n] = "waiting"
            BY <1>2, <1>6, <2>1
        <3> QED  BY <1>6, <2>1, <3>1 DEF Over
    <2>2. CASE ~Yielding(n)
        <3>1. life[n] = "running"  BY <1>2, <1>6, <2>2
        <3> QED  BY <1>6, <2>2, <3>1 DEF Over
    <2> QED  BY <2>1, <2>2
<1> QED  BY <1>1, <1>4, <1>5, <1>6

\* A task needs what it waits for, and what its BackNodes wait for.
LEMMA Needs == NeedsSeen
BY DEF NeedsSeen, needs

\* The tasks that notify are those of contexts.
LEMMA Notifiers == LifeInv => NotifyingSeen
BY NotifyingWorker DEF NotifyingSeen, notifying, LifeInv

\* The views of the state hold after a step as well.
LEMMA SeenNext == (LifeInv' => LifeSeen' /\ NotifyingSeen') /\ NeedsSeen'
BY Life, Needs, Notifiers, PTL

-----------------------------------------------------------------------------
(* Steps TaskLife does not see *)

LifeKept(n) ==
    \/ status'[n] = status[n] /\ (status[n] = "Running" => (Yielding(n)' <=> Yielding(n)))
    \/ status[n] \in Over /\ status'[n] \in Over
    \/ status[n] = "Running" /\ Yielding(n) /\ status'[n] = "Yield"

\* The contexts with a task at a place of the code are the same.
SameAt(place) == \A x \in Contexts :
    \/ c_pc'[x] = c_pc[x] /\ c_task'[x] = c_task[x]
    \/ /\ c_pc[x] # place \/ c_task[x] = nullptr
       /\ c_pc'[x] # place \/ c_task'[x] = nullptr

SameYields == SameAt("yield")
SamePlaces == SameYields /\ SameAt("notify")

FewerRun == \A n \in Tasks :
    status'[n] # "Ready" /\ (status'[n] = "Running" => status[n] = "Running")

KeepTask == \A x \in Contexts :
    c_task[x] \in Tasks => c_task'[x] = c_task[x] \/ status'[c_task[x]] # "Running"

SameNeeds == /\ waits' = waits
             /\ \A b \in BackNodes : waits[b] # {} => back_task'[b] = back_task[b]

Quiet ==
    /\ FewerRun /\ KeepTask /\ SameNeeds
    /\ \A n \in Tasks : LifeKept(n)
    /\ \A n \in Tasks : Notifying(n)' <=> Notifying(n)

\* Yielding depends on the contexts at "yield" alone.
LEMMA YieldsKept ==
    ASSUME SameYields, NEW n \in Tasks
    PROVE  Yielding(n)' <=> Yielding(n)
BY Disjoint DEF SameYields, SameAt, Yielding

\* Notifying depends on those at "notify".
LEMMA NotifiesKept ==
    ASSUME SamePlaces, NEW n \in Tasks
    PROVE  Notifying(n)' <=> Notifying(n)
BY Disjoint DEF SamePlaces, SameAt, Notifying

\* The nodes keep their states.
LEMMA QuietNodes ==
    ASSUME LifeInv, SamePlaces, SameNeeds, KeepTask, \A n \in Tasks : status'[n] = status[n]
    PROVE  Quiet
<1>1. \A n \in Tasks : LifeKept(n)  BY YieldsKept DEF LifeKept, SamePlaces
<1>2. FewerRun  BY DEF FewerRun, LifeInv, Working
<1>3. \A n \in Tasks : Notifying(n)' <=> Notifying(n)  BY NotifiesKept
<1> QED  BY <1>1, <1>2, <1>3 DEF Quiet

\* A running task keeps its context.
LEMMA QuietWorking ==
    ASSUME LifeInv, FewerRun, KeepTask
    PROVE  Working'
<1> SUFFICES ASSUME NEW n \in Tasks, status'[n] = "Running"
             PROVE  \E x \in Contexts : c_task'[x] = n
    BY DEF Working, FewerRun
<1>1. PICK x \in Contexts : c_task[x] = n  BY DEF LifeInv, Working, FewerRun
<1> QED  BY <1>1 DEF KeepTask

\* Life and needs are functions of tasks.
OfTasks ==
    /\ life = [n \in Tasks |-> life[n]] /\ needs = [n \in Tasks |-> needs[n]]
    /\ DOMAIN life = Tasks /\ DOMAIN needs = Tasks

\* The life and the needs of the tasks are functions.
LEMMA Functions == OfTasks
BY DEF OfTasks, life, needs

\* They are functions after a step as well.
LEMMA FunctionsNext == OfTasks'
BY Functions, PTL

\* The life of one task.
LEMMA LifeSame ==
    ASSUME LifeSeen, LifeSeen', NEW n \in Tasks, LifeKept(n)
    PROVE  life'[n] = life[n]
<1>1. /\ status[n] \in {"none", "Initing", "Running", "Yield"} \cup Over
      /\ life[n] = "none" <=> status[n] = "none"
      /\ life[n] = "ready" <=> status[n] = "Initing"
      /\ life[n] = "ended" <=> status[n] \in Over
      /\ life[n] = "waiting" <=> status[n] = "Yield" \/ (status[n] = "Running" /\ Yielding(n))
      /\ life[n] = "running" <=> status[n] = "Running" /\ ~Yielding(n)
    BY DEF LifeSeen
<1>2. /\ status'[n] \in {"none", "Initing", "Running", "Yield"} \cup Over
      /\ life'[n] = "none" <=> status'[n] = "none"
      /\ life'[n] = "ready" <=> status'[n] = "Initing"
      /\ life'[n] = "ended" <=> status'[n] \in Over
      /\ life'[n] = "waiting" <=>
            status'[n] = "Yield" \/ (status'[n] = "Running" /\ Yielding(n)')
      /\ life'[n] = "running" <=> status'[n] = "Running" /\ ~Yielding(n)'
    BY DEF LifeSeen
<1>3. "Running" \notin Over /\ "Yield" \notin Over /\ "none" \notin Over /\ "Initing" \notin Over
    BY DEF Over
<1>4. CASE status[n] = "Running"  BY <1>1, <1>2, <1>3, <1>4 DEF LifeKept
<1>5. CASE status[n] \in Over  BY <1>1, <1>2, <1>3, <1>5 DEF LifeKept
<1>6. CASE status[n] \in {"none", "Initing", "Yield"}
    <2>1. status'[n] = status[n]  BY <1>3, <1>6 DEF LifeKept
    <2> QED  BY <1>1, <1>2, <1>6, <2>1
<1> QED  BY <1>1, <1>4, <1>5, <1>6

\* What it needs.
LEMMA NeedsSame ==
    ASSUME SameNeeds
    PROVE  needs' = needs
<1>1. \A n \in Tasks : \A z :
        z \in needs[n] <=> \/ z \in waits[n]
                           \/ \E b \in BackNodes : back_task[b] = n /\ z \in waits[b]
    BY Needs DEF NeedsSeen
<1>2. \A n \in Tasks : \A z :
        z \in needs'[n] <=> \/ z \in waits'[n]
                            \/ \E b \in BackNodes : back_task'[b] = n /\ z \in waits'[b]
    BY SeenNext DEF NeedsSeen
<1>3. ASSUME NEW n \in Tasks PROVE needs'[n] = needs[n]
    <2>1. ASSUME NEW z PROVE z \in needs'[n] <=> z \in needs[n]
        BY <1>1, <1>2 DEF SameNeeds
    <2>2. /\ needs[n] = waits[n] \cup UNION {waits[b] : b \in {k \in BackNodes : back_task[k] = n}}
          /\ needs'[n] = waits'[n] \cup
                UNION {waits'[b] : b \in {k \in BackNodes : back_task'[k] = n}}
        BY DEF needs
    <2> QED  BY <2>1, <2>2
<1> QED  BY <1>3, Functions, FunctionsNext DEF OfTasks

\* Who has to notify.
LEMMA NotifyingSame ==
    ASSUME LifeInv, ContextInv', Working', \A n \in Tasks : Notifying(n)' <=> Notifying(n)
    PROVE  notifying' = notifying
<1>1. \A z : z \in notifying <=> z \in Tasks /\ Notifying(z)  BY Notifiers DEF NotifyingSeen
<1>2. \A z : z \in notifying' <=> z \in Tasks /\ Notifying(z)'
    BY SeenNext DEF NotifyingSeen, LifeInv
<1>3. \A z : z \in notifying' <=> z \in notifying  BY <1>1, <1>2
<1>4. notifying' \subseteq Tasks /\ notifying \subseteq Tasks  BY <1>1, <1>2
<1> QED  BY <1>3, <1>4

\* TaskLife stutters.
LEMMA QuietStep ==
    ASSUME LifeInv, ContextInv', Quiet
    PROVE  Working' /\ UNCHANGED <<life, needs, notifying>>
<1>1. Working'  BY QuietWorking DEF Quiet
<1>2. LifeSeen /\ LifeSeen'  BY <1>1, Life, SeenNext DEF LifeInv
<1>3. \A n \in Tasks : life'[n] = life[n]  BY <1>2, LifeSame DEF Quiet
<1>4. life' = life  BY <1>3, Functions, FunctionsNext DEF OfTasks
<1>5. notifying' = notifying  BY <1>1, NotifyingSame DEF Quiet
<1> QED  BY <1>1, <1>4, <1>5, NeedsSame DEF Quiet

\* Steps that leave contexts and nodes as they are.
LEMMA StillQuiet ==
    ASSUME LifeInv, UNCHANGED <<c_pc, c_task, status, waits, back_task>>
    PROVE  Quiet
<1>1. SamePlaces /\ KeepTask  BY DEF SamePlaces, SameYields, SameAt, KeepTask
<1>2. SameNeeds  BY DEF SameNeeds
<1>3. \A n \in Tasks : status'[n] = status[n]  OBVIOUS
<1> QED  BY <1>1, <1>2, <1>3, QuietNodes

\* A worker leaves its thread_context.
LEMMA RoutineQuiet ==
    ASSUME LifeInv, NEW w \in Workers, routine(w)
    PROVE  Quiet
<1> USE DEF LifeInv, ContextInv
<1>1. At(w, "routine")  BY DEF routine
<1>2. PICK y \in Coroutines : y = NewContext /\ c_status[y] = "none"  BY <1>1, FreeContext
<1>3. On(w) = w /\ w \in Contexts /\ c_pc[w] = "routine"
    BY <1>1, Disjoint DEF Holders, OwnContext, Standing, On, At, Busy
<1>4. c_task[y] = nullptr /\ y \in Contexts  BY <1>2, Unheld
<1>5. /\ c_pc' = [c_pc EXCEPT ![w] = "ended", ![y] = "enter"]
      /\ UNCHANGED <<c_task, nodeVars>>
    BY <1>2 DEF routine, swap_new_context
<1>6. SamePlaces
    BY <1>3, <1>4, <1>5 DEF SamePlaces, SameYields, SameAt, Types
<1>7. KeepTask /\ SameNeeds /\ \A n \in Tasks : status'[n] = status[n]
    BY <1>5 DEF KeepTask, SameNeeds, nodeVars
<1> QED  BY <1>6, <1>7, QuietNodes

\* The context that was left may be entered.
LEMMA ChangeContextStatusQuiet ==
    ASSUME LifeInv, NEW w \in Workers, change_context_status(w)
    PROVE  Quiet
<1> USE DEF LifeInv, ContextInv
<1>1. c_pc[On(w)] = "enter" /\ c_pc' = [c_pc EXCEPT ![On(w)] = "loop"]
      /\ UNCHANGED <<c_task, nodeVars>>
    BY DEF change_context_status, Go, At
<1>2. SamePlaces  BY <1>1 DEF SamePlaces, SameYields, SameAt, Types
<1>3. KeepTask /\ SameNeeds /\ \A n \in Tasks : status'[n] = status[n]
    BY <1>1 DEF KeepTask, SameNeeds, nodeVars
<1> QED  BY <1>2, <1>3, QuietNodes

\* A node is taken from the queue.
LEMMA DequeueQuiet ==
    ASSUME LifeInv, NEW w \in Workers, NEW n \in Nodes, Dequeue(w, n)
    PROVE  Quiet
<1> USE DEF LifeInv, ContextInv
<1>1. /\ At(w, "loop") /\ c_pc' = [c_pc EXCEPT ![On(w)] = "start"]
      /\ c_task' = [c_task EXCEPT ![On(w)] = n] /\ UNCHANGED nodeVars
    BY DEF Dequeue, Go
<1>2. c_task[On(w)] = nullptr /\ On(w) \in Contexts  BY <1>1, NoTask
<1>3. SamePlaces  BY <1>1, <1>2 DEF SamePlaces, SameYields, SameAt, Types
<1>4. KeepTask  BY <1>1, <1>2, Disjoint DEF KeepTask, Types
<1>5. SameNeeds /\ \A m \in Tasks : status'[m] = status[m]
    BY <1>1 DEF SameNeeds, nodeVars
<1> QED  BY <1>3, <1>4, <1>5, QuietNodes

\* A back node starts.
LEMMA StartQuiet ==
    ASSUME LifeInv, NEW w \in Workers, Start(w), c_task[On(w)] \in BackNodes
    PROVE  Quiet
<1> USE DEF LifeInv, ContextInv
<1>1. /\ c_pc[On(w)] = "start" /\ c_pc' = [c_pc EXCEPT ![On(w)] = "back"]
      /\ status' = [status EXCEPT ![c_task[On(w)]] = "Recoverable"]
      /\ UNCHANGED <<c_task, waits, back_task>>
    BY DEF Start, Go, At
<1>2. SamePlaces  BY <1>1 DEF SamePlaces, SameYields, SameAt, Types
<1>3. KeepTask /\ SameNeeds  BY <1>1 DEF KeepTask, SameNeeds
<1>4. \A n \in Tasks : status'[n] = status[n]  BY <1>1, Disjoint DEF Types
<1> QED  BY <1>2, <1>3, <1>4, QuietNodes

\* A task's node becomes Recoverable, and the next task is taken.
LEMMA RecoverQuiet ==
    ASSUME LifeInv, NEW w \in Workers, Recover(w)
    PROVE  Quiet
<1> USE DEF LifeInv, ContextInv
<1>1. c_pc[On(w)] = "recover" /\ "recover" \in Busy /\ On(w) \in Contexts
    <2>1. c_pc[On(w)] = "recover" /\ "recover" \in Busy  BY DEF Recover, Go, At, Busy
    <2> QED  BY <2>1, Stack
<1>2. PICK n \in Tasks : n = c_task[On(w)] /\ status[n] = "Finish"
    BY <1>1, Mine DEF StateAt
<1>3. PICK next :
          /\ \E to \in {"loop", "start"} : c_pc' = [c_pc EXCEPT ![On(w)] = to]
          /\ c_task' = [c_task EXCEPT ![On(w)] = next]
          /\ status' = [status EXCEPT ![n] = "Recoverable"]
          /\ UNCHANGED <<waits, back_task>>
    BY <1>2 DEF Recover, Go
<1>4. SamePlaces  BY <1>1, <1>3 DEF SamePlaces, SameYields, SameAt, Types
<1>5. status'[n] = "Recoverable" /\ \A m \in Tasks : m # n => status'[m] = status[m]
    BY <1>2, <1>3, Disjoint DEF Types
<1>6. \A m \in Tasks : LifeKept(m)
    <2>1. LifeKept(n)  BY <1>2, <1>5 DEF LifeKept, Over
    <2>2. \A m \in Tasks : m # n => LifeKept(m)
        BY <1>4, <1>5, YieldsKept DEF LifeKept, SamePlaces
    <2> QED  BY <2>1, <2>2
<1>7. FewerRun  BY <1>2, <1>5 DEF FewerRun, Working
<1>8. KeepTask  BY <1>1, <1>2, <1>3, <1>5 DEF KeepTask, Types
<1>9. SameNeeds  BY <1>3 DEF SameNeeds
<1>10. \A m \in Tasks : Notifying(m)' <=> Notifying(m)  BY <1>4, NotifiesKept
<1> QED  BY <1>6, <1>7, <1>8, <1>9, <1>10 DEF Quiet

\* A back node is made; it waits for nothing yet.
LEMMA NewBackNodeQuiet ==
    ASSUME LifeInv, NEW w \in Workers, NEW what, NewBackNode(w, what)
    PROVE  Quiet
<1> USE DEF LifeInv, ContextInv
<1>1. PICK b \in BackNodes :
          /\ status[b] = "none" /\ c_pc[On(w)] = "run"
          /\ c_pc' = [c_pc EXCEPT ![On(w)] = "edges"]
          /\ status' = [status EXCEPT ![b] = "Initing"]
          /\ back_task' = [back_task EXCEPT ![b] = current_task[w]]
          /\ UNCHANGED <<c_task, waits>>
    BY DEF NewBackNode, Go, At
<1>2. waits[b] = {}  BY <1>1, FreshNode
<1>3. SamePlaces  BY <1>1 DEF SamePlaces, SameYields, SameAt, Types
<1>4. KeepTask  BY <1>1 DEF KeepTask
<1>5. SameNeeds  BY <1>1, <1>2 DEF SameNeeds, Types
<1>6. \A n \in Tasks : status'[n] = status[n]  BY <1>1, Disjoint DEF Types
<1> QED  BY <1>3, <1>4, <1>5, <1>6, QuietNodes

\* The task's node says that it waits, which TaskLife knows already.
LEMMA YieldTaskQuiet ==
    ASSUME LifeInv, NEW w \in Workers, YieldTask(w)
    PROVE  Quiet
<1> USE DEF LifeInv, ContextInv
<1>1. /\ At(w, "yield") /\ c_pc[On(w)] = "yield" /\ c_pc[On(w)] \in Busy
      /\ c_pc[On(w)] \in Bound
    BY DEF YieldTask, At, Busy, Bound
<1>2. PICK y \in Coroutines : y = NewContext /\ c_status[y] = "none"  BY <1>1, FreeContext
<1>3. PICK x \in Contexts : x = On(w) /\ Live(x)  BY <1>1, Stack
<1>4. PICK n \in Tasks : /\ n = c_task[x] /\ status[n] = "Running"
                         /\ \A z \in Contexts : z # x => c_task[z] # n
    BY <1>1, <1>3, Mine DEF StateAt
<1>5. back_run_context_ptr[c_back[x]] = x  BY <1>1, <1>3, MyBack
<1>6. c_task[y] = nullptr /\ y \in Contexts  BY <1>2, Unheld
<1>7. /\ c_pc' = [c_pc EXCEPT ![x] = "resumed", ![y] = "enter"]
      /\ status' = [status EXCEPT ![n] = "Yield"]
      /\ UNCHANGED <<c_task, waits, back_task>>
    BY <1>2, <1>3, <1>4, <1>5 DEF YieldTask, swap_new_context
<1>8. status'[n] = "Yield" /\ \A m \in Tasks : m # n => status'[m] = status[m]
    BY <1>4, <1>7, Disjoint DEF Types
<1>9. /\ c_pc[x] = "yield" /\ c_task[x] = n
      /\ \A z \in Contexts : z # x /\ z # y => c_pc'[z] = c_pc[z]
      /\ c_pc'[x] # "yield" /\ c_task' = c_task
    BY <1>1, <1>3, <1>4, <1>6, <1>7 DEF Types
<1>10. LifeKept(n)  BY <1>3, <1>4, <1>8, <1>9 DEF LifeKept, Yielding
<1>11. ASSUME NEW m \in Tasks, m # n PROVE LifeKept(m)
    <2>1. \A z \in Contexts : c_task[z] = m => z # x /\ z # y
        BY <1>6, <1>9, <1>11, Disjoint
    <2>2. Yielding(m)' <=> Yielding(m)  BY <1>9, <2>1 DEF Yielding
    <2> QED  BY <1>8, <1>11, <2>2 DEF LifeKept
<1>12. FewerRun  BY <1>8 DEF FewerRun, Working
<1>13. KeepTask /\ SameNeeds  BY <1>7 DEF KeepTask, SameNeeds
<1>14. \A m \in Tasks : Notifying(m)' <=> Notifying(m)
    <2>1. c_pc'[x] = "resumed" /\ c_pc[x] # "notify" /\ c_task'[y] = nullptr
        BY <1>2, <1>3, <1>6, <1>7, <1>9 DEF Types
    <2> QED  BY <1>6, <1>9, <2>1, Disjoint DEF Notifying
<1> QED  BY <1>10, <1>11, <1>12, <1>13, <1>14 DEF Quiet

\* The client's nodes are released.
LEMMA ClearGraphQuiet ==
    ASSUME LifeInv, clear_graph
    PROVE  Quiet
<1> USE DEF LifeInv, ContextInv
<1>1. /\ \A n \in 1 .. made : status[n] = "Recoverable"
      /\ status' = [n \in Nodes |-> IF n \in 1 .. made THEN "Destroy" ELSE status[n]]
      /\ UNCHANGED <<c_pc, c_task, waits, back_task>>
    BY DEF clear_graph, ctxVars
<1>2. \A n \in Tasks : \/ status'[n] = status[n]
                       \/ status[n] = "Recoverable" /\ status'[n] = "Destroy"
    BY <1>1, Disjoint
<1>3. SamePlaces  BY <1>1 DEF SamePlaces, SameYields, SameAt
<1>4. \A n \in Tasks : LifeKept(n)
    <2> SUFFICES ASSUME NEW n \in Tasks PROVE LifeKept(n)  OBVIOUS
    <2>1. CASE status'[n] = status[n]  BY <1>3, <2>1, YieldsKept DEF LifeKept, SamePlaces
    <2>2. CASE status[n] = "Recoverable" /\ status'[n] = "Destroy"
        BY <2>2 DEF LifeKept, Over
    <2> QED  BY <1>2, <2>1, <2>2
<1>5. FewerRun  BY <1>2 DEF FewerRun, Working
<1>6. KeepTask /\ SameNeeds  BY <1>1 DEF KeepTask, SameNeeds
<1>7. \A n \in Tasks : Notifying(n)' <=> Notifying(n)  BY <1>3, NotifiesKept
<1> QED  BY <1>4, <1>5, <1>6, <1>7 DEF Quiet

\* A thread is joined; no node is left.
LEMMA JoinQuiet ==
    ASSUME LifeInv, NEW w \in Workers, Join(w)
    PROVE  Quiet
<1> USE DEF LifeInv, ContextInv
<1>1. \A n \in Nodes : ~Alive(n)  BY DEF Join, Main
<1>2. UNCHANGED <<status, waits, back_task>>  BY DEF Join, nodeVars
<1>3. \A n \in Tasks : status[n] # "Running"  BY <1>1, Disjoint DEF Alive
<1>4. \A n \in Tasks : LifeKept(n)  BY <1>2, <1>3 DEF LifeKept
<1>5. FewerRun  BY <1>2 DEF FewerRun, Working
<1>6. KeepTask  BY <1>2, <1>3 DEF KeepTask
<1>7. SameNeeds  BY <1>2 DEF SameNeeds
<1>8. ASSUME NEW n \in Tasks PROVE ~Notifying(n) /\ ~Notifying(n)'
    <2>1. ~Notifying(n)
        <3> SUFFICES ASSUME NEW x \in Contexts, c_task[x] = n, c_pc[x] = "notify" PROVE FALSE
            BY DEF Notifying
        <3>1. status[n] = StateAt("notify")  BY Disjoint DEF Tidy, States
        <3> QED  BY <1>1, <3>1, Disjoint DEF StateAt, Alive
    <2>2. Notifying(n)' => Notifying(n)
        <3> SUFFICES ASSUME NEW x \in Contexts, c_task'[x] = n, c_pc'[x] = "notify"
                     PROVE  c_task[x] = n /\ c_pc[x] = "notify"
            BY DEF Notifying
        <3>1. c_task'[x] # nullptr  BY Disjoint
        <3>2. c_task[x] = n  BY <3>1 DEF Join
        <3>3. c_pc' = [c_pc EXCEPT ![w] = "joined"]  BY DEF Join
        <3> QED  BY <3>2, <3>3 DEF Types
    <2> QED  BY <2>1, <2>2
<1> QED  BY <1>4, <1>5, <1>6, <1>7, <1>8 DEF Quiet

\* The end signal, a switch to a back node's context, and the main thread's
\* other steps.
LEMMA OthersQuiet ==
    ASSUME LifeInv
    PROVE  /\ \A w \in Workers : EndSignal(w) \/ SwitchBack(w) => Quiet
           /\ init_work_thread \/ StopClient \/ SendFlags => Quiet
           /\ UNCHANGED vars => Quiet
<1>1. ASSUME NEW w \in Workers, EndSignal(w) PROVE Quiet
    BY <1>1, StillQuiet DEF EndSignal, ctxVars, nodeVars
<1>2. ASSUME NEW w \in Workers, SwitchBack(w) PROVE Quiet
    BY <1>2, StillQuiet DEF SwitchBack, nodeVars
<1>3. ASSUME init_work_thread \/ StopClient \/ SendFlags PROVE Quiet
    BY <1>3, StillQuiet DEF init_work_thread, StopClient, SendFlags, ctxVars, nodeVars
<1>4. ASSUME UNCHANGED vars PROVE Quiet
    BY <1>4, StillQuiet DEF vars, ctxVars, nodeVars
<1> QED  BY <1>1, <1>2, <1>3, <1>4

-----------------------------------------------------------------------------
(* Steps TaskLife sees *)

\* TaskLife counts as Coroutine does.
LEMMA SameCardinality == \A S : Abs!Cardinality(S) = Cardinality(S)
BY DEF Abs!Cardinality, Cardinality

\* A worker whose stack has no running task is free for one.
LEMMA FreeWorker ==
    ASSUME LifeInv, LifeSeen, NEW w \in Workers,
           \A n \in Tasks : status[n] = "Running" => c_task[On(w)] # n
    PROVE  Abs!WorkerFree
<1> DEFINE Running == {n \in Tasks : life[n] = "running"}
           Serves(v, n) == v \in Workers /\ c_task[On(v)] = n
           server == [n \in Running |-> CHOOSE v : Serves(v, n)]
<1>1. ASSUME NEW n \in Running PROVE status[n] = "Running" /\ \E v : Serves(v, n)
    <2>1. n \in Tasks /\ status[n] = "Running" /\ n # nullptr  BY Disjoint DEF LifeSeen
    <2>2. PICK x \in Contexts : c_task[x] = n  BY <2>1 DEF LifeInv, Working
    <2>3. c_pc[x] \in Busy /\ StateAt(c_pc[x]) = "Running"
        BY <2>1, <2>2 DEF LifeInv, ContextInv, Tidy, Locals, States
    <2>4. c_pc[x] \in {"run", "edges", "yield"}  BY <2>3 DEF Busy, StateAt
    <2>5. PICK v \in Workers : On(v) = x  BY <2>1, <2>2, <2>4, HasWorker DEF LifeInv
    <2> QED  BY <2>1, <2>2, <2>5
<1>2. ASSUME NEW n \in Running PROVE server[n] \in Workers \ {w} /\ c_task[On(server[n])] = n
    <2>1. server[n] = CHOOSE v : Serves(v, n)  OBVIOUS
    <2>2. Serves(server[n], n)  BY <1>1, <2>1
    <2>3. server[n] # w  BY <1>1, <2>2
    <2> QED  BY <2>2, <2>3
<1>3. server \in [Running -> Workers \ {w}]
    <2>1. \A n \in Running : server[n] \in Workers \ {w}  BY <1>2
    <2> QED  BY <2>1
<1>4. \A m, n \in Running : server[m] = server[n] => m = n  BY <1>2
<1>5. /\ IsFiniteSet(Workers \ {w}) /\ Cardinality(Workers \ {w}) = Cardinality(Workers) - 1
      /\ Cardinality(Workers) \in Nat /\ Cardinality(Workers \ {w}) \in Nat
    BY CoroutineAssumption, FS_CardinalityType, FS_RemoveElement
<1>6. PICK S, T, f : /\ S = Running /\ T = Workers \ {w} /\ f = server  OBVIOUS
<1>7. IsFiniteSet(S) /\ Cardinality(S) <= Cardinality(T) /\ Cardinality(S) \in Nat
    <2>1. /\ f \in [S -> T] /\ \A m, n \in S : f[m] = f[n] => m = n
          /\ IsFiniteSet(T)
        BY <1>3, <1>4, <1>5, <1>6
    <2>2. f \in Injection(S, T)  BY ONLY <2>1 DEF Injection, IsInjective
    <2>3. IsFiniteSet(S) /\ Cardinality(S) <= Cardinality(T)
        BY ONLY <2>1, <2>2, FS_Injection
    <2> QED  BY <2>3, FS_CardinalityType
<1>8. S = {n \in Tasks : life[n] = "running"}  BY <1>6
<1>9. Cardinality(S) < Cardinality(Workers)  BY <1>5, <1>6, <1>7
<1> HIDE DEF Running, server
<1>10. Abs!WorkerFree <=> Cardinality(S) < Cardinality(Workers)
    BY ONLY <1>8, SameCardinality DEF Abs!WorkerFree
<1> QED  BY <1>9, <1>10

\* Who is pending, seen from the nodes.
LEMMA PendingNodes ==
    ASSUME LifeSeen
    PROVE  /\ \A n \in Tasks : n \in Abs!Pending <=> Unfinished(n)
           /\ \A g \in Graphs : /\ Abs!Unended(g) = {n \in Tasks : GraphOf[n] = g /\ Unfinished(n)}
                                /\ g \in Abs!Pending <=> get_wait_count(g) # 0
                                /\ get_wait_count(g) = Cardinality(Abs!Unended(g))
                                /\ IsFiniteSet(Abs!Unended(g))
<1>1. \A n \in Tasks : life[n] \in {"ready", "running", "waiting"} <=> Unfinished(n)
    BY DEF LifeSeen, Unfinished, Over
<1>2. \A n \in Tasks : n \notin Graphs  BY CoroutineAssumption, Disjoint
<1>3. \A n \in Tasks : n \in Abs!Pending <=> Unfinished(n)  BY <1>1, <1>2 DEF Abs!Pending
<1>4. ASSUME NEW g \in Graphs
      PROVE  /\ Abs!Unended(g) = {n \in Tasks : GraphOf[n] = g /\ Unfinished(n)}
             /\ get_wait_count(g) = Cardinality(Abs!Unended(g))
             /\ g \in Abs!Pending <=> Abs!Unended(g) # {}
    <2>1. Abs!Unended(g) = {n \in Tasks : GraphOf[n] = g /\ Unfinished(n)}
        BY <1>1 DEF Abs!Unended
    <2>2. g \notin Tasks  BY <1>2
    <2> QED  BY <2>1, <2>2 DEF Abs!Pending, get_wait_count
<1>5. IsFiniteSet(Tasks)
    <2>1. MaxNodes \in Int  BY CoroutineAssumption
    <2> QED  BY <2>1, IntervalSize DEF Tasks
<1>6. ASSUME NEW g \in Graphs
      PROVE  IsFiniteSet(Abs!Unended(g)) /\ (g \in Abs!Pending <=> get_wait_count(g) # 0)
    <2>1. PICK S : S = Abs!Unended(g)  OBVIOUS
    <2>2. S \subseteq Tasks  BY <1>4, <2>1
    <2>3. IsFiniteSet(S)  BY <1>5, <2>2, FS_Subset
    <2>4. Cardinality(S) = 0 <=> S = {}  BY <2>3, FS_EmptySet
    <2> QED  BY <1>4, <2>1, <2>3, <2>4
<1> QED  BY <1>3, <1>4, <1>6

\* A task that runs or waits waits for what its back node waits for.
LEMMA OwnNeeds ==
    ASSUME LifeInv, NEW n \in Tasks, NEW b \in BackNodes, back_task[b] = n, waits[b] # {}
    PROVE  /\ status[n] \in {"Running", "Yield"}
           /\ \E x \in Contexts : c_task[x] = n /\ c_back[x] = b /\ c_pc[x] \in {"yield", "resumed"}
<1> USE DEF LifeInv, ContextInv
<1>1. status[b] = "Initing" /\ b # nullptr  BY Disjoint DEF Tidy, States
<1>2. PICK x \in Coroutines : x = back_run_context_ptr[b] /\ c_back[x] = b /\ c_task[x] = n
    BY <1>1 DEF Tidy, Bonds
<1>3. x \in Contexts /\ Live(x) /\ c_pc[x] \in Bound
    BY <1>1, <1>2, Disjoint DEF Tidy, Locals
<1>4. c_pc[x] # "edges"  BY <1>2, <1>3 DEF Tidy, States
<1>5. c_pc[x] \in {"yield", "resumed"}  BY <1>3, <1>4 DEF Bound
<1>6. status[n] = StateAt(c_pc[x])  BY <1>2, <1>3, Disjoint DEF Tidy, States
<1>7. StateAt("yield") = "Running" /\ StateAt("resumed") = "Yield"  BY DEF StateAt
<1> QED  BY <1>2, <1>3, <1>5, <1>6, <1>7

\* The life of one task changes.
LEMMA OneLife ==
    ASSUME LifeSeen, LifeSeen', NEW n \in Tasks, NEW to, life'[n] = to,
           \A m \in Tasks : m # n => LifeKept(m)
    PROVE  life' = [life EXCEPT ![n] = to]
<1>1. \A m \in Tasks : m # n => life'[m] = life[m]  BY LifeSame
<1> QED  BY <1>1, Functions, FunctionsNext DEF OfTasks

\* The needs of one task change.
LEMMA NeedsSet ==
    ASSUME NEW n \in Tasks, NEW left,
           \A m \in Tasks : \A z :
              z \in needs'[m] <=> IF m = n THEN z \in left ELSE z \in needs[m]
    PROVE  needs' = [needs EXCEPT ![n] = left]
<1>1. \A m \in Tasks : needs'[m] = waits'[m] \cup
                UNION {waits'[b] : b \in {k \in BackNodes : back_task'[k] = m}}
    BY DEF needs
<1>2. \A m \in Tasks : needs[m] = waits[m] \cup
                UNION {waits[b] : b \in {k \in BackNodes : back_task[k] = m}}
    BY DEF needs
<1>3. ASSUME NEW m \in Tasks, m # n PROVE needs'[m] = needs[m]
    <2>1. \A z : z \in needs'[m] <=> z \in needs[m]  BY <1>3
    <2> QED  BY <1>1, <1>2, <2>1
<1>4. needs'[n] = left
    <2>1. \A z : z \in needs'[n] <=> z \in left  OBVIOUS
    <2> QED  BY <1>1, <2>1
<1> QED  BY <1>3, <1>4, Functions, FunctionsNext DEF OfTasks

\* create_edges is Submit.
LEMMA SubmitStep ==
    ASSUME LifeInv, ContextInv', NEW R \in SUBSET Tasks, create_edges(R)
    PROVE  Working' /\ Abs!Next
<1> USE DEF LifeInv, ContextInv
<1>1. PICK n \in Tasks : n = made + 1 /\ R \subseteq 1 .. made
    <2>1. made \in Nat /\ MaxNodes \in Nat /\ made < MaxNodes /\ R \subseteq 1 .. made
        BY CoroutineAssumption DEF create_edges, Types
    <2> QED  BY <2>1 DEF Tasks
<1>2. status[n] = "none"
    <2>1. made \in Nat  BY CoroutineAssumption DEF Types
    <2> QED  BY <1>1, <2>1 DEF Tidy, States
<1>3. PICK left : left = {r \in R : Unfinished(r)}  OBVIOUS
<1>4. /\ status' = [status EXCEPT ![n] = "Initing"] /\ waits' = [waits EXCEPT ![n] = left]
      /\ UNCHANGED <<c_pc, c_task, back_task>>
    BY <1>1, <1>3 DEF create_edges, ctxVars
<1>5. /\ status'[n] = "Initing" /\ \A m \in Tasks : m # n => status'[m] = status[m]
      /\ waits'[n] = left /\ \A m \in Nodes : m # n => waits'[m] = waits[m]
      /\ n \in Nodes /\ n \notin BackNodes
    BY <1>4, Disjoint DEF Types
<1>6. SamePlaces /\ KeepTask  BY <1>4 DEF SamePlaces, SameYields, SameAt, KeepTask
<1>7. FewerRun  BY <1>5 DEF FewerRun, Working
<1>8. Working'  BY <1>6, <1>7, QuietWorking
<1>9. LifeSeen /\ LifeSeen'  BY <1>8, Life, SeenNext
<1>10. \A m \in Tasks : m # n => LifeKept(m)
    BY <1>5, <1>6, YieldsKept DEF LifeKept, SamePlaces
<1>11. life[n] = "none" /\ life'[n] = "ready"  BY <1>2, <1>5, <1>9 DEF LifeSeen
<1>12. life' = [life EXCEPT ![n] = "ready"]  BY <1>9, <1>10, <1>11, OneLife
<1>13. left = R \cap Abs!Pending  BY <1>3, <1>9, PendingNodes
<1>14. needs' = [needs EXCEPT ![n] = R \cap Abs!Pending]
    <2>1. ASSUME NEW m \in Tasks, NEW z
          PROVE  z \in needs'[m] <=> IF m = n THEN z \in left ELSE z \in needs[m]
        <3>1. z \in needs'[m] <=> \/ z \in waits'[m]
                                  \/ \E b \in BackNodes : back_task'[b] = m /\ z \in waits'[b]
            BY SeenNext DEF NeedsSeen
        <3>2. z \in needs[m] <=> \/ z \in waits[m]
                                 \/ \E b \in BackNodes : back_task[b] = m /\ z \in waits[b]
            BY Needs DEF NeedsSeen
        <3>3. \A b \in BackNodes : waits'[b] = waits[b] /\ back_task'[b] = back_task[b]
            BY <1>4, <1>5, Disjoint
        <3>4. \A b \in BackNodes : back_task[b] = n => waits[b] = {}
            BY <1>2, OwnNeeds
        <3>5. CASE m = n  BY <1>5, <3>1, <3>3, <3>4, <3>5
        <3>6. CASE m # n
            <4>1. m \in Nodes  BY Disjoint
            <4> QED  BY <1>5, <3>1, <3>2, <3>3, <3>6, <4>1
        <3> QED  BY <3>5, <3>6
    <2> QED  BY <1>13, <2>1, NeedsSet
<1>15. notifying' = notifying  BY <1>6, <1>8, NotifiesKept, NotifyingSame
<1>16. Abs!Submit(n, R)  BY <1>11, <1>12, <1>14, <1>15 DEF Abs!Submit, Abs!Become
<1> QED  BY <1>8, <1>16 DEF Abs!Next

\* A task starts.
LEMMA StartStep ==
    ASSUME LifeInv, ContextInv', NEW w \in Workers, Start(w), c_task[On(w)] \notin BackNodes
    PROVE  Working' /\ Abs!Next
<1> USE DEF LifeInv, ContextInv
<1>1. c_pc[On(w)] = "start" /\ "start" \in Busy  BY DEF Start, Go, At, Busy
<1>2. PICK x \in Contexts : x = On(w) /\ c_pc[x] = "start"  BY <1>1, Stack
<1>3. PICK n \in Tasks : n = c_task[x] /\ status[n] = "Initing" /\ waits[n] = {}
    BY <1>1, <1>2, Mine, Disjoint DEF StateAt
<1>4. /\ c_pc' = [c_pc EXCEPT ![x] = "run"] /\ status' = [status EXCEPT ![n] = "Running"]
      /\ UNCHANGED <<c_task, waits, back_task>>
    BY <1>2, <1>3, Disjoint DEF Start, Go
<1>5. /\ status'[n] = "Running" /\ \A m \in Tasks : m # n => status'[m] = status[m]
    BY <1>3, <1>4, Disjoint DEF Types
<1>6. SamePlaces  BY <1>2, <1>4 DEF SamePlaces, SameYields, SameAt, Types
<1>7. Working'
    <2>1. \A m \in Tasks : status[m] = "Running" => \E z \in Contexts : c_task[z] = m
        BY DEF Working
    <2>2. c_task'[x] = n  BY <1>3, <1>4
    <2> QED  BY <1>4, <1>5, <2>1, <2>2 DEF Working
<1>8. LifeSeen /\ LifeSeen'  BY <1>7, Life, SeenNext
<1>9. \A m \in Tasks : m # n => LifeKept(m)
    BY <1>5, <1>6, YieldsKept DEF LifeKept, SamePlaces
<1>10. life[n] = "ready"  BY <1>3, <1>8 DEF LifeSeen
<1>11. life'[n] = "running"
    <2>1. ~Yielding(n)
        <3> SUFFICES ASSUME NEW z \in Contexts, c_task[z] = n, c_pc[z] = "yield" PROVE FALSE
            BY DEF Yielding
        <3>1. status[n] = StateAt("yield")  BY Disjoint DEF Tidy, States
        <3> QED  BY <1>3, <3>1 DEF StateAt
    <2>2. ~Yielding(n)'  BY <1>6, <2>1, YieldsKept DEF SamePlaces
    <2> QED  BY <1>5, <1>8, <2>2 DEF LifeSeen
<1>12. life' = [life EXCEPT ![n] = "running"]  BY <1>8, <1>9, <1>11, OneLife
<1>13. needs[n] = {}
    <2>1. \A b \in BackNodes : back_task[b] = n => waits[b] = {}  BY <1>3, OwnNeeds
    <2>2. needs[n] = waits[n] \cup UNION {waits[b] : b \in {k \in BackNodes : back_task[k] = n}}
        BY DEF needs
    <2> QED  BY <1>3, <2>1, <2>2
<1>14. needs' = needs
    <2>1. SameNeeds  BY <1>4 DEF SameNeeds
    <2> QED  BY <2>1, NeedsSame
<1>15. Abs!WorkerFree
    <2>1. \A m \in Tasks : status[m] = "Running" => c_task[On(w)] # m  BY <1>2, <1>3
    <2> QED  BY <1>8, <2>1, FreeWorker
<1>16. notifying' = notifying  BY <1>6, <1>7, NotifiesKept, NotifyingSame
<1>17. Abs!Start(n)
    BY <1>10, <1>12, <1>13, <1>14, <1>15, <1>16 DEF Abs!Start, Abs!Become
<1> QED  BY <1>7, <1>17 DEF Abs!Next

\* sub_graph_.create_edges is Wait.
LEMMA WaitStep ==
    ASSUME LifeInv, ContextInv', NEW w \in Workers, CreateEdges(w)
    PROVE  Working' /\ Abs!Next
<1> USE DEF LifeInv, ContextInv
<1>1. c_pc[On(w)] = "edges" /\ "edges" \in Busy /\ "edges" \in Bound
    BY DEF CreateEdges, Go, At, Busy, Bound
<1>2. PICK x \in Contexts : x = On(w) /\ c_pc[x] = "edges" /\ Live(x)  BY <1>1, Stack
<1>3. PICK n \in Tasks : /\ n = c_task[x] /\ status[n] = "Running" /\ waits[n] = {}
                         /\ \A z \in Contexts : z # x => c_task[z] # n
    BY <1>1, <1>2, Mine DEF StateAt
<1>4. PICK b \in BackNodes : /\ b = c_back[x] /\ waits[b] = {} /\ back_task[b] = n
                             /\ b \in Nodes /\ b \notin Tasks
    BY <1>1, <1>2, <1>3, MyBack, Disjoint DEF Tidy, States
<1>5. PICK S : S = c_nodes[x] /\ S \subseteq Tasks \cup Graphs
    BY <1>2 DEF Types
<1>6. PICK left : left = {r \in S : IF r \in Graphs THEN get_wait_count(r) # 0 ELSE Unfinished(r)}
    OBVIOUS
<1>7. /\ c_pc' = [c_pc EXCEPT ![x] = "yield"] /\ waits' = [waits EXCEPT ![b] = left]
      /\ UNCHANGED <<c_task, status, back_task>>
    BY <1>2, <1>4, <1>5, <1>6 DEF CreateEdges, Go
<1>8. /\ c_pc'[x] = "yield" /\ \A z \in Contexts : z # x => c_pc'[z] = c_pc[z]
      /\ waits'[b] = left /\ \A m \in Nodes : m # b => waits'[m] = waits[m]
    BY <1>4, <1>7 DEF Types
<1>9. FewerRun /\ KeepTask  BY <1>7 DEF FewerRun, KeepTask, Working
<1>10. Working'  BY <1>9, QuietWorking
<1>11. LifeSeen /\ LifeSeen'  BY <1>10, Life, SeenNext
<1>12. ASSUME NEW m \in Tasks, m # n PROVE LifeKept(m)
    <2>1. Yielding(m)' <=> Yielding(m)  BY <1>3, <1>7, <1>8, <1>12 DEF Yielding
    <2> QED  BY <1>7, <2>1 DEF LifeKept
<1>13. life[n] = "running"
    <2>1. ~Yielding(n)  BY <1>2, <1>3 DEF Yielding
    <2> QED  BY <1>3, <1>11, <2>1 DEF LifeSeen
<1>14. life'[n] = "waiting"
    <2>1. Yielding(n)'  BY <1>3, <1>7, <1>8 DEF Yielding
    <2> QED  BY <1>3, <1>7, <1>11, <2>1 DEF LifeSeen
<1>15. life' = [life EXCEPT ![n] = "waiting"]  BY <1>11, <1>12, <1>14, OneLife
<1>16. left = S \cap Abs!Pending
    <2>1. \A r \in S : r \in left <=> r \in Abs!Pending
        BY <1>5, <1>6, <1>11, PendingNodes
    <2>2. left \subseteq S  BY <1>6
    <2> QED  BY <2>1, <2>2
<1>17. ASSUME NEW m \in Tasks, NEW z
       PROVE  z \in needs'[m] <=> IF m = n THEN z \in left ELSE z \in needs[m]
    <2>1. z \in needs'[m] <=> \/ z \in waits'[m]
                              \/ \E k \in BackNodes : back_task'[k] = m /\ z \in waits'[k]
        BY SeenNext DEF NeedsSeen
    <2>2. z \in needs[m] <=> \/ z \in waits[m]
                             \/ \E k \in BackNodes : back_task[k] = m /\ z \in waits[k]
        BY Needs DEF NeedsSeen
    <2>3. \A k \in BackNodes : k # b => waits'[k] = waits[k]  BY <1>8, Disjoint
    <2>4. waits'[m] = waits[m]  BY <1>4, <1>8, Disjoint
    <2>5. CASE m = n
        <3>1. \A k \in BackNodes : back_task[k] = n /\ k # b => waits[k] = {}
            <4> SUFFICES ASSUME NEW k \in BackNodes, back_task[k] = n, k # b, waits[k] # {}
                         PROVE  FALSE
                OBVIOUS
            <4>1. PICK v \in Contexts : c_task[v] = n /\ c_back[v] = k  BY OwnNeeds
            <4> QED  BY <1>3, <1>4, <4>1
        <3> QED  BY <1>3, <1>4, <1>7, <1>8, <2>1, <2>3, <2>4, <2>5, <3>1
    <2>6. CASE m # n
        BY <1>4, <1>7, <2>1, <2>2, <2>3, <2>4, <2>6
    <2> QED  BY <2>5, <2>6
<1>18. needs' = [needs EXCEPT ![n] = S \cap Abs!Pending]
    BY <1>16, <1>17, NeedsSet
<1>19. notifying' = notifying
    <2>1. \A m \in Tasks : Notifying(m)' <=> Notifying(m)
        BY <1>2, <1>7, <1>8 DEF Notifying
    <2> QED  BY <1>10, <2>1, NotifyingSame
<1>20. Abs!Wait(n, S)  BY <1>13, <1>15, <1>18, <1>19 DEF Abs!Wait, Abs!Become
<1>21. S \in SUBSET (Tasks \cup Graphs)  BY <1>5
<1> QED  BY <1>10, <1>20, <1>21 DEF Abs!Next

\* require_node and wait_graph return.
LEMMA ReturnStep ==
    ASSUME LifeInv, ContextInv', NEW w \in Workers, Resumed(w)
    PROVE  Working' /\ Abs!Next
<1> USE DEF LifeInv, ContextInv
<1>1. c_pc[On(w)] = "resumed" /\ At(w, "resumed") /\ "resumed" \in Busy /\ "resumed" \in Bound
    BY DEF Resumed, Go, At, Busy, Bound
<1>2. PICK x \in Coroutines : x = On(w) /\ x # w /\ x \in Contexts /\ Live(x)
    BY <1>1, Stack, Disjoint
<1>3. PICK b \in BackNodes : b = c_back[x] /\ back_task[b] = c_task[x]
    BY <1>1, <1>2, MyBack
<1>4. PICK n \in Tasks : /\ n = c_task[x] /\ status[n] = "Yield" /\ waits[n] = {}
                         /\ \A z \in Contexts : z # x => c_task[z] # n
    BY <1>1, <1>2, Mine DEF StateAt
<1>5. PICK y \in Coroutines : /\ y = context_pre_ptr[w] /\ y \in Contexts
                              /\ c_pc[y] = "back" /\ c_task[y] = b /\ x # y
    <2>1. context_pre_ptr[w] # nullptr  BY <1>1, Stack
    <2>2. context_pre_ptr[w] \notin Workers  BY <1>1 DEF Holders, Behind, At
    <2>3. context_pre_ptr[w] \in Coroutines  BY <2>1, <2>2, Disjoint DEF Types
    <2>4. context_ptr[w] # w  BY <1>2, Disjoint DEF On
    <2>5. ~At(w, "enter")  BY <1>1 DEF At
    <2> QED  BY <1>1, <1>2, <1>3, <2>3, <2>4, <2>5, Disjoint DEF Holders, Behind
<1>6. waits[b] = {}
    <2>1. Placed(b)  BY <1>5 DEF Placed
    <2> QED  BY <2>1, Disjoint DEF Tidy, States
<1>7. /\ c_pc' = [c_pc EXCEPT ![x] = "run"] /\ c_task' = [c_task EXCEPT ![y] = nullptr]
      /\ status' = [status EXCEPT ![n] = "Running", ![b] = "Destroy"]
      /\ UNCHANGED <<waits, back_task>>
    BY <1>2, <1>3, <1>4, <1>5 DEF Resumed, Go, delete_context
<1>8. status'[n] = "Running" /\ \A m \in Tasks : m # n => status'[m] = status[m]
    BY <1>4, <1>7, Disjoint DEF Types
<1>9. /\ c_pc'[x] = "run" /\ \A z \in Contexts : z # x => c_pc'[z] = c_pc[z]
      /\ c_task'[y] = nullptr /\ \A z \in Contexts : z # y => c_task'[z] = c_task[z]
    BY <1>2, <1>5, <1>7 DEF Types
<1>10. SamePlaces  BY <1>1, <1>2, <1>5, <1>9 DEF SamePlaces, SameYields, SameAt
<1>11. Working'
    <2>1. ASSUME NEW m \in Tasks, status'[m] = "Running", m # n
          PROVE  \E z \in Contexts : c_task'[z] = m
        <3>1. PICK z \in Contexts : c_task[z] = m  BY <1>8, <2>1 DEF Working
        <3> QED  BY <1>5, <1>9, <2>1, <3>1, Disjoint
    <2>2. c_task'[x] = n  BY <1>2, <1>4, <1>5, <1>9
    <2>3. \A m \in Tasks : status'[m] # "Ready"  BY <1>8 DEF Working
    <2> QED  BY <1>2, <2>1, <2>2, <2>3 DEF Working
<1>12. LifeSeen /\ LifeSeen'  BY <1>11, Life, SeenNext
<1>13. \A m \in Tasks : m # n => LifeKept(m)
    BY <1>8, <1>10, YieldsKept DEF LifeKept, SamePlaces
<1>14. life[n] = "waiting"  BY <1>4, <1>12 DEF LifeSeen
<1>15. life'[n] = "running"
    <2>1. ~Yielding(n)'
        <3>1. \A z \in Contexts : c_task'[z] = n => z = x
            BY <1>4, <1>9, Disjoint
        <3> QED  BY <1>9, <3>1 DEF Yielding
    <2> QED  BY <1>8, <1>12, <2>1 DEF LifeSeen
<1>16. life' = [life EXCEPT ![n] = "running"]  BY <1>12, <1>13, <1>15, OneLife
<1>17. needs[n] = {}
    <2>1. \A k \in BackNodes : back_task[k] = n => waits[k] = {}
        <3> SUFFICES ASSUME NEW k \in BackNodes, back_task[k] = n, waits[k] # {} PROVE FALSE
            OBVIOUS
        <3>1. PICK v \in Contexts : c_task[v] = n /\ c_back[v] = k  BY OwnNeeds
        <3> QED  BY <1>3, <1>4, <1>6, <3>1
    <2>2. needs[n] = waits[n] \cup UNION {waits[k] : k \in {i \in BackNodes : back_task[i] = n}}
        BY DEF needs
    <2> QED  BY <1>4, <2>1, <2>2
<1>18. needs' = needs
    <2>1. SameNeeds  BY <1>7 DEF SameNeeds
    <2> QED  BY <2>1, NeedsSame
<1>19. Abs!WorkerFree
    <2>1. \A m \in Tasks : status[m] = "Running" => c_task[On(w)] # m  BY <1>2, <1>4
    <2> QED  BY <1>12, <2>1, FreeWorker
<1>20. notifying' = notifying  BY <1>10, <1>11, NotifiesKept, NotifyingSame
<1>21. Abs!Return(n)
    BY <1>14, <1>16, <1>17, <1>18, <1>19, <1>20 DEF Abs!Return, Abs!Become
<1> QED  BY <1>11, <1>21 DEF Abs!Next

\* Which task is the last of its graph to end.
LEMMA LastOfGraph ==
    ASSUME LifeSeen, NEW n \in Tasks, Unfinished(n), NEW g \in Graphs, g = GraphOf[n]
    PROVE  get_wait_count(g) = 1 <=> Abs!Unended(g) = {n}
<1>1. PICK S : S = Abs!Unended(g)  OBVIOUS
<1>2. /\ S = {m \in Tasks : GraphOf[m] = g /\ Unfinished(m)} /\ IsFiniteSet(S)
      /\ get_wait_count(g) = Cardinality(S)
    BY <1>1, PendingNodes
<1>3. n \in S  BY <1>2
<1>4. Cardinality(S) = 1 <=> \E z : S = {z}  BY <1>2, FS_Singleton
<1>5. (\E z : S = {z}) <=> S = {n}  BY <1>3
<1> QED  BY <1>1, <1>2, <1>4, <1>5

\* Nobody waits for r any longer.
LEMMA NeedsLess ==
    ASSUME NEW r, \A k \in Nodes : waits'[k] = waits[k] \ {r}, back_task' = back_task
    PROVE  needs' = [m \in Tasks |-> needs[m] \ {r}]
<1>1. ASSUME NEW m \in Tasks PROVE needs'[m] = needs[m] \ {r}
    <2>1. \A k \in BackNodes : waits'[k] = waits[k] \ {r}  BY Disjoint
    <2>2. waits'[m] = waits[m] \ {r}  BY Disjoint
    <2>3. ASSUME NEW z PROVE z \in needs'[m] <=> z \in needs[m] /\ z # r
        <3>1. z \in needs'[m] <=> \/ z \in waits'[m]
                                  \/ \E k \in BackNodes : back_task'[k] = m /\ z \in waits'[k]
            BY SeenNext DEF NeedsSeen
        <3>2. z \in needs[m] <=> \/ z \in waits[m]
                                 \/ \E k \in BackNodes : back_task[k] = m /\ z \in waits[k]
            BY Needs DEF NeedsSeen
        <3>3. \A k \in BackNodes : z \in waits'[k] <=> z \in waits[k] /\ z # r  BY <2>1
        <3>4. z \in waits'[m] <=> z \in waits[m] /\ z # r  BY <2>2
        <3> QED  BY <3>1, <3>2, <3>3, <3>4
    <2>4. needs'[m] = waits'[m] \cup
             UNION {waits'[k] : k \in {i \in BackNodes : back_task'[i] = m}}
        BY DEF needs
    <2> QED  BY <2>3, <2>4
<1> QED  BY <1>1, FunctionsNext DEF OfTasks

\* A task ends; the last one of a graph has to notify.
LEMMA EndStep ==
    ASSUME LifeInv, ContextInv', NEW w \in Workers, Finish(w)
    PROVE  Working' /\ Abs!Next
<1> USE DEF LifeInv, ContextInv
<1>1. c_pc[On(w)] = "run" /\ "run" \in Busy  BY DEF Finish, Go, At, Busy
<1>2. PICK x \in Contexts : x = On(w) /\ c_pc[x] = "run"  BY <1>1, Stack
<1>3. PICK n \in Tasks : /\ n = c_task[x] /\ status[n] = "Running"
                         /\ \A z \in Contexts : z # x => c_task[z] # n
    BY <1>1, <1>2, Mine DEF StateAt
<1>4. PICK g \in Graphs : g = GraphOf[n]  BY CoroutineAssumption
<1>5. PICK to : to = IF get_wait_count(g) = 1 THEN "notify" ELSE "recover"  OBVIOUS
<1>6. /\ c_pc' = [c_pc EXCEPT ![x] = to] /\ status' = [status EXCEPT ![n] = "Finish"]
      /\ waits' = [m \in Nodes |-> waits[m] \ {n}] /\ UNCHANGED <<c_task, back_task>>
    BY <1>2, <1>3, <1>4, <1>5 DEF Finish, Go, Release
<1>7. status'[n] = "Finish" /\ \A m \in Tasks : m # n => status'[m] = status[m]
    BY <1>3, <1>6, Disjoint DEF Types
<1>8. /\ c_pc'[x] = to /\ to \in {"notify", "recover"}
      /\ \A z \in Contexts : z # x => c_pc'[z] = c_pc[z]
    BY <1>2, <1>5, <1>6 DEF Types
<1>9. SameYields  BY <1>2, <1>6, <1>8 DEF SameYields, SameAt
<1>10. FewerRun /\ KeepTask  BY <1>6, <1>7 DEF FewerRun, KeepTask, Working
<1>11. Working'  BY <1>10, QuietWorking
<1>12. LifeSeen /\ LifeSeen'  BY <1>11, Life, SeenNext
<1>13. \A m \in Tasks : m # n => LifeKept(m)  BY <1>7, <1>9, YieldsKept DEF LifeKept
<1>14. life[n] = "running"
    <2>1. ~Yielding(n)  BY <1>2, <1>3 DEF Yielding
    <2> QED  BY <1>3, <1>12, <2>1 DEF LifeSeen
<1>15. life'[n] = "ended"  BY <1>7, <1>12 DEF LifeSeen, Over
<1>16. life' = [life EXCEPT ![n] = "ended"]  BY <1>12, <1>13, <1>15, OneLife
<1>17. needs' = [m \in Tasks |-> needs[m] \ {n}]
    <2>1. \A k \in Nodes : waits'[k] = waits[k] \ {n}  BY <1>6
    <2>2. back_task' = back_task  BY <1>6
    <2> QED  BY <2>1, <2>2, NeedsLess
<1>18. to = "notify" <=> Abs!Unended(g) = {n}
    BY <1>3, <1>4, <1>5, <1>12, LastOfGraph DEF Unfinished
<1>19. \A z : z \in notifying' <=> z \in notifying \/ (z = n /\ to = "notify")
    <2>1. \A z : z \in notifying <=> z \in Tasks /\ Notifying(z)
        BY Notifiers DEF NotifyingSeen
    <2>2. \A z : z \in notifying' <=> z \in Tasks /\ Notifying(z)'
        BY <1>11, SeenNext DEF NotifyingSeen
    <2>3. Notifying(n)' <=> to = "notify"  BY <1>3, <1>6, <1>8 DEF Notifying
    <2>4. ~Notifying(n)  BY <1>2, <1>3 DEF Notifying
    <2>5. ASSUME NEW m \in Tasks, m # n PROVE Notifying(m)' <=> Notifying(m)
        BY <1>3, <1>6, <1>8, <2>5 DEF Notifying
    <2> QED  BY <2>1, <2>2, <2>3, <2>4, <2>5
<1>20. notifying' = IF Abs!Unended(g) = {n} THEN notifying \cup {n} ELSE notifying
    <2>1. notifying \subseteq Tasks /\ notifying' \subseteq Tasks  BY DEF notifying
    <2>2. CASE Abs!Unended(g) = {n}
        <3>1. notifying' = notifying \cup {n}  BY <1>18, <1>19, <2>1, <2>2
        <3> QED  BY <2>2, <3>1
    <2>3. CASE Abs!Unended(g) # {n}
        <3>1. notifying' = notifying  BY <1>18, <1>19, <2>1, <2>3
        <3> QED  BY <2>3, <3>1
    <2> QED  BY <2>2, <2>3
<1>21. Abs!End(n)
    BY <1>4, <1>14, <1>16, <1>17, <1>20 DEF Abs!End, Abs!Become
<1> QED  BY <1>11, <1>21 DEF Abs!Next

\* Those who wait for the graph are notified.
LEMMA NotifyStep ==
    ASSUME LifeInv, ContextInv', NEW w \in Workers, Notify(w)
    PROVE  Working' /\ Abs!Next
<1> USE DEF LifeInv, ContextInv
<1>1. c_pc[On(w)] = "notify" /\ "notify" \in Busy  BY DEF Notify, Go, At, Busy
<1>2. PICK x \in Contexts : x = On(w) /\ c_pc[x] = "notify"  BY <1>1, Stack
<1>3. PICK n \in Tasks : /\ n = c_task[x]
                         /\ \A z \in Contexts : z # x => c_task[z] # n
    BY <1>1, <1>2, Mine
<1>4. PICK g : g = GraphOf[n]  OBVIOUS
<1>5. /\ c_pc' = [c_pc EXCEPT ![x] = "recover"] /\ waits' = [m \in Nodes |-> waits[m] \ {g}]
      /\ UNCHANGED <<c_task, status, back_task>>
    BY <1>2, <1>3, <1>4 DEF Notify, Go, Release
<1>6. c_pc'[x] = "recover" /\ \A z \in Contexts : z # x => c_pc'[z] = c_pc[z]
    BY <1>2, <1>5 DEF Types
<1>7. SameYields  BY <1>2, <1>5, <1>6 DEF SameYields, SameAt
<1>8. FewerRun /\ KeepTask  BY <1>5 DEF FewerRun, KeepTask, Working
<1>9. Working'  BY <1>8, QuietWorking
<1>10. LifeSeen /\ LifeSeen'  BY <1>9, Life, SeenNext
<1>11. \A m \in Tasks : LifeKept(m)  BY <1>5, <1>7, YieldsKept DEF LifeKept
<1>12. life' = life
    <2>1. \A m \in Tasks : life'[m] = life[m]  BY <1>10, <1>11, LifeSame
    <2> QED  BY <2>1, Functions, FunctionsNext DEF OfTasks
<1>13. needs' = [m \in Tasks |-> needs[m] \ {g}]
    <2>1. \A k \in Nodes : waits'[k] = waits[k] \ {g}  BY <1>5
    <2>2. back_task' = back_task  BY <1>5
    <2> QED  BY <2>1, <2>2, NeedsLess
<1>14. n \in notifying /\ \A z : z \in notifying' <=> z \in notifying /\ z # n
    <2>1. \A z : z \in notifying <=> z \in Tasks /\ Notifying(z)
        BY Notifiers DEF NotifyingSeen
    <2>2. \A z : z \in notifying' <=> z \in Tasks /\ Notifying(z)'
        BY <1>9, SeenNext DEF NotifyingSeen
    <2>3. Notifying(n)  BY <1>2, <1>3 DEF Notifying
    <2>4. ~Notifying(n)'  BY <1>3, <1>5, <1>6 DEF Notifying
    <2>5. ASSUME NEW m \in Tasks, m # n PROVE Notifying(m)' <=> Notifying(m)
        BY <1>3, <1>5, <1>6, <2>5 DEF Notifying
    <2> QED  BY <2>1, <2>2, <2>3, <2>4, <2>5
<1>15. notifying' = notifying \ {n}
    <2>1. notifying \subseteq Tasks /\ notifying' \subseteq Tasks  BY DEF notifying
    <2> QED  BY <1>14, <2>1
<1>16. Abs!Notify(n)  BY <1>4, <1>12, <1>13, <1>14, <1>15 DEF Abs!Notify
<1> QED  BY <1>9, <1>16 DEF Abs!Next

-----------------------------------------------------------------------------
(* The theorem *)

\* The initial states are TaskLife's.
LEMMA LifeInit == Init => Working /\ Abs!Init
<1> SUFFICES ASSUME Init PROVE Working /\ Abs!Init
    OBVIOUS
<1>1. \A n \in Tasks : status[n] = "none" /\ waits[n] = {}  BY Disjoint DEF Init
<1>2. \A b \in BackNodes : waits[b] = {}  BY Disjoint DEF Init
<1>3. Working  BY <1>1 DEF Working
<1>4. ContextInv  BY ContextInit
<1>5. LifeSeen  BY <1>3, <1>4, Life DEF LifeInv
<1>6. \A n \in Tasks : life[n] = "none"  BY <1>1, <1>5 DEF LifeSeen
<1>7. ASSUME NEW n \in Tasks PROVE needs[n] = {}
    <2>1. needs[n] = waits[n] \cup UNION {waits[k] : k \in {i \in BackNodes : back_task[i] = n}}
        BY DEF needs
    <2> QED  BY <1>1, <1>2, <2>1
<1>8. notifying = {}
    <2>1. \A x \in Contexts : c_task[x] = nullptr  BY DEF Init
    <2>2. \A n \in Tasks : ~Notifying(n)  BY <2>1, Disjoint DEF Notifying
    <2>3. \A z : z \in notifying <=> z \in Tasks /\ Notifying(z)
        BY <1>3, <1>4, Notifiers DEF NotifyingSeen, LifeInv
    <2> QED  BY <2>2, <2>3
<1> QED  BY <1>3, <1>6, <1>7, <1>8, Functions DEF OfTasks, Abs!Init

\* Every step is a step of TaskLife or a stutter.
LEMMA LifeStep ==
    LifeInv /\ ContextInv' /\ [Next]_vars => Working' /\ [Abs!Next]_<<life, needs, notifying>>
<1> SUFFICES ASSUME LifeInv, ContextInv', [Next]_vars
             PROVE  Working' /\ (Abs!Next \/ UNCHANGED <<life, needs, notifying>>)
    OBVIOUS
<1>1. CASE Quiet  BY <1>1, QuietStep
<1>2. CASE UNCHANGED vars  BY <1>1, <1>2, OthersQuiet
<1>3. ASSUME NEW w \in Workers, do_schedule(w)
      PROVE  Working' /\ (Abs!Next \/ UNCHANGED <<life, needs, notifying>>)
    <2>1. CASE routine(w)  BY <1>1, <2>1, RoutineQuiet
    <2>2. CASE change_context_status(w)  BY <1>1, <2>2, ChangeContextStatusQuiet
    <2>3. CASE EndSignal(w)  BY <1>1, <2>3, OthersQuiet
    <2>4. CASE \E n \in Nodes : Dequeue(w, n)  BY <1>1, <2>4, DequeueQuiet
    <2>5. CASE Start(w)
        <3>1. CASE c_task[On(w)] \in BackNodes  BY <1>1, <2>5, <3>1, StartQuiet
        <3>2. CASE c_task[On(w)] \notin BackNodes  BY <2>5, <3>2, StartStep
        <3> QED  BY <3>1, <3>2
    <2>6. CASE Finish(w)  BY <2>6, EndStep
    <2>7. CASE Recover(w)  BY <1>1, <2>7, RecoverQuiet
    <2>8. CASE \E what : NewBackNode(w, what)  BY <1>1, <2>8, NewBackNodeQuiet
    <2>9. CASE \E nodes \in SUBSET Tasks : require_node(w, nodes)
        BY <2>8, <2>9 DEF require_node
    <2>10. CASE \E g \in Graphs : wait_graph(w, g)  BY <2>8, <2>10 DEF wait_graph
    <2>11. CASE CreateEdges(w)  BY <2>11, WaitStep
    <2>12. CASE YieldTask(w)  BY <1>1, <2>12, YieldTaskQuiet
    <2>13. CASE SwitchBack(w)  BY <1>1, <2>13, OthersQuiet
    <2>14. CASE Resumed(w)  BY <2>14, ReturnStep
    <2>15. CASE Notify(w)  BY <2>15, NotifyStep
    <2> QED  BY <1>3, <2>1, <2>2, <2>3, <2>4, <2>5, <2>6, <2>7, <2>9, <2>10, <2>11, <2>12,
                <2>13, <2>14, <2>15 DEF do_schedule
<1>4. CASE init_work_thread \/ StopClient  BY <1>1, <1>4, OthersQuiet
<1>5. CASE destroy
    <2>1. CASE clear_graph  BY <1>1, <2>1, ClearGraphQuiet
    <2>2. CASE SendFlags  BY <1>1, <2>2, OthersQuiet
    <2>3. CASE \E w \in Workers : Join(w)  BY <1>1, <2>3, JoinQuiet
    <2> QED  BY <1>5, <2>1, <2>2, <2>3 DEF destroy
<1>6. CASE \E R \in SUBSET Tasks : create_edges(R)  BY <1>6, SubmitStep
<1> QED  BY <1>2, <1>3, <1>4, <1>5, <1>6 DEF Next

\* To its tasks the scheduler is TaskLife: require_node returns when what it
\* waits for has ended and not before, wait_graph when its graph is notified of
\* an end, be it an earlier one than the end to come; a task that waits occupies
\* no worker, and no worker runs two tasks (aspect.cpp:107-202, graph.cpp:53-62).
THEOREM WaitsLikeACall == Spec => ImplementsTaskLife
<1>1. Init => ContextInv /\ Working /\ Abs!Init
    BY ContextInit, LifeInit
<1>2. ContextInv /\ [Next]_vars => ContextInv'  BY ContextStep
<1>3. ContextInv /\ Working /\ ContextInv' /\ [Next]_vars
         => Working' /\ [Abs!Next]_<<life, needs, notifying>>
    BY LifeStep DEF LifeInv
<1> QED  BY <1>1, <1>2, <1>3, PTL DEF Spec, ImplementsTaskLife, Abs!Spec, Abs!vars
=============================================================================
