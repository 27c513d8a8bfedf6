-------------------------- MODULE TaskQueueProofs --------------------------
(***************************************************************************)
(* TaskQueue's counters are exact and no wake-up is lost, for any number   *)
(* of producers, workers and tasks and any capacity of limit_queue.        *)
(*                                                                         *)
(* The heart of it is Covered: while somebody sleeps, the tasks that were  *)
(* signalled and that nobody looks for (there are -m_count of them) are    *)
(* no more than the threads that are on their way to look for a task or to *)
(* wake a sleeper - unless a worker is inside spin_hold, which hides what  *)
(* signal() leaves to it until the last one out loads m_count again.       *)
(***************************************************************************)
EXTENDS TaskQueue, FiniteSetTheorems, TLAPS

NumOf(f, T, labels) == Cardinality({t \in T : f[t] \in labels})
Num(T, labels) == NumOf(pc, T, labels)

\* How many threads there are at the places that matter: workers that look for
\* a task, that are about to shrink the size or that are inside spin_hold, and
\* producers that are about to grow the size or to count their task.
looking == Num(Workers, Looking)
shrinking == Num(Workers, {"shrink"})
spinners == Num(Workers, {"spin_out"})
growing == Num(Producers, {"grow"})
Unsignalled == {"fill", "grow", "signal"}
unsignalled == Num(Producers, Unsignalled)

\* Workers that will look for a task unless they find that there is none, and
\* producers that may wake a sleeper.
Coming == {"spin_in", "spin_out", "spin_load", "spin_wake", "count", "futex", "recount"}
coming == Num(Workers, Coming)
Signalling == {"sig_spin", "sig_load", "sig_wake"}
signalling == Num(Producers, Signalling)

\* The counters, Accounted and SizeLags among them.
Counted ==
    /\ m_count = looking + taken - signalled
    /\ inner_size = unlimit_queue - growing + shrinking
    /\ Pending + taken = signalled + unsignalled
    /\ big_spin_count = spinners

\* signal() leaves the waking to the last worker that leaves spin_hold.
Hidden == big_spin_count > 0 \/ \E w \in Workers : pc[w] = "spin_load"

Covered ==
    Sleepers # {} /\ ~Hidden =>
        \/ 0 - m_count <= coming + signalling
        \/ \E w \in Workers : pc[w] = "spin_wake" /\ 0 - m_count <= coming + signalling - old[w]

\* The inductive invariant.
QueueInv == TypeOK /\ Counted /\ Covered

(***************************************************************************)
(* Counting threads                                                        *)
(***************************************************************************)
\* There are finitely many threads, so their numbers are naturals.
LEMMA NumType ==
    ASSUME NEW T \in SUBSET Threads, NEW L
    PROVE  /\ IsFiniteSet(At(T, L))
           /\ Num(T, L) \in Nat
<1>1. IsFiniteSet(Threads)
  BY ThreadAssumption, FS_Union DEF Threads
<1>2. At(T, L) \subseteq Threads
  BY DEF At
<1> QED
  BY <1>1, <1>2, FS_Subset, FS_CardinalityType DEF Num, NumOf, At

One(b) == IF b THEN 1 ELSE 0

\* Adding or removing one element.
LEMMA CardMove ==
    ASSUME NEW A, NEW B, NEW t, IsFiniteSet(A), B = A \cup {t} \/ B = A \ {t}
    PROVE  Cardinality(B) = Cardinality(A) + One(t \in B) - One(t \in A)
<1>1. Cardinality(A) \in Nat
  BY FS_CardinalityType
<1>2. CASE B = A \cup {t}
  BY <1>1, <1>2, FS_AddElement DEF One
<1>3. CASE B = A \ {t}
  BY <1>1, <1>3, FS_RemoveElement DEF One
<1> QED
  BY <1>2, <1>3

\* g is f, but for t, which has gone on to another label.
Moved(f, g, t, to, T) == \A s \in T : g[s] = IF s = t THEN to ELSE f[s]

\* What a thread that goes on to another label does to the number of threads
\* of T whose label is in L.
LEMMA NumMove ==
    ASSUME NEW f, NEW g, NEW t, NEW to, NEW T, IsFiniteSet(T), NEW L,
           Moved(f, g, t, to, T)
    PROVE  NumOf(g, T, L) = NumOf(f, T, L) + (IF t \in T /\ to \in L THEN 1 ELSE 0)
                                           - (IF t \in T /\ f[t] \in L THEN 1 ELSE 0)
<1> USE DEF Moved
<1> DEFINE A == {s \in T : f[s] \in L}
           B == {s \in T : g[s] \in L}
<1>1. IsFiniteSet(A)
  <2>1. A \in SUBSET T
    OBVIOUS
  <2> QED
    BY <2>1, FS_Subset
<1>3. /\ t \in A <=> t \in T /\ f[t] \in L
      /\ t \in B <=> t \in T /\ to \in L
  OBVIOUS
<1>4. B = A \cup {t} \/ B = A \ {t}
  <2>1. CASE t \in B
    BY <2>1
  <2>2. CASE t \notin B
    BY <2>2
  <2> QED
    BY <2>1, <2>2
<1> HIDE DEF A, B
<1>5. Cardinality(B) = Cardinality(A) + One(t \in B) - One(t \in A)
  BY <1>1, <1>4, CardMove
<1>6. Cardinality(B) = Cardinality(A) + (IF t \in T /\ to \in L THEN 1 ELSE 0)
                                      - (IF t \in T /\ f[t] \in L THEN 1 ELSE 0)
  BY <1>3, <1>5 DEF One
<1> QED
  BY <1>6 DEF NumOf, A, B

\* A worker's step changes the numbers of workers only.
LEMMA WorkerMove ==
    ASSUME TypeOK, NEW w \in Workers, NEW from, NEW to, Go(w, from, to)
    PROVE  /\ \A L : Num(Workers, L)' = Num(Workers, L) + (IF to \in L THEN 1 ELSE 0)
                                     - (IF from \in L THEN 1 ELSE 0)
           /\ \A L : Num(Producers, L)' = Num(Producers, L)
           /\ \A v \in Workers : pc'[v] = IF v = w THEN to ELSE pc[v]
           /\ \A p \in Producers : pc'[p] = pc[p]
<1>1. /\ \A s \in Threads : pc'[s] = IF s = w THEN to ELSE pc[s]
      /\ pc[w] = from /\ w \in Threads /\ w \notin Producers /\ DOMAIN pc = Threads
      /\ Workers \in SUBSET Threads /\ Producers \in SUBSET Threads
      /\ IsFiniteSet(Workers) /\ IsFiniteSet(Producers)
  BY ThreadAssumption DEF Threads, TypeOK, Go
<1>m. Moved(pc, pc', w, to, Workers) /\ Moved(pc, pc', w, to, Producers)
  BY <1>1 DEF Moved
<1>2. ASSUME NEW L
      PROVE  NumOf(pc', Workers, L) = NumOf(pc, Workers, L) + (IF to \in L THEN 1 ELSE 0)
                                     - (IF from \in L THEN 1 ELSE 0)
  BY <1>1, <1>m, NumMove
<1>3. ASSUME NEW L
      PROVE  NumOf(pc', Producers, L) = NumOf(pc, Producers, L)
  <2>1. NumOf(pc', Producers, L) = NumOf(pc, Producers, L) + 0 - 0
    BY <1>1, <1>m, NumMove
  <2>2. NumOf(pc, Producers, L) \in Nat
    BY <1>1, NumType DEF Num
  <2> QED
    BY <2>1, <2>2
<1>4. /\ \A L : Num(Workers, L)' = Num(Workers, L) + (IF to \in L THEN 1 ELSE 0)
                                - (IF from \in L THEN 1 ELSE 0)
      /\ \A L : Num(Producers, L)' = Num(Producers, L)
  BY <1>2, <1>3 DEF Num
<1> QED
  BY <1>1, <1>4

\* A producer's step changes the numbers of producers only.
LEMMA ProducerMove ==
    ASSUME TypeOK, NEW p \in Producers, NEW from, NEW to, Go(p, from, to)
    PROVE  /\ \A L : Num(Producers, L)' = Num(Producers, L) + (IF to \in L THEN 1 ELSE 0)
                                     - (IF from \in L THEN 1 ELSE 0)
           /\ \A L : Num(Workers, L)' = Num(Workers, L)
           /\ \A q \in Producers : pc'[q] = IF q = p THEN to ELSE pc[q]
           /\ \A w \in Workers : pc'[w] = pc[w]
<1>1. /\ \A s \in Threads : pc'[s] = IF s = p THEN to ELSE pc[s]
      /\ pc[p] = from /\ p \in Threads /\ p \notin Workers /\ DOMAIN pc = Threads
      /\ Workers \in SUBSET Threads /\ Producers \in SUBSET Threads
      /\ IsFiniteSet(Workers) /\ IsFiniteSet(Producers)
  BY ThreadAssumption DEF Threads, TypeOK, Go
<1>m. Moved(pc, pc', p, to, Workers) /\ Moved(pc, pc', p, to, Producers)
  BY <1>1 DEF Moved
<1>2. ASSUME NEW L
      PROVE  NumOf(pc', Producers, L) = NumOf(pc, Producers, L) + (IF to \in L THEN 1 ELSE 0)
                                     - (IF from \in L THEN 1 ELSE 0)
  BY <1>1, <1>m, NumMove
<1>3. ASSUME NEW L
      PROVE  NumOf(pc', Workers, L) = NumOf(pc, Workers, L)
  <2>1. NumOf(pc', Workers, L) = NumOf(pc, Workers, L) + 0 - 0
    BY <1>1, <1>m, NumMove
  <2>2. NumOf(pc, Workers, L) \in Nat
    BY <1>1, NumType DEF Num
  <2> QED
    BY <2>1, <2>2
<1>4. /\ \A L : Num(Producers, L)' = Num(Producers, L) + (IF to \in L THEN 1 ELSE 0)
                                - (IF from \in L THEN 1 ELSE 0)
      /\ \A L : Num(Workers, L)' = Num(Workers, L)
  BY <1>2, <1>3 DEF Num
<1> QED
  BY <1>1, <1>4

\* All these numbers are naturals.
LEMMA CountsType ==
    /\ looking \in Nat /\ shrinking \in Nat /\ spinners \in Nat /\ coming \in Nat
    /\ growing \in Nat /\ unsignalled \in Nat /\ signalling \in Nat
BY NumType DEF Threads, looking, shrinking, spinners, coming, growing, unsignalled, signalling

\* The same as WorkerMove, for each of the numbers.
LEMMA WorkerCounts ==
    ASSUME TypeOK, NEW w \in Workers, NEW from, NEW to, Go(w, from, to)
    PROVE  /\ looking' = looking + (IF to \in Looking THEN 1 ELSE 0) - (IF from \in Looking THEN 1 ELSE 0)
           /\ shrinking' = shrinking + (IF to \in {"shrink"} THEN 1 ELSE 0) - (IF from \in {"shrink"} THEN 1 ELSE 0)
           /\ spinners' = spinners + (IF to \in {"spin_out"} THEN 1 ELSE 0) - (IF from \in {"spin_out"} THEN 1 ELSE 0)
           /\ coming' = coming + (IF to \in Coming THEN 1 ELSE 0) - (IF from \in Coming THEN 1 ELSE 0)
           /\ UNCHANGED <<growing, unsignalled, signalling>>
BY WorkerMove DEF looking, shrinking, spinners, coming, growing, unsignalled, signalling

\* The same as ProducerMove, for each of the numbers.
LEMMA ProducerCounts ==
    ASSUME TypeOK, NEW p \in Producers, NEW from, NEW to, Go(p, from, to)
    PROVE  /\ growing' = growing + (IF to \in {"grow"} THEN 1 ELSE 0) - (IF from \in {"grow"} THEN 1 ELSE 0)
           /\ unsignalled' = unsignalled + (IF to \in Unsignalled THEN 1 ELSE 0) - (IF from \in Unsignalled THEN 1 ELSE 0)
           /\ signalling' = signalling + (IF to \in Signalling THEN 1 ELSE 0) - (IF from \in Signalling THEN 1 ELSE 0)
           /\ UNCHANGED <<looking, shrinking, spinners, coming>>
BY ProducerMove DEF looking, shrinking, spinners, coming, growing, unsignalled, signalling

\* g is f, but for the threads of A, which FUTEX_WAKE has woken.
Woken(f, g, A, T) == \A s \in T : g[s] = IF s \in A THEN "recount" ELSE f[s]

\* What waking the sleepers of A does to such a number.
LEMMA NumWoken ==
    ASSUME NEW f, NEW g, NEW T, IsFiniteSet(T), NEW A \in SUBSET {t \in T : f[t] = "asleep"},
           NEW L, "asleep" \notin L, Woken(f, g, A, T)
    PROVE  NumOf(g, T, L) = NumOf(f, T, L) + (IF "recount" \in L THEN Cardinality(A) ELSE 0)
<1> DEFINE F == {t \in T : f[t] \in L}
           G == {t \in T : g[t] \in L}
<1> USE DEF Woken
<1>1. IsFiniteSet(F) /\ IsFiniteSet(A)
  <2>1. F \in SUBSET T /\ A \in SUBSET T
    OBVIOUS
  <2> QED
    BY <2>1, FS_Subset
<1>2. Cardinality(F) \in Nat /\ Cardinality(A) \in Nat
  BY <1>1, FS_CardinalityType
<1>3. CASE "recount" \in L
  <2>1. G = F \cup A
    BY <1>3
  <2>2. F \cap A = {}
    OBVIOUS
  <2> HIDE DEF F, G
  <2>3. Cardinality(G) = Cardinality(F) + Cardinality(A) - Cardinality(F \cap A)
    BY <1>1, <2>1, FS_Union
  <2>4. Cardinality(F \cap A) = 0
    BY <2>2, FS_EmptySet
  <2>5. Cardinality(G) = Cardinality(F) + Cardinality(A)
    BY <1>2, <2>3, <2>4
  <2> QED
    BY <1>3, <2>5 DEF NumOf, F, G
<1>4. CASE "recount" \notin L
  <2>1. G = F
    BY <1>4
  <2> HIDE DEF F, G
  <2>2. Cardinality(G) = Cardinality(F) + 0
    BY <1>2, <2>1
  <2> QED
    BY <1>4, <2>2 DEF NumOf, F, G
<1> QED
  BY <1>3, <1>4

\* A step of FUTEX_WAKE: thread t goes on, and n sleepers with it, or all.
LEMMA WakeCounts ==
    ASSUME TypeOK, NEW t \in Threads, NEW from, NEW to, NEW n,
           from \notin {"asleep", "recount"}, to # "asleep", Wake(t, from, to, n)
    PROVE  \E woken \in SUBSET Sleepers :
              /\ Cardinality(woken) \in Nat
              /\ Cardinality(woken) = n \/ Sleepers' = {}
              /\ Sleepers' \subseteq Sleepers
              /\ pc'[t] = to
              /\ \A w \in Workers \ {t} : pc'[w] = IF w \in woken THEN "recount" ELSE pc[w]
              /\ \A L : "asleep" \notin L =>
                    Num(Workers, L)' = Num(Workers, L)
                        + (IF "recount" \in L THEN Cardinality(woken) ELSE 0)
                        + (IF t \in Workers /\ to \in L THEN 1 ELSE 0)
                        - (IF t \in Workers /\ from \in L THEN 1 ELSE 0)
              /\ \A L : Num(Producers, L)' = Num(Producers, L)
                        + (IF t \in Producers /\ to \in L THEN 1 ELSE 0)
                        - (IF t \in Producers /\ from \in L THEN 1 ELSE 0)
<1>1. PICK woken \in SUBSET Sleepers :
         /\ Cardinality(woken) = (IF Cardinality(Sleepers) < n
                                  THEN Cardinality(Sleepers) ELSE n)
         /\ pc' = [s \in Threads |-> IF s = t THEN to
                                     ELSE IF s \in woken THEN "recount" ELSE pc[s]]
  BY DEF Wake
<1> DEFINE mid == [s \in Threads |-> IF s \in woken THEN "recount" ELSE pc[s]]
<1>2. /\ pc[t] = from /\ pc' = [s \in Threads |-> IF s = t THEN to ELSE mid[s]]
      /\ t \notin woken /\ Sleepers \in SUBSET Workers
      /\ Workers \subseteq Threads /\ Producers \subseteq Threads
      /\ IsFiniteSet(Workers) /\ IsFiniteSet(Producers) /\ woken \cap Producers = {}
      /\ Sleepers = {w \in Workers : pc[w] = "asleep"}
  BY <1>1, ThreadAssumption DEF Wake, Sleepers, Threads
<1>3. /\ Woken(pc, mid, woken, Workers) /\ mid[t] = from
      /\ Moved(mid, pc', t, to, Workers) /\ Moved(pc, pc', t, to, Producers)
  BY <1>2 DEF Woken, Moved
<1>4. IsFiniteSet(Sleepers) /\ IsFiniteSet(woken)
  BY <1>2, FS_Subset
<1>5. Cardinality(woken) \in Nat /\ Cardinality(Sleepers) \in Nat
  BY <1>4, FS_CardinalityType
<1>6. Cardinality(woken) = n \/ woken = Sleepers
  BY <1>1, <1>4, <1>5, FS_Subset
<1>7. Sleepers' = Sleepers \ woken
  BY <1>2 DEF Sleepers
<1> HIDE DEF mid
<1>8. ASSUME NEW L, "asleep" \notin L
      PROVE  Num(Workers, L)' = Num(Workers, L)
                + (IF "recount" \in L THEN Cardinality(woken) ELSE 0)
                + (IF t \in Workers /\ to \in L THEN 1 ELSE 0)
                - (IF t \in Workers /\ from \in L THEN 1 ELSE 0)
  <2>1. NumOf(mid, Workers, L) = NumOf(pc, Workers, L)
                + (IF "recount" \in L THEN Cardinality(woken) ELSE 0)
    BY SMTT(60), <1>2, <1>3, <1>8, NumWoken
  <2>2. NumOf(pc', Workers, L) = NumOf(mid, Workers, L)
                + (IF t \in Workers /\ to \in L THEN 1 ELSE 0)
                - (IF t \in Workers /\ mid[t] \in L THEN 1 ELSE 0)
    BY <1>2, <1>3, NumMove
  <2> QED
    BY <1>3, <2>1, <2>2 DEF Num
<1>9. ASSUME NEW L
      PROVE  Num(Producers, L)' = Num(Producers, L)
                + (IF t \in Producers /\ to \in L THEN 1 ELSE 0)
                - (IF t \in Producers /\ from \in L THEN 1 ELSE 0)
  <2>1. NumOf(pc', Producers, L) = NumOf(pc, Producers, L)
                + (IF t \in Producers /\ to \in L THEN 1 ELSE 0)
                - (IF t \in Producers /\ pc[t] \in L THEN 1 ELSE 0)
    BY <1>2, <1>3, NumMove
  <2> QED
    BY <1>2, <2>1 DEF Num
<1>10. /\ pc'[t] = to
       /\ \A w \in Workers \ {t} : pc'[w] = IF w \in woken THEN "recount" ELSE pc[w]
  BY <1>1, <1>2
<1> WITNESS woken \in SUBSET Sleepers
<1> QED
  BY <1>5, <1>6, <1>7, <1>8, <1>9, <1>10

\* Covered survives a step that does not add to what nobody looks for, nor
\* takes away from those who come, unless it adds as much to the other side.
LEMMA CoverKept ==
    ASSUME TypeOK, TypeOK', Covered,
           m_count + coming + signalling <= m_count' + coming' + signalling',
           Sleepers' \subseteq Sleepers,
           Hidden => Hidden',
           \A v \in Workers : pc[v] = "spin_wake" => pc'[v] = "spin_wake" /\ old'[v] = old[v]
    PROVE  Covered'
<1> USE DEF coming, signalling, Num
<1>1. /\ m_count \in Int /\ m_count' \in Int
      /\ coming \in Int /\ signalling \in Int /\ coming' \in Int /\ signalling' \in Int
  <2>1. (coming \in Nat /\ signalling \in Nat)'
    BY CountsType, PTL
  <2>2. m_count \in Int /\ m_count' \in Int
    BY DEF TypeOK
  <2> QED
    BY <2>1, <2>2, CountsType
<1>2. \A v \in Workers : old[v] \in Int
  BY DEF TypeOK, Threads
<1>3. ASSUME NEW k \in Int
      PROVE  0 - m_count <= coming + signalling - k
                => 0 - m_count' <= coming' + signalling' - k
  <2>1. \A a, b, c, d, e, f \in Int :
           a + b + c <= d + e + f /\ 0 - a <= b + c - k => 0 - d <= e + f - k
    OBVIOUS
  <2> QED
    BY <1>1, <2>1
<1>4. ASSUME Sleepers' # {}, ~Hidden'
      PROVE  \/ 0 - m_count' <= coming' + signalling'
             \/ \E w \in Workers :
                   pc'[w] = "spin_wake" /\ 0 - m_count' <= coming' + signalling' - old'[w]
  <2>1. \/ 0 - m_count <= coming + signalling
        \/ \E w \in Workers :
              pc[w] = "spin_wake" /\ 0 - m_count <= coming + signalling - old[w]
    BY <1>4 DEF Covered
  <2>2. CASE 0 - m_count <= coming + signalling
    <3>1. 0 - m_count <= coming + signalling - 0
      BY <1>1, <2>2
    <3>2. 0 - m_count' <= coming' + signalling' - 0
      BY <1>3, <3>1
    <3> QED
      BY <1>1, <3>2
  <2>3. ASSUME NEW w \in Workers, pc[w] = "spin_wake",
               0 - m_count <= coming + signalling - old[w]
        PROVE  pc'[w] = "spin_wake" /\ 0 - m_count' <= coming' + signalling' - old'[w]
    BY <1>2, <1>3, <2>3
  <2> QED
    BY <2>1, <2>2, <2>3
<1> QED
  BY <1>4 DEF Covered
\* What is added on one side may be taken away on the other.
LEMMA SumKept ==
    /\ \A m, n, c, d, x, y \in Int :
          m + x <= n + y => m + c + d <= n + (c + y - x) + d
    /\ \A m, n, c, d, x, y \in Int :
          m + x <= n + y => m + d + c <= n + d + (c + y - x)
OBVIOUS

\* The steps of a worker that only go on, and of a producer that do.
LEMMA WorkerCovered ==
    ASSUME TypeOK, TypeOK', Covered, NEW w \in Workers, NEW from, NEW to,
           Go(w, from, to), from \notin {"spin_load", "spin_wake"}, to # "asleep",
           big_spin_count' = big_spin_count, \A v \in Workers \ {w} : old'[v] = old[v],
           m_count + (IF from \in Coming THEN 1 ELSE 0)
              <= m_count' + (IF to \in Coming THEN 1 ELSE 0)
    PROVE  Covered'
<1>1. /\ coming' = coming + (IF to \in Coming THEN 1 ELSE 0)
                          - (IF from \in Coming THEN 1 ELSE 0)
      /\ signalling' = signalling
  BY WorkerCounts
<1>2. coming \in Nat /\ signalling \in Nat /\ m_count \in Int /\ m_count' \in Int
  BY CountsType DEF TypeOK
<1>3. m_count + coming + signalling <= m_count' + coming' + signalling'
  <2> DEFINE x == IF from \in Coming THEN 1 ELSE 0
             y == IF to \in Coming THEN 1 ELSE 0
  <2>1. x \in Int /\ y \in Int /\ m_count + x <= m_count' + y
    OBVIOUS
  <2>2. coming' = coming + y - x /\ signalling' = signalling
    BY <1>1
  <2> HIDE DEF x, y
  <2>0. x \in Int /\ y \in Int /\ coming \in Int /\ signalling \in Int
          /\ m_count \in Int /\ m_count' \in Int
    BY <1>2, <2>1
  <2>3. m_count + coming + signalling <= m_count' + (coming + y - x) + signalling
    BY <2>0, <2>1, SumKept
  <2> QED
    BY <2>2, <2>3
<1>a. pc[w] = from
  BY DEF Go
<1>b. \A v \in Workers : pc'[v] = IF v = w THEN to ELSE pc[v]
  BY WorkerMove
<1>4. pc[w] = from /\ \A v \in Workers : pc'[v] = IF v = w THEN to ELSE pc[v]
  BY <1>a, <1>b
<1>5. Sleepers' \subseteq Sleepers
  BY <1>4 DEF Sleepers
<1>6. Hidden => Hidden'
  BY <1>4 DEF Hidden
<1>7. \A v \in Workers : pc[v] = "spin_wake" => pc'[v] = "spin_wake" /\ old'[v] = old[v]
  BY <1>4
<1> QED
  BY <1>3, <1>5, <1>6, <1>7, CoverKept

\* A producer's step leaves the tasks covered when it takes no signal away.
LEMMA ProducerCovered ==
    ASSUME TypeOK, TypeOK', Covered, NEW p \in Producers, NEW from, NEW to,
           Go(p, from, to), UNCHANGED <<big_spin_count, old>>,
           m_count + (IF from \in Signalling THEN 1 ELSE 0)
              <= m_count' + (IF to \in Signalling THEN 1 ELSE 0)
    PROVE  Covered'
<1>1. /\ signalling' = signalling + (IF to \in Signalling THEN 1 ELSE 0)
                                  - (IF from \in Signalling THEN 1 ELSE 0)
      /\ coming' = coming
  BY ProducerCounts
<1>2. coming \in Nat /\ signalling \in Nat /\ m_count \in Int /\ m_count' \in Int
  BY CountsType DEF TypeOK
<1>3. m_count + coming + signalling <= m_count' + coming' + signalling'
  <2> DEFINE x == IF from \in Signalling THEN 1 ELSE 0
             y == IF to \in Signalling THEN 1 ELSE 0
  <2>1. x \in Int /\ y \in Int /\ m_count + x <= m_count' + y
    OBVIOUS
  <2>2. signalling' = signalling + y - x /\ coming' = coming
    BY <1>1
  <2> HIDE DEF x, y
  <2>0. x \in Int /\ y \in Int /\ coming \in Int /\ signalling \in Int
          /\ m_count \in Int /\ m_count' \in Int
    BY <1>2, <2>1
  <2>3. m_count + coming + signalling <= m_count' + coming + (signalling + y - x)
    BY <2>0, <2>1, SumKept
  <2> QED
    BY <2>2, <2>3
<1>4. \A v \in Workers : pc'[v] = pc[v]
  BY ProducerMove
<1>5. Sleepers' \subseteq Sleepers
  BY <1>4 DEF Sleepers
<1>6. Hidden => Hidden'
  BY <1>4 DEF Hidden
<1>7. \A v \in Workers : pc[v] = "spin_wake" => pc'[v] = "spin_wake" /\ old'[v] = old[v]
  BY <1>4
<1> QED
  BY <1>3, <1>5, <1>6, <1>7, CoverKept

\* As long as more workers look than there are tasks, nothing is uncovered.
LEMMA NothingPending ==
    ASSUME TypeOK', m_count' >= 0
    PROVE  Covered'
<1>1. (coming \in Nat /\ signalling \in Nat)'
  BY CountsType, PTL
<1>2. m_count' \in Int
  BY DEF TypeOK
<1>3. 0 - m_count' <= coming' + signalling'
  BY <1>1, <1>2 DEF coming, signalling, Num
<1> QED
  BY <1>3 DEF Covered

\* enqueue, limit_queue has a position for the task.
LEMMA TryEnqueueStep ==
    ASSUME TypeOK, Counted, Covered, NEW p \in Producers, TryEnqueue(p)
    PROVE  QueueInv'
<1>0. p \in Threads
  BY DEF Threads
<1>1. Go(p, "idle", "fill")
  BY <1>0 DEF TryEnqueue, queues, bounds, history
<1>2. unsignalled' = unsignalled + 1 /\ UNCHANGED <<looking, shrinking, spinners, growing>>
  BY <1>1, ProducerCounts, CountsType DEF Unsignalled, Signalling
<1>3. TypeOK'
  BY <1>0, <1>1, CapacityAssumption, BoundAssumption DEF TryEnqueue, queues, bounds,
     history, TypeOK, Go, ProducerPC, WorkerPC
<1>4. Counted'
  BY <1>0, <1>2, CountsType DEF TryEnqueue, queues, bounds, history, Counted, TypeOK, Pending
<1>5. Covered'
  BY <1>0, <1>1, <1>3, ProducerCovered DEF TryEnqueue, queues, bounds, history, TypeOK,
     Signalling
<1> QED
  BY <1>3, <1>4, <1>5 DEF QueueInv

\* The slot has been filled.
LEMMA FilledStep ==
    ASSUME TypeOK, Counted, Covered, NEW p \in Producers, Filled(p)
    PROVE  QueueInv'
<1>0. p \in Threads
  BY DEF Threads
<1>1. Go(p, "fill", "signal")
  BY <1>0 DEF Filled, queues, bounds, history
<1>2. UNCHANGED <<looking, shrinking, spinners, growing, unsignalled>>
  BY <1>1, ProducerCounts, CountsType DEF Unsignalled, Signalling
<1>3. TypeOK'
  BY <1>0, <1>1 DEF Filled, queues, bounds, history, TypeOK, Go, ProducerPC, WorkerPC
<1>4. Counted'
  BY <1>0, <1>2, CountsType DEF Filled, queues, bounds, history, Counted, TypeOK, Pending
<1>5. Covered'
  BY <1>0, <1>1, <1>3, ProducerCovered DEF Filled, queues, bounds, history, TypeOK, Signalling
<1> QED
  BY <1>3, <1>4, <1>5 DEF QueueInv

\* enqueue, limit_queue refuses it.
LEMMA EnqueueRefusedStep ==
    ASSUME TypeOK, Counted, Covered, NEW p \in Producers, EnqueueRefused(p)
    PROVE  QueueInv'
<1>0. p \in Threads
  BY DEF Threads
<1>1. Go(p, "idle", "push")
  BY <1>0 DEF EnqueueRefused, queues, bounds, history
<1>2. UNCHANGED <<looking, shrinking, spinners, growing, unsignalled>>
  BY <1>1, ProducerCounts, CountsType DEF Unsignalled, Signalling
<1>3. TypeOK'
  BY <1>0, <1>1, CapacityAssumption, BoundAssumption DEF EnqueueRefused, queues, bounds,
     history, TypeOK, Go, ProducerPC, WorkerPC
<1>4. Counted'
  BY <1>0, <1>2, CountsType DEF EnqueueRefused, queues, bounds, history, Counted, TypeOK,
     Pending
<1>5. Covered'
  BY <1>0, <1>1, <1>3, ProducerCovered DEF EnqueueRefused, queues, bounds, history, TypeOK,
     Signalling
<1> QED
  BY <1>3, <1>4, <1>5 DEF QueueInv

\* The push on the locked queue.
LEMMA PushStep ==
    ASSUME TypeOK, Counted, Covered, NEW p \in Producers, Push(p)
    PROVE  QueueInv'
<1>0. p \in Threads
  BY DEF Threads
<1>1. Go(p, "push", "grow")
  BY <1>0 DEF Push, queues, bounds, history
<1>2. /\ growing' = growing + 1 /\ unsignalled' = unsignalled + 1
      /\ UNCHANGED <<looking, shrinking, spinners>>
  BY <1>1, ProducerCounts, CountsType DEF Unsignalled, Signalling
<1>3. TypeOK'
  BY <1>0, <1>1 DEF Push, queues, bounds, history, TypeOK, Go, ProducerPC, WorkerPC
<1>4. Counted'
  BY <1>0, <1>2, CountsType DEF Push, queues, bounds, history, Counted, TypeOK, Pending
<1>5. Covered'
  BY <1>0, <1>1, <1>3, ProducerCovered DEF Push, queues, bounds, history, TypeOK, Signalling
<1> QED
  BY <1>3, <1>4, <1>5 DEF QueueInv

\* The size of the locked queue after a push.
LEMMA GrowStep ==
    ASSUME TypeOK, Counted, Covered, NEW p \in Producers, Grow(p)
    PROVE  QueueInv'
<1>0. p \in Threads
  BY DEF Threads
<1>1. Go(p, "grow", "signal")
  BY <1>0 DEF Grow, queues, bounds, history
<1>2. growing' = growing - 1 /\ UNCHANGED <<looking, shrinking, spinners, unsignalled>>
  BY <1>1, ProducerCounts, CountsType DEF Unsignalled, Signalling
<1>3. TypeOK'
  BY <1>0, <1>1 DEF Grow, queues, bounds, history, TypeOK, Go, ProducerPC, WorkerPC
<1>4. Counted'
  BY <1>0, <1>2, CountsType DEF Grow, queues, bounds, history, Counted, TypeOK, Pending
<1>5. Covered'
  BY <1>0, <1>1, <1>3, ProducerCovered DEF Grow, queues, bounds, history, TypeOK, Signalling
<1> QED
  BY <1>3, <1>4, <1>5 DEF QueueInv

\* signal() counts a task: if nobody looks for one, the producer goes on to wake.
LEMMA SignalStep ==
    ASSUME TypeOK, Counted, Covered, NEW p \in Producers, Signal(p)
    PROVE  QueueInv'
<1>0. p \in Threads
  BY DEF Threads
<1>1. CASE m_count <= 0
  <2>1. Go(p, "signal", "sig_spin")
    BY <1>0, <1>1 DEF Signal, queues, bounds, history
  <2>2. unsignalled' = unsignalled - 1 /\ UNCHANGED <<looking, shrinking, spinners, growing>>
    BY <2>1, ProducerCounts, CountsType DEF Unsignalled, Signalling
  <2>3. TypeOK'
    BY <1>0, <1>1, <2>1 DEF Signal, queues, bounds, history, TypeOK, Go, ProducerPC, WorkerPC
  <2>4. Counted'
    BY <1>0, <1>1, <2>2, CountsType DEF Signal, queues, bounds, history, Counted, TypeOK,
       Pending
  <2>5. Covered'
    BY <1>0, <1>1, <2>1, <2>3, ProducerCovered DEF Signal, queues, bounds, history, TypeOK,
       Signalling
  <2> QED
    BY <2>3, <2>4, <2>5 DEF QueueInv
<1>2. CASE ~(m_count <= 0)
  <2>1. Go(p, "signal", "idle")
    BY <1>0, <1>2 DEF Signal, queues, bounds, history
  <2>2. unsignalled' = unsignalled - 1 /\ UNCHANGED <<looking, shrinking, spinners, growing>>
    BY <2>1, ProducerCounts, CountsType DEF Unsignalled, Signalling
  <2>3. TypeOK'
    BY <1>0, <1>2, <2>1 DEF Signal, queues, bounds, history, TypeOK, Go, ProducerPC, WorkerPC
  <2>4. Counted'
    BY <1>0, <1>2, <2>2, CountsType DEF Signal, queues, bounds, history, Counted, TypeOK,
       Pending
  <2>5. Covered'
    BY <1>0, <1>2, <2>3, NothingPending DEF Signal, TypeOK
  <2> QED
    BY <2>3, <2>4, <2>5 DEF QueueInv
<1> QED
  BY <1>1, <1>2

\* signal() leaves the waking to spin_hold only while somebody is in it.
LEMMA SignalSpinStep ==
    ASSUME TypeOK, Counted, Covered, NEW p \in Producers, SignalSpin(p)
    PROVE  QueueInv'
<1>0. p \in Threads
  BY DEF Threads
<1>1. CASE big_spin_count = 0
  <2>1. Go(p, "sig_spin", "sig_load")
    BY <1>0, <1>1 DEF SignalSpin, queues, bounds, history
  <2>2. UNCHANGED <<looking, shrinking, spinners, growing, unsignalled>>
    BY <2>1, ProducerCounts, CountsType DEF Unsignalled, Signalling
  <2>3. TypeOK'
    BY <1>0, <1>1, <2>1 DEF SignalSpin, queues, bounds, history, TypeOK, Go, ProducerPC,
       WorkerPC
  <2>4. Counted'
    BY <1>0, <1>1, <2>2, CountsType DEF SignalSpin, queues, bounds, history, Counted,
       TypeOK, Pending
  <2>5. Covered'
    BY <1>0, <1>1, <2>1, <2>3, ProducerCovered DEF SignalSpin, queues, bounds, history,
       TypeOK, Signalling
  <2> QED
    BY <2>3, <2>4, <2>5 DEF QueueInv
<1>2. CASE big_spin_count # 0
  <2>1. Go(p, "sig_spin", "idle")
    BY <1>0, <1>2 DEF SignalSpin, queues, bounds, history
  <2>2. UNCHANGED <<looking, shrinking, spinners, growing, unsignalled>>
    BY <2>1, ProducerCounts, CountsType DEF Unsignalled, Signalling
  <2>3. TypeOK'
    BY <1>0, <1>2, <2>1 DEF SignalSpin, queues, bounds, history, TypeOK, Go, ProducerPC,
       WorkerPC
  <2>4. Counted'
    BY <1>0, <1>2, <2>2, CountsType DEF SignalSpin, queues, bounds, history, Counted,
       TypeOK, Pending
  <2>5. Covered'
    <3>1. Hidden'
      BY <1>0, <1>2 DEF SignalSpin, Hidden, TypeOK
    <3> QED
      BY <3>1 DEF Covered
  <2> QED
    BY <2>3, <2>4, <2>5 DEF QueueInv
<1> QED
  BY <1>1, <1>2

\* signal() wakes nobody when workers enough look.
LEMMA SignalLoadStep ==
    ASSUME TypeOK, Counted, Covered, NEW p \in Producers, SignalLoad(p)
    PROVE  QueueInv'
<1>0. p \in Threads
  BY DEF Threads
<1>1. CASE m_count < 0
  <2>1. Go(p, "sig_load", "sig_wake")
    BY <1>0, <1>1 DEF SignalLoad, queues, bounds, history
  <2>2. UNCHANGED <<looking, shrinking, spinners, growing, unsignalled>>
    BY <2>1, ProducerCounts, CountsType DEF Unsignalled, Signalling
  <2>3. TypeOK'
    BY <1>0, <1>1, <2>1 DEF SignalLoad, queues, bounds, history, TypeOK, Go, ProducerPC,
       WorkerPC
  <2>4. Counted'
    BY <1>0, <1>1, <2>2, CountsType DEF SignalLoad, queues, bounds, history, Counted,
       TypeOK, Pending
  <2>5. Covered'
    BY <1>0, <1>1, <2>1, <2>3, ProducerCovered DEF SignalLoad, queues, bounds, history,
       TypeOK, Signalling
  <2> QED
    BY <2>3, <2>4, <2>5 DEF QueueInv
<1>2. CASE ~(m_count < 0)
  <2>1. Go(p, "sig_load", "idle")
    BY <1>0, <1>2 DEF SignalLoad, queues, bounds, history
  <2>2. UNCHANGED <<looking, shrinking, spinners, growing, unsignalled>>
    BY <2>1, ProducerCounts, CountsType DEF Unsignalled, Signalling
  <2>3. TypeOK'
    BY <1>0, <1>2, <2>1 DEF SignalLoad, queues, bounds, history, TypeOK, Go, ProducerPC,
       WorkerPC
  <2>4. Counted'
    BY <1>0, <1>2, <2>2, CountsType DEF SignalLoad, queues, bounds, history, Counted,
       TypeOK, Pending
  <2>5. Covered'
    BY <1>0, <1>2, <2>3, NothingPending DEF SignalLoad, TypeOK
  <2> QED
    BY <2>3, <2>4, <2>5 DEF QueueInv
<1> QED
  BY <1>1, <1>2

\* A worker calls wait_dequeue.
LEMMA StartDequeueStep ==
    ASSUME TypeOK, Counted, Covered, NEW w \in Workers, StartDequeue(w)
    PROVE  QueueInv'
<1>0. w \in Threads
  BY DEF Threads
<1>1. Go(w, "idle", "spin_in")
  BY <1>0 DEF StartDequeue, queues, bounds, history
<1>2. UNCHANGED <<looking, shrinking, spinners, growing, unsignalled>>
  BY <1>1, WorkerCounts, CountsType DEF Looking, Coming
<1>3. TypeOK'
  BY <1>0, <1>1 DEF StartDequeue, queues, bounds, history, TypeOK, Go, ProducerPC, WorkerPC
<1>4. Counted'
  BY <1>0, <1>2, CountsType DEF StartDequeue, queues, bounds, history, Counted, TypeOK, Pending
<1>5. Covered'
  BY <1>0, <1>1, <1>3, WorkerCovered DEF StartDequeue, queues, bounds, history, TypeOK, Coming
<1> QED
  BY <1>3, <1>4, <1>5 DEF QueueInv

\* It enters spin_hold, and takes the waking on itself.
LEMMA SpinInStep ==
    ASSUME TypeOK, Counted, Covered, NEW w \in Workers, SpinIn(w)
    PROVE  QueueInv'
<1>0. w \in Threads
  BY DEF Threads
<1>1. Go(w, "spin_in", "spin_out")
  BY <1>0 DEF SpinIn, queues, bounds, history
<1>2. spinners' = spinners + 1 /\ UNCHANGED <<looking, shrinking, growing, unsignalled>>
  BY <1>1, WorkerCounts, CountsType DEF Looking, Coming
<1>3. TypeOK'
  BY <1>0, <1>1 DEF SpinIn, queues, bounds, history, TypeOK, Go, ProducerPC, WorkerPC
<1>4. Counted'
  BY <1>0, <1>2, CountsType DEF SpinIn, queues, bounds, history, Counted, TypeOK, Pending
<1>5. Covered'
  <2>1. Hidden'
    BY <1>0, CountsType DEF SpinIn, Hidden, TypeOK
  <2> QED
    BY <2>1 DEF Covered
<1> QED
  BY <1>3, <1>4, <1>5 DEF QueueInv

\* It leaves spin_hold; the last one has yet to load m_count.
LEMMA SpinOutStep ==
    ASSUME TypeOK, Counted, Covered, NEW w \in Workers, SpinOut(w)
    PROVE  QueueInv'
<1>0. w \in Threads
  BY DEF Threads
<1>1. CASE big_spin_count = 1
  <2>1. Go(w, "spin_out", "spin_load")
    BY <1>0, <1>1 DEF SpinOut, queues, bounds, history, AfterHold
  <2>2. spinners' = spinners - 1 /\ UNCHANGED <<looking, shrinking, growing, unsignalled>>
    BY <2>1, WorkerCounts, CountsType DEF Looking, Coming
  <2>a. big_spin_count - 1 \in Nat
    <3>1. (spinners \in Nat)'
      BY CountsType, PTL
    <3> QED
      BY <2>2, <3>1, CountsType DEF Counted
  <2>3. TypeOK'
    BY <1>0, <1>1, <2>1, <2>a DEF SpinOut, queues, bounds, history, AfterHold, TypeOK, Go,
       ProducerPC, WorkerPC
  <2>4. Counted'
    BY <1>0, <1>1, <2>2, <2>a, CountsType DEF SpinOut, queues, bounds, history, AfterHold,
       Counted, TypeOK, Pending
  <2>5. Covered'
    <3>1. pc'[w] = "spin_load"
      BY <1>0, <2>1 DEF TypeOK, Go
    <3> QED
      BY <3>1 DEF Covered, Hidden
  <2> QED
    BY <2>3, <2>4, <2>5 DEF QueueInv
<1>2. CASE big_spin_count # 1 /\ ~waiting[w]
  <2>1. Go(w, "spin_out", "count")
    BY <1>0, <1>2 DEF SpinOut, queues, bounds, history, AfterHold
  <2>2. spinners' = spinners - 1 /\ UNCHANGED <<looking, shrinking, growing, unsignalled>>
    BY <2>1, WorkerCounts, CountsType DEF Looking, Coming
  <2>a. big_spin_count - 1 \in Nat
    <3>1. (spinners \in Nat)'
      BY CountsType, PTL
    <3> QED
      BY <2>2, <3>1, CountsType DEF Counted
  <2>3. TypeOK'
    BY <1>0, <1>2, <2>1, <2>a DEF SpinOut, queues, bounds, history, AfterHold, TypeOK, Go,
       ProducerPC, WorkerPC
  <2>4. Counted'
    BY <1>0, <1>2, <2>2, <2>a, CountsType DEF SpinOut, queues, bounds, history, AfterHold,
       Counted, TypeOK, Pending
  <2>5. Covered'
    <3>1. Hidden'
      BY <1>0, <1>2, <2>3, CountsType DEF SpinOut, Hidden, TypeOK
    <3> QED
      BY <3>1 DEF Covered
  <2> QED
    BY <2>3, <2>4, <2>5 DEF QueueInv
<1>3. CASE big_spin_count # 1 /\ waiting[w]
  <2>1. Go(w, "spin_out", "futex")
    BY <1>0, <1>3 DEF SpinOut, queues, bounds, history, AfterHold
  <2>2. spinners' = spinners - 1 /\ UNCHANGED <<looking, shrinking, growing, unsignalled>>
    BY <2>1, WorkerCounts, CountsType DEF Looking, Coming
  <2>a. big_spin_count - 1 \in Nat
    <3>1. (spinners \in Nat)'
      BY CountsType, PTL
    <3> QED
      BY <2>2, <3>1, CountsType DEF Counted
  <2>3. TypeOK'
    BY <1>0, <1>3, <2>1, <2>a DEF SpinOut, queues, bounds, history, AfterHold, TypeOK, Go,
       ProducerPC, WorkerPC
  <2>4. Counted'
    BY <1>0, <1>3, <2>2, <2>a, CountsType DEF SpinOut, queues, bounds, history, AfterHold,
       Counted, TypeOK, Pending
  <2>5. Covered'
    <3>1. Hidden'
      BY <1>0, <1>3, <2>3, CountsType DEF SpinOut, Hidden, TypeOK
    <3> QED
      BY <3>1 DEF Covered
  <2> QED
    BY <2>3, <2>4, <2>5 DEF QueueInv
<1> QED
  BY <1>1, <1>2, <1>3 DEF AfterHold

\* The last one out of spin_hold resends the wake-ups that m_count asks for, but
\* one: it will look for a task itself.
LEMMA SpinLoadStep ==
    ASSUME TypeOK, Counted, Covered, NEW w \in Workers, SpinLoad(w)
    PROVE  QueueInv'
<1> DEFINE to == IF m_count + 1 < 0 THEN "spin_wake" ELSE AfterHold(w, TRUE)
<1>0. w \in Threads /\ m_count \in Int /\ to \in {"spin_wake", "count", "recount"}
  BY DEF Threads, TypeOK, AfterHold
<1>1. Go(w, "spin_load", to)
  BY DEF SpinLoad
<1>2. UNCHANGED <<looking, shrinking, spinners, growing, unsignalled, coming, signalling>>
  <2> HIDE DEF to
  <2> QED
    BY <1>0, <1>1, WorkerCounts, CountsType DEF Looking, Coming
<1>3. TypeOK'
  <2>1. pc' \in [Threads -> {"idle"} \cup ProducerPC \cup WorkerPC]
    <3> HIDE DEF to
    <3> QED
      BY <1>0, <1>1 DEF TypeOK, Go, WorkerPC
  <2>2. old' \in [Threads -> Int]
    BY <1>0 DEF SpinLoad, TypeOK
  <2> QED
    BY <2>1, <2>2 DEF SpinLoad, queues, bounds, history, TypeOK
<1>4. Counted'
  BY <1>2 DEF SpinLoad, queues, history, Counted, Pending
<1>5. w \in Workers /\ pc'[w] = to /\ coming >= 1
  <2>1. pc[w] = "spin_load" /\ pc'[w] = to
    BY <1>0, <1>1 DEF Go, TypeOK
  <2>2. w \in At(Workers, Coming)
    BY <2>1 DEF At, Coming
  <2>3. Cardinality(At(Workers, Coming)) # 0 /\ IsFiniteSet(At(Workers, Coming))
    BY <2>2, NumType, FS_EmptySet DEF Threads
  <2>4. coming = Cardinality(At(Workers, Coming))
    BY DEF coming, Num, NumOf, At
  <2> QED
    BY <2>1, <2>3, <2>4, CountsType
<1>6. Covered'
  <2>1. UNCHANGED m_count /\ coming \in Nat /\ signalling \in Nat
    BY CountsType DEF SpinLoad
  <2>2. CASE m_count + 1 < 0
    <3>1. pc'[w] = "spin_wake" /\ old'[w] = m_count + 1
      BY <1>0, <1>5, <2>2 DEF SpinLoad, TypeOK
    <3>2. 0 - m_count <= coming + signalling - (m_count + 1)
      BY <1>0, <1>5, <2>1
    <3> QED
      BY <1>2, <2>1, <3>1, <3>2 DEF Covered
  <2>3. CASE ~(m_count + 1 < 0)
    <3>1. 0 - m_count <= coming + signalling
      BY <1>0, <1>5, <2>1, <2>3
    <3> QED
      BY <1>2, <2>1, <3>1 DEF Covered
  <2> QED
    BY <2>2, <2>3
<1> QED
  BY <1>3, <1>4, <1>6 DEF QueueInv

\* And it wakes them: either as many as that, or everybody.
LEMMA SpinWakeStep ==
    ASSUME TypeOK, Counted, Covered, NEW w \in Workers, SpinWake(w)
    PROVE  QueueInv'
<1> DEFINE to == AfterHold(w, TRUE)
           n == 0 - old[w]
<1>0. /\ w \in Threads /\ w \notin Producers /\ m_count \in Int /\ old[w] \in Int
      /\ to \in {"count", "recount"}
  BY ThreadAssumption DEF Threads, TypeOK, AfterHold
<1>1. Wake(w, "spin_wake", to, n)
  BY DEF SpinWake
<1> HIDE DEF to, n
<1>2. PICK woken \in SUBSET Sleepers :
              /\ Cardinality(woken) \in Nat
              /\ Cardinality(woken) = n \/ Sleepers' = {}
              /\ Sleepers' \subseteq Sleepers
              /\ pc'[w] = to
              /\ \A v \in Workers \ {w} : pc'[v] = IF v \in woken THEN "recount" ELSE pc[v]
              /\ \A L : "asleep" \notin L =>
                    Num(Workers, L)' = Num(Workers, L)
                        + (IF "recount" \in L THEN Cardinality(woken) ELSE 0)
                        + (IF w \in Workers /\ to \in L THEN 1 ELSE 0)
                        - (IF w \in Workers /\ "spin_wake" \in L THEN 1 ELSE 0)
              /\ \A L : Num(Producers, L)' = Num(Producers, L)
                        + (IF w \in Producers /\ to \in L THEN 1 ELSE 0)
                        - (IF w \in Producers /\ "spin_wake" \in L THEN 1 ELSE 0)
  BY <1>0, <1>1, WakeCounts
<1>3. /\ UNCHANGED <<looking, shrinking, spinners, growing, unsignalled, signalling>>
      /\ coming' = coming + Cardinality(woken)
  <2>1. UNCHANGED <<looking, shrinking, spinners>>
    BY <1>0, <1>2, CountsType DEF looking, shrinking, spinners, Looking
  <2>2. UNCHANGED <<growing, unsignalled, signalling>>
    BY <1>0, <1>2, CountsType DEF growing, unsignalled, signalling
  <2>3. coming' = coming + Cardinality(woken)
    BY <1>0, <1>2, CountsType DEF coming, Coming
  <2> QED
    BY <2>1, <2>2, <2>3
<1>4. TypeOK'
  <2>1. pc' \in [Threads -> {"idle"} \cup ProducerPC \cup WorkerPC]
    BY <1>0, <1>1 DEF Wake, TypeOK, WorkerPC
  <2>2. old' \in [Threads -> Int]
    BY <1>0 DEF SpinWake, TypeOK
  <2> QED
    BY <2>1, <2>2 DEF SpinWake, queues, bounds, history, TypeOK
<1>5. Counted'
  BY <1>3 DEF SpinWake, queues, history, Counted, Pending
<1>6. UNCHANGED <<m_count, big_spin_count>> /\ \A v \in Workers \ {w} : old'[v] = old[v]
  BY <1>0 DEF SpinWake, TypeOK, Threads
<1>7. Hidden => Hidden'
  <2>1. pc[w] = "spin_wake" /\ \A v \in Sleepers : pc[v] = "asleep"
    BY <1>1 DEF Wake, Sleepers
  <2> QED
    BY <1>2, <1>6, <2>1 DEF Hidden
<1>8. coming \in Nat /\ signalling \in Nat /\ Cardinality(woken) \in Nat
  BY <1>2, CountsType
<1>9. ASSUME Sleepers' # {}, ~Hidden'
      PROVE  \/ 0 - m_count <= coming + Cardinality(woken) + signalling
             \/ \E v \in Workers : pc'[v] = "spin_wake"
                   /\ 0 - m_count <= coming + Cardinality(woken) + signalling - old'[v]
  <2>1. \/ 0 - m_count <= coming + signalling
        \/ \E v \in Workers : pc[v] = "spin_wake" /\ 0 - m_count <= coming + signalling - old[v]
    BY <1>2, <1>7, <1>9 DEF Covered
  <2>2. CASE 0 - m_count <= coming + signalling
    BY <1>0, <1>8, <2>2
  <2>3. ASSUME NEW v \in Workers, pc[v] = "spin_wake",
               0 - m_count <= coming + signalling - old[v]
        PROVE  \/ 0 - m_count <= coming + Cardinality(woken) + signalling
               \/ /\ pc'[v] = "spin_wake"
                  /\ 0 - m_count <= coming + Cardinality(woken) + signalling - old'[v]
    <3>1. CASE v = w
      <4>1. Cardinality(woken) = 0 - old[w]
        BY <1>2, <1>9 DEF n
      <4> QED
        BY <1>0, <1>8, <2>3, <3>1, <4>1
    <3>2. CASE v # w
      <4>1. old[v] \in Int /\ old'[v] = old[v] /\ v \notin woken
        BY <1>6, <2>3, <3>2 DEF TypeOK, Threads, Sleepers
      <4>2. pc'[v] = "spin_wake"
        BY <1>2, <2>3, <3>2, <4>1
      <4>3. 0 - m_count <= coming + Cardinality(woken) + signalling - old[v]
        BY <1>0, <1>8, <2>3, <4>1
      <4> QED
        BY <4>1, <4>2, <4>3
    <3> QED
      BY <3>1, <3>2
  <2> QED
    BY <2>1, <2>2, <2>3
<1>10. Covered'
  BY <1>3, <1>6, <1>9 DEF Covered
<1> QED
  BY <1>4, <1>5, <1>10 DEF QueueInv

\* signal() wakes a sleeper, if there is one.
LEMMA SignalWakeStep ==
    ASSUME TypeOK, Counted, Covered, NEW p \in Producers, SignalWake(p)
    PROVE  QueueInv'
<1>0. p \in Threads /\ p \notin Workers /\ m_count \in Int
  BY ThreadAssumption DEF Threads, TypeOK
<1>1. Wake(p, "sig_wake", "idle", 1)
  BY DEF SignalWake
<1>2. PICK woken \in SUBSET Sleepers :
              /\ Cardinality(woken) \in Nat
              /\ Cardinality(woken) = 1 \/ Sleepers' = {}
              /\ Sleepers' \subseteq Sleepers
              /\ pc'[p] = "idle"
              /\ \A v \in Workers \ {p} : pc'[v] = IF v \in woken THEN "recount" ELSE pc[v]
              /\ \A L : "asleep" \notin L =>
                    Num(Workers, L)' = Num(Workers, L)
                        + (IF "recount" \in L THEN Cardinality(woken) ELSE 0)
                        + (IF p \in Workers /\ "idle" \in L THEN 1 ELSE 0)
                        - (IF p \in Workers /\ "sig_wake" \in L THEN 1 ELSE 0)
              /\ \A L : Num(Producers, L)' = Num(Producers, L)
                        + (IF p \in Producers /\ "idle" \in L THEN 1 ELSE 0)
                        - (IF p \in Producers /\ "sig_wake" \in L THEN 1 ELSE 0)
  BY <1>0, <1>1, WakeCounts
<1>3. /\ UNCHANGED <<looking, shrinking, spinners, growing, unsignalled>>
      /\ coming' = coming + Cardinality(woken) /\ signalling' = signalling - 1
  <2>1. UNCHANGED <<looking, shrinking, spinners>>
    BY <1>0, <1>2, CountsType DEF looking, shrinking, spinners, Looking
  <2>2. UNCHANGED <<growing, unsignalled>>
    BY <1>0, <1>2, CountsType DEF growing, unsignalled, Unsignalled
  <2>3. signalling' = signalling - 1
    BY <1>0, <1>2, CountsType DEF signalling, Signalling
  <2>4. coming' = coming + Cardinality(woken)
    BY <1>0, <1>2, CountsType DEF coming, Coming
  <2> QED
    BY <2>1, <2>2, <2>3, <2>4
<1>4. TypeOK'
  <2>1. pc' \in [Threads -> {"idle"} \cup ProducerPC \cup WorkerPC]
    BY <1>0, <1>1 DEF Wake, TypeOK, WorkerPC
  <2> QED
    BY <2>1 DEF SignalWake, queues, bounds, history, TypeOK
<1>5. Counted'
  BY <1>3 DEF SignalWake, queues, history, Counted, Pending
<1>6. UNCHANGED <<m_count, big_spin_count, old>>
  BY DEF SignalWake
<1>7. coming \in Nat /\ signalling \in Nat /\ Cardinality(woken) \in Nat
  BY <1>2, CountsType
<1>8. CASE Cardinality(woken) = 1
  <2>1. m_count + coming + signalling <= m_count + (coming + 1) + (signalling - 1)
    BY <1>0, <1>7
  <2>2. m_count + coming + signalling <= m_count' + coming' + signalling'
    BY <1>3, <1>6, <1>8, <2>1
  <2>3. \A v \in Workers : pc[v] # "asleep" => pc'[v] = pc[v] /\ old'[v] = old[v]
    BY <1>0, <1>2, <1>6 DEF Sleepers
  <2>4. Hidden => Hidden'
    BY <1>6, <2>3 DEF Hidden
  <2>5. \A v \in Workers : pc[v] = "spin_wake" => pc'[v] = "spin_wake" /\ old'[v] = old[v]
    BY <2>3
  <2>6. Covered'
    BY <1>2, <1>4, <2>2, <2>4, <2>5, CoverKept
  <2> QED
    BY <1>4, <1>5, <2>6 DEF QueueInv
<1>9. CASE Sleepers' = {}
  BY <1>4, <1>5, <1>9 DEF QueueInv, Covered
<1> QED
  BY <1>2, <1>8, <1>9

\* It counts itself and looks for a task.
LEMMA CountStep ==
    ASSUME TypeOK, Counted, Covered, NEW w \in Workers, Count(w)
    PROVE  QueueInv'
<1>0. w \in Threads
  BY DEF Threads
<1>1. Go(w, "count", "try_limit")
  BY <1>0 DEF Count, queues, bounds, history
<1>2. looking' = looking + 1 /\ UNCHANGED <<shrinking, spinners, growing, unsignalled>>
  BY <1>1, WorkerCounts, CountsType DEF Looking, Coming
<1>3. TypeOK'
  BY <1>0, <1>1 DEF Count, queues, bounds, history, TypeOK, Go, ProducerPC, WorkerPC
<1>4. Counted'
  BY <1>0, <1>2, CountsType DEF Count, queues, bounds, history, Counted, TypeOK, Pending
<1>5. Covered'
  BY <1>0, <1>1, <1>3, WorkerCovered DEF Count, queues, bounds, history, TypeOK, Coming
<1> QED
  BY <1>3, <1>4, <1>5 DEF QueueInv

\* limit_queue has a task.
LEMMA TryDequeueStep ==
    ASSUME TypeOK, Counted, Covered, NEW w \in Workers, TryDequeue(w)
    PROVE  QueueInv'
<1>0. w \in Threads
  BY DEF Threads
<1>1. Go(w, "try_limit", "drain")
  BY <1>0 DEF TryDequeue, queues, bounds, history
<1>2. looking' = looking - 1 /\ UNCHANGED <<shrinking, spinners, growing, unsignalled>>
  BY <1>1, WorkerCounts, CountsType DEF Looking, Coming
<1>3. TypeOK'
  BY <1>0, <1>1, CapacityAssumption, BoundAssumption DEF TryDequeue, queues, bounds,
     history, TypeOK, Go, ProducerPC, WorkerPC
<1>4. Counted'
  BY <1>0, <1>2, CountsType DEF TryDequeue, queues, bounds, history, Counted, TypeOK, Pending
<1>5. Covered'
  BY <1>0, <1>1, <1>3, WorkerCovered DEF TryDequeue, queues, bounds, history, TypeOK, Coming
<1> QED
  BY <1>3, <1>4, <1>5 DEF QueueInv

\* The slot has been emptied.
LEMMA DrainStep ==
    ASSUME TypeOK, Counted, Covered, NEW w \in Workers, Drain(w)
    PROVE  QueueInv'
<1>0. w \in Threads
  BY DEF Threads
<1>1. Go(w, "drain", "idle")
  BY <1>0 DEF Drain, queues, bounds, history
<1>2. UNCHANGED <<looking, shrinking, spinners, growing, unsignalled>>
  BY <1>1, WorkerCounts, CountsType DEF Looking, Coming
<1>3. TypeOK'
  BY <1>0, <1>1 DEF Drain, queues, bounds, history, TypeOK, Go, ProducerPC, WorkerPC
<1>4. Counted'
  BY <1>0, <1>2, CountsType DEF Drain, queues, bounds, history, Counted, TypeOK, Pending
<1>5. Covered'
  BY <1>0, <1>1, <1>3, WorkerCovered DEF Drain, queues, bounds, history, TypeOK, Coming
<1> QED
  BY <1>3, <1>4, <1>5 DEF QueueInv

\* limit_queue has none, or says so.
LEMMA DequeueRefusedStep ==
    ASSUME TypeOK, Counted, Covered, NEW w \in Workers, DequeueRefused(w)
    PROVE  QueueInv'
<1>0. w \in Threads
  BY DEF Threads
<1>1. Go(w, "try_limit", "try_size")
  BY <1>0 DEF DequeueRefused, queues, bounds, history
<1>2. UNCHANGED <<looking, shrinking, spinners, growing, unsignalled>>
  BY <1>1, WorkerCounts, CountsType DEF Looking, Coming
<1>3. TypeOK'
  BY <1>0, <1>1, CapacityAssumption, BoundAssumption DEF DequeueRefused, queues, bounds,
     history, TypeOK, Go, ProducerPC, WorkerPC
<1>4. Counted'
  BY <1>0, <1>2, CountsType DEF DequeueRefused, queues, bounds, history, Counted, TypeOK,
     Pending
<1>5. Covered'
  BY <1>0, <1>1, <1>3, WorkerCovered DEF DequeueRefused, queues, bounds, history, TypeOK, Coming
<1> QED
  BY <1>3, <1>4, <1>5 DEF QueueInv

\* The size of the locked queue is loaded.
LEMMA TrySizeStep ==
    ASSUME TypeOK, Counted, Covered, NEW w \in Workers, TrySize(w)
    PROVE  QueueInv'
<1>0. w \in Threads
  BY DEF Threads
<1>1. CASE inner_size # 0
  <2>1. Go(w, "try_size", "try_pop")
    BY <1>0, <1>1 DEF TrySize, queues, bounds, history
  <2>2. UNCHANGED <<looking, shrinking, spinners, growing, unsignalled>>
    BY <2>1, WorkerCounts, CountsType DEF Looking, Coming
  <2>3. TypeOK'
    BY <1>0, <1>1, <2>1 DEF TrySize, queues, bounds, history, TypeOK, Go, ProducerPC, WorkerPC
  <2>4. Counted'
    BY <1>0, <1>1, <2>2, CountsType DEF TrySize, queues, bounds, history, Counted, TypeOK,
       Pending
  <2>5. Covered'
    BY <1>0, <1>1, <2>1, <2>3, WorkerCovered DEF TrySize, queues, bounds, history, TypeOK,
       Coming
  <2> QED
    BY <2>3, <2>4, <2>5 DEF QueueInv
<1>2. CASE inner_size = 0
  <2>1. Go(w, "try_size", "wait")
    BY <1>0, <1>2 DEF TrySize, queues, bounds, history
  <2>2. UNCHANGED <<looking, shrinking, spinners, growing, unsignalled>>
    BY <2>1, WorkerCounts, CountsType DEF Looking, Coming
  <2>3. TypeOK'
    BY <1>0, <1>2, <2>1 DEF TrySize, queues, bounds, history, TypeOK, Go, ProducerPC, WorkerPC
  <2>4. Counted'
    BY <1>0, <1>2, <2>2, CountsType DEF TrySize, queues, bounds, history, Counted, TypeOK,
       Pending
  <2>5. Covered'
    BY <1>0, <1>2, <2>1, <2>3, WorkerCovered DEF TrySize, queues, bounds, history, TypeOK,
       Coming
  <2> QED
    BY <2>3, <2>4, <2>5 DEF QueueInv
<1> QED
  BY <1>1, <1>2

\* The pop from the locked queue.
LEMMA TryPopStep ==
    ASSUME TypeOK, Counted, Covered, NEW w \in Workers, TryPop(w)
    PROVE  QueueInv'
<1>0. w \in Threads
  BY DEF Threads
<1>1. CASE unlimit_queue = 0
  <2>1. Go(w, "try_pop", "wait")
    BY <1>0, <1>1 DEF TryPop, queues, bounds, history
  <2>2. UNCHANGED <<looking, shrinking, spinners, growing, unsignalled>>
    BY <2>1, WorkerCounts, CountsType DEF Looking, Coming
  <2>3. TypeOK'
    BY <1>0, <1>1, <2>1 DEF TryPop, queues, bounds, history, TypeOK, Go, ProducerPC, WorkerPC
  <2>4. Counted'
    BY <1>0, <1>1, <2>2, CountsType DEF TryPop, queues, bounds, history, Counted, TypeOK,
       Pending
  <2>5. Covered'
    BY <1>0, <1>1, <2>1, <2>3, WorkerCovered DEF TryPop, queues, bounds, history, TypeOK, Coming
  <2> QED
    BY <2>3, <2>4, <2>5 DEF QueueInv
<1>2. CASE unlimit_queue # 0
  <2>1. Go(w, "try_pop", "shrink")
    BY <1>0, <1>2 DEF TryPop, queues, bounds, history
  <2>2. /\ looking' = looking - 1 /\ shrinking' = shrinking + 1
        /\ UNCHANGED <<spinners, growing, unsignalled>>
    BY <2>1, WorkerCounts, CountsType DEF Looking, Coming
  <2>3. TypeOK'
    BY <1>0, <1>2, <2>1 DEF TryPop, queues, bounds, history, TypeOK, Go, ProducerPC, WorkerPC
  <2>4. Counted'
    BY <1>0, <1>2, <2>2, CountsType DEF TryPop, queues, bounds, history, Counted, TypeOK,
       Pending
  <2>5. Covered'
    BY <1>0, <1>2, <2>1, <2>3, WorkerCovered DEF TryPop, queues, bounds, history, TypeOK, Coming
  <2> QED
    BY <2>3, <2>4, <2>5 DEF QueueInv
<1> QED
  BY <1>1, <1>2

\* The size of the locked queue after a pop.
LEMMA ShrinkStep ==
    ASSUME TypeOK, Counted, Covered, NEW w \in Workers, Shrink(w)
    PROVE  QueueInv'
<1>0. w \in Threads
  BY DEF Threads
<1>1. Go(w, "shrink", "idle")
  BY <1>0 DEF Shrink, queues, bounds, history
<1>2. shrinking' = shrinking - 1 /\ UNCHANGED <<looking, spinners, growing, unsignalled>>
  BY <1>1, WorkerCounts, CountsType DEF Looking, Coming
<1>3. TypeOK'
  BY <1>0, <1>1 DEF Shrink, queues, bounds, history, TypeOK, Go, ProducerPC, WorkerPC
<1>4. Counted'
  BY <1>0, <1>2, CountsType DEF Shrink, queues, bounds, history, Counted, TypeOK, Pending
<1>5. Covered'
  BY <1>0, <1>1, <1>3, WorkerCovered DEF Shrink, queues, bounds, history, TypeOK, Coming
<1> QED
  BY <1>3, <1>4, <1>5 DEF QueueInv

\* It stops counting itself, and may go to sleep.
LEMMA WaitCountStep ==
    ASSUME TypeOK, Counted, Covered, NEW w \in Workers, WaitCount(w)
    PROVE  QueueInv'
<1>0. w \in Threads
  BY DEF Threads
<1>1. CASE m_count < 0
  <2>1. Go(w, "wait", "recount")
    BY <1>0, <1>1 DEF WaitCount, queues, bounds, history
  <2>2. looking' = looking - 1 /\ UNCHANGED <<shrinking, spinners, growing, unsignalled>>
    BY <2>1, WorkerCounts, CountsType DEF Looking, Coming
  <2>3. TypeOK'
    BY <1>0, <1>1, <2>1 DEF WaitCount, queues, bounds, history, TypeOK, Go, ProducerPC, WorkerPC
  <2>4. Counted'
    BY <1>0, <1>1, <2>2, CountsType DEF WaitCount, queues, bounds, history, Counted, TypeOK,
       Pending
  <2>5. Covered'
    BY <1>0, <1>1, <2>1, <2>3, WorkerCovered DEF WaitCount, queues, bounds, history, TypeOK,
       Coming
  <2> QED
    BY <2>3, <2>4, <2>5 DEF QueueInv
<1>2. CASE ~(m_count < 0)
  <2>1. Go(w, "wait", "spin_in")
    BY <1>0, <1>2 DEF WaitCount, queues, bounds, history
  <2>2. looking' = looking - 1 /\ UNCHANGED <<shrinking, spinners, growing, unsignalled>>
    BY <2>1, WorkerCounts, CountsType DEF Looking, Coming
  <2>3. TypeOK'
    BY <1>0, <1>2, <2>1 DEF WaitCount, queues, bounds, history, TypeOK, Go, ProducerPC, WorkerPC
  <2>4. Counted'
    BY <1>0, <1>2, <2>2, CountsType DEF WaitCount, queues, bounds, history, Counted, TypeOK,
       Pending
  <2>5. Covered'
    BY <1>0, <1>2, <2>1, <2>3, WorkerCovered DEF WaitCount, queues, bounds, history, TypeOK,
       Coming
  <2> QED
    BY <2>3, <2>4, <2>5 DEF QueueInv
<1> QED
  BY <1>1, <1>2

\* It sleeps only if no task is left without a worker that looks for it.
LEMMA FutexWaitStep ==
    ASSUME TypeOK, Counted, Covered, NEW w \in Workers, FutexWait(w)
    PROVE  QueueInv'
<1>0. w \in Threads
  BY DEF Threads
<1>1. CASE m_count >= 0
  <2>1. Go(w, "futex", "asleep")
    BY <1>0, <1>1 DEF FutexWait, queues, bounds, history
  <2>2. UNCHANGED <<looking, shrinking, spinners, growing, unsignalled>>
    BY <2>1, WorkerCounts, CountsType DEF Looking, Coming
  <2>3. TypeOK'
    BY <1>0, <1>1, <2>1 DEF FutexWait, queues, bounds, history, TypeOK, Go, ProducerPC, WorkerPC
  <2>4. Counted'
    BY <1>0, <1>1, <2>2, CountsType DEF FutexWait, queues, bounds, history, Counted, TypeOK,
       Pending
  <2>5. Covered'
    BY <1>0, <1>1, <2>3, NothingPending DEF FutexWait, TypeOK
  <2> QED
    BY <2>3, <2>4, <2>5 DEF QueueInv
<1>2. CASE ~(m_count >= 0)
  <2>1. Go(w, "futex", "recount")
    BY <1>0, <1>2 DEF FutexWait, queues, bounds, history
  <2>2. UNCHANGED <<looking, shrinking, spinners, growing, unsignalled>>
    BY <2>1, WorkerCounts, CountsType DEF Looking, Coming
  <2>3. TypeOK'
    BY <1>0, <1>2, <2>1 DEF FutexWait, queues, bounds, history, TypeOK, Go, ProducerPC, WorkerPC
  <2>4. Counted'
    BY <1>0, <1>2, <2>2, CountsType DEF FutexWait, queues, bounds, history, Counted, TypeOK,
       Pending
  <2>5. Covered'
    BY <1>0, <1>2, <2>1, <2>3, WorkerCovered DEF FutexWait, queues, bounds, history, TypeOK,
       Coming
  <2> QED
    BY <2>3, <2>4, <2>5 DEF QueueInv
<1> QED
  BY <1>1, <1>2

\* It was woken, or not let sleep: it looks again.
LEMMA RecountStep ==
    ASSUME TypeOK, Counted, Covered, NEW w \in Workers, Recount(w)
    PROVE  QueueInv'
<1>0. w \in Threads
  BY DEF Threads
<1>1. Go(w, "recount", "try_limit")
  BY <1>0 DEF Recount, queues, bounds, history
<1>2. looking' = looking + 1 /\ UNCHANGED <<shrinking, spinners, growing, unsignalled>>
  BY <1>1, WorkerCounts, CountsType DEF Looking, Coming
<1>3. TypeOK'
  BY <1>0, <1>1 DEF Recount, queues, bounds, history, TypeOK, Go, ProducerPC, WorkerPC
<1>4. Counted'
  BY <1>0, <1>2, CountsType DEF Recount, queues, bounds, history, Counted, TypeOK, Pending
<1>5. Covered'
  BY <1>0, <1>1, <1>3, WorkerCovered DEF Recount, queues, bounds, history, TypeOK, Coming
<1> QED
  BY <1>3, <1>4, <1>5 DEF QueueInv

(***************************************************************************)
(* The invariant and what follows from it                                  *)
(***************************************************************************)
\* Nobody runs and nothing is queued.
LEMMA InitQueue == Init => QueueInv
<1> SUFFICES ASSUME Init PROVE QueueInv
    OBVIOUS
<1>1. TypeOK
  BY CapacityAssumption, BoundAssumption DEF Init, TypeOK
<1>2. \A T \in SUBSET Threads : \A L : "idle" \notin L => Num(T, L) = 0
  <2>1. ASSUME NEW T \in SUBSET Threads, NEW L, "idle" \notin L
        PROVE  {t \in T : pc[t] \in L} = {}
    BY <2>1 DEF Init
  <2> QED
    BY <2>1, FS_EmptySet DEF Num, NumOf
<1>3. /\ looking = 0 /\ shrinking = 0 /\ spinners = 0
      /\ growing = 0 /\ unsignalled = 0
  <2>1. Workers \in SUBSET Threads /\ Producers \in SUBSET Threads
    BY DEF Threads
  <2> QED
    BY <1>2, <2>1 DEF looking, shrinking, spinners, growing, unsignalled, Looking, Unsignalled
<1>4. Counted
  BY <1>3 DEF Counted, Init, Pending
<1>5. Sleepers = {}
  BY DEF Init, Sleepers, Threads
<1> QED
  BY <1>1, <1>4, <1>5 DEF QueueInv, Covered

\* A step that changes nothing.
LEMMA StutterQueue == QueueInv /\ UNCHANGED vars => QueueInv'
<1> SUFFICES ASSUME QueueInv, UNCHANGED vars PROVE QueueInv'
    OBVIOUS
<1> USE DEF vars, queues, bounds, history
<1>1. TypeOK'
  BY DEF QueueInv, TypeOK
<1>2. /\ UNCHANGED <<looking, shrinking, spinners, growing, unsignalled, coming, signalling>>
      /\ UNCHANGED <<Hidden, Sleepers>>
  BY DEF looking, shrinking, spinners, growing, unsignalled, coming, signalling, Num, Hidden,
         Sleepers
<1>3. Counted'
  BY <1>2 DEF QueueInv, Counted, Pending
<1>4. Covered'
  BY <1>2 DEF QueueInv, Covered
<1> QED
  BY <1>1, <1>3, <1>4 DEF QueueInv

\* One step of enqueue or of wait_dequeue.
LEMMA NextQueue == QueueInv /\ [Next]_vars => QueueInv'
<1> SUFFICES ASSUME QueueInv, [Next]_vars PROVE QueueInv'
    OBVIOUS
<1>0. TypeOK /\ Counted /\ Covered
  BY DEF QueueInv
<1>1. ASSUME NEW p \in Producers, enqueue(p)
      PROVE  QueueInv'
  BY <1>0, <1>1, TryEnqueueStep, FilledStep, EnqueueRefusedStep, PushStep, GrowStep, SignalStep,
     SignalSpinStep, SignalLoadStep, SignalWakeStep
     DEF enqueue
<1>2. ASSUME NEW w \in Workers, wait_dequeue(w)
      PROVE  QueueInv'
  BY <1>0, <1>2, StartDequeueStep, SpinInStep, SpinOutStep, SpinLoadStep, SpinWakeStep,
     CountStep,
     TryDequeueStep, DrainStep, DequeueRefusedStep, TrySizeStep, TryPopStep, ShrinkStep,
     WaitCountStep, FutexWaitStep, RecountStep
     DEF wait_dequeue
<1> QED
  BY <1>1, <1>2, StutterQueue DEF Next

\* What the theorems below rest on.
THEOREM QueueInvariant == Spec => []QueueInv
BY InitQueue, NextQueue, PTL DEF Spec

\* Types and bounds of TaskQueue's fields and of the threads' locals; above all
\* big_spin_count never drops below zero.
THEOREM QueueTypeCorrect == Spec => []TypeOK
<1>1. QueueInv => TypeOK
  BY DEF QueueInv
<1> QED
  BY <1>1, QueueInvariant, PTL

\* m_count is the workers that look plus the tasks taken minus the tasks
\* signalled, on every path through enqueue and wait_dequeue.
THEOREM CountIsExact == Spec => []Accounted
<1>1. QueueInv => Accounted
  BY DEF QueueInv, Counted, Accounted, looking, Num, NumOf, At
<1> QED
  BY <1>1, QueueInvariant, PTL

\* inner_size lags behind the locked queue by the updates that are to come.
THEOREM SizeOnlyLags == Spec => []SizeLags
<1>1. QueueInv => SizeLags
  BY DEF QueueInv, Counted, SizeLags, growing, shrinking, Num, NumOf, At
<1> QED
  BY <1>1, QueueInvariant, PTL

\* No lost wake-up, for any number of threads and tasks: when all enqueues have
\* returned and every worker that is not running or fetching a task sleeps, nothing is
\* queued.  Nobody is inside spin_hold then, nobody comes, so by Covered m_count
\* is not negative, and by Counted it is minus the number of queued tasks.
THEOREM NoWakeupLost == Spec => []NoLostWakeup
<1>1. ASSUME QueueInv, Sleepers # {}, \A p \in Producers : pc[p] = "idle",
             \A w \in Workers : pc[w] \in {"idle", "drain", "asleep"}
      PROVE  Pending = 0
  <2>1. ASSUME NEW T \in {Producers, Workers}, NEW L, "idle" \notin L, "asleep" \notin L,
               "drain" \notin L
        PROVE  Num(T, L) = 0
    <3>1. {t \in T : pc[t] \in L} = {}
      BY <1>1, <2>1
    <3> QED
      BY <3>1, FS_EmptySet DEF Num, NumOf
  <2>2. /\ looking = 0 /\ spinners = 0 /\ coming = 0
        /\ unsignalled = 0 /\ signalling = 0
    BY <2>1 DEF looking, spinners, coming, unsignalled, signalling, Looking, Coming,
                Unsignalled, Signalling
  <2>3. ~Hidden /\ ~\E w \in Workers : pc[w] = "spin_wake"
    BY <1>1, <2>2 DEF QueueInv, Counted, Hidden
  <2>4. 0 - m_count <= 0
    BY <1>1, <2>2, <2>3 DEF QueueInv, Covered
  <2> QED
    BY <1>1, <2>2, <2>4 DEF QueueInv, Counted, TypeOK, Pending
<1>2. QueueInv => NoLostWakeup
  BY <1>1 DEF NoLostWakeup
<1> QED
  BY <1>2, QueueInvariant, PTL
=============================================================================
