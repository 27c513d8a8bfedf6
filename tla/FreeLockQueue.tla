--------------------------- MODULE FreeLockQueue ---------------------------
(***************************************************************************)
(* queue::free_lock::LimitQueue (src/queue/free_lock.cpp): the bounded     *)
(* multi-producer multi-consumer ring that carries ready tasks to workers. *)
(*                                                                         *)
(* Every access to a shared atomic is a step of its own, so producers and  *)
(* consumers interleave between any two of them.  The counters are 64 bits *)
(* wide in the code and never come near their limit, so they are naturals  *)
(* here and the sign tests is_empty / is_full are comparisons; the one     *)
(* narrower integer, the `int` the reader compares versions in, keeps its  *)
(* width (IntHalf stands for 2^31).  Memory is sequentially consistent.    *)
(***************************************************************************)
EXTENDS Integers, Sequences, FiniteSets

CONSTANTS
    Producers,   \* threads that call try_enqueue
    Consumers,   \* threads that call try_dequeue
    Items,       \* the pointers that are enqueued
    Null,        \* nullptr
    Capacity,    \* align_size(size)
    IntHalf,     \* 2^31: the `int` cur_version holds -IntHalf .. IntHalf - 1
    WakeCount,   \* how many sleepers FUTEX_WAKE with count -1 releases
    MaxCalls     \* bound: calls made by all threads

ASSUME CapacityAssumption == Capacity \in Nat \ {0}
ASSUME IntAssumption == IntHalf \in Nat \ {0}
ASSUME BoundAssumption == WakeCount \in Nat \ {0} /\ MaxCalls \in Nat
ASSUME NullAssumption == Null \notin Items
ASSUME ThreadAssumption == Producers \cap Consumers = {}

Threads == Producers \cup Consumers

VARIABLES
    read, read_missed, read_ahead,      \* the reader side's counters
    write, write_missed, write_ahead,   \* the writer side's counters
    vec, flag_vec,                      \* the slots and their versions
    pc,                                 \* where each thread is in its call
    seen,    \* local read_ / write_ of the first test
    missed,  \* local write_missed_ / read_missed_
    ahead,   \* local write_ahead_ / read_ahead_ drawn by fetch_add
    ticket,  \* local write_ / read_ drawn by fetch_add: the claimed position
    cur,     \* local cur_version handed to FUTEX_WAIT
    item,    \* the pointer passed in, or the one taken out
    calls,   \* calls made so far (for the bound)
    log      \* history: the items in the order their positions were claimed

counters == <<read, read_missed, read_ahead, write, write_missed, write_ahead>>
slots == <<vec, flag_vec>>
locals == <<seen, missed, ahead, ticket, cur, item>>
vars == <<counters, slots, pc, locals, calls, log>>

Slots == 0 .. Capacity - 1
capacity_bitmap == Capacity - 1
idx(n) == n % Capacity                \* n & capacity_bitmap

is_empty(read_, write_) == read_ - write_ >= 0
is_full(read_, write_) == write_ - Capacity - read_ >= 0

\* `auto cur_version = 0` is an int: a version is stored modulo 2^32, signed.
AsInt(v) == ((v + IntHalf) % (2 * IntHalf)) - IntHalf

\* The constructor.
LimitQueue ==
    /\ read = 0 /\ read_missed = 0 /\ read_ahead = 0
    /\ write = 0 /\ write_missed = 0 /\ write_ahead = 0
    /\ vec = [i \in Slots |-> Null]
    /\ flag_vec = [i \in Slots |-> i - capacity_bitmap]

IdleThreads ==
    /\ pc = [t \in Threads |-> "idle"]
    /\ seen = [t \in Threads |-> 0]
    /\ missed = [t \in Threads |-> 0]
    /\ ahead = [t \in Threads |-> 0]
    /\ ticket = [t \in Threads |-> 0]
    /\ cur = [t \in Threads |-> 0]
    /\ item = [t \in Threads |-> Null]
    /\ calls = 0

Init == LimitQueue /\ IdleThreads /\ log = <<>>

Go(t, from, to) == pc[t] = from /\ pc' = [pc EXCEPT ![t] = to]

\* A call that starts reads the other side's counter first.
Call(t, first, counter) ==
    /\ Go(t, "idle", first)
    /\ calls < MaxCalls
    /\ calls' = calls + 1
    /\ seen' = [seen EXCEPT ![t] = counter]

(* The futex on a slot's version word. *)

SleepsOn(i) == {t \in Threads : pc[t] \in {"e_sleep", "d_sleep"} /\ idx(ticket[t]) = i}

\* What a thread does once it is released: it goes back to loading the flag.
Resumed(t) == IF t \in Producers THEN "e_wait" ELSE "d_wait"

\* FUTEX_WAKE on slot i by t, the last step of a successful call.
WakeSlot(t, from) ==
    LET i == idx(ticket[t])
        n == IF Cardinality(SleepsOn(i)) <= WakeCount
             THEN Cardinality(SleepsOn(i)) ELSE WakeCount
    IN /\ pc[t] = from
       /\ \E woken \in SUBSET SleepsOn(i) :
             /\ Cardinality(woken) = n
             /\ pc' = [s \in Threads |-> IF s = t THEN "idle"
                                         ELSE IF s \in woken THEN Resumed(s)
                                         ELSE pc[s]]
       /\ ticket' = [ticket EXCEPT ![t] = 0]
       /\ item' = [item EXCEPT ![t] = Null]
       /\ UNCHANGED <<counters, slots, seen, missed, ahead, cur, calls, log>>

\* FUTEX_WAIT: the kernel sleeps only if the word still holds cur_version.
FutexWait(t, from, sleep, again) ==
    /\ Go(t, from, IF flag_vec[idx(ticket[t])] = cur[t] THEN sleep ELSE again)
    /\ cur' = [cur EXCEPT ![t] = 0]
    /\ UNCHANGED <<counters, slots, seen, missed, ahead, ticket, item, calls, log>>

(***************************************************************************)
(* try_enqueue                                                             *)
(***************************************************************************)
E_LoadRead(p) ==
    /\ Call(p, "e_missed", read)
    /\ \E x \in Items : item' = [item EXCEPT ![p] = x]
    /\ UNCHANGED <<counters, slots, missed, ahead, ticket, cur, log>>

E_LoadMissed(p) ==
    /\ Go(p, "e_missed", "e_ahead")
    /\ missed' = [missed EXCEPT ![p] = write_missed]
    /\ UNCHANGED <<counters, slots, seen, ahead, ticket, cur, item, calls, log>>

\* The first test, without side effects.
E_FirstTest(p) ==
    LET full == is_full(seen[p], write_ahead - missed[p])
    IN /\ Go(p, "e_ahead", IF full THEN "idle" ELSE "e_ticket")
       /\ seen' = [seen EXCEPT ![p] = 0]
       /\ missed' = [missed EXCEPT ![p] = IF full THEN 0 ELSE @]
       /\ item' = [item EXCEPT ![p] = IF full THEN Null ELSE @]
       /\ UNCHANGED <<counters, slots, ahead, ticket, cur, calls, log>>

E_Ahead(p) ==
    /\ Go(p, "e_ticket", "e_check")
    /\ ahead' = [ahead EXCEPT ![p] = write_ahead]
    /\ write_ahead' = write_ahead + 1
    /\ UNCHANGED <<read, read_missed, read_ahead, write, write_missed,
                   slots, seen, missed, ticket, cur, item, calls, log>>

\* Mutant: no second test after the ticket was drawn.
E_SecondTest_Dropped(p) ==
    /\ Go(p, "e_check", "e_claim")
    /\ missed' = [missed EXCEPT ![p] = 0]
    /\ ahead' = [ahead EXCEPT ![p] = 0]
    /\ UNCHANGED <<counters, slots, seen, ticket, cur, item, calls, log>>

\* Mutant: the second test reloads write_missed too.
E_SecondTest_Fresh(p) ==
    /\ Go(p, "e_check", IF is_full(read, ahead[p] - write_missed)
                        THEN "e_miss" ELSE "e_claim")
    /\ missed' = [missed EXCEPT ![p] = 0]
    /\ ahead' = [ahead EXCEPT ![p] = 0]
    /\ UNCHANGED <<counters, slots, seen, ticket, cur, item, calls, log>>

\* The second test reloads read but keeps the stale write_missed_.
E_SecondTest(p) ==
    /\ Go(p, "e_check", IF is_full(read, ahead[p] - missed[p])
                        THEN "e_miss" ELSE "e_claim")
    /\ missed' = [missed EXCEPT ![p] = 0]
    /\ ahead' = [ahead EXCEPT ![p] = 0]
    /\ UNCHANGED <<counters, slots, seen, ticket, cur, item, calls, log>>

\* Mutant: the refused ticket is given back with the wrong sign.
E_Miss_Sign(p) ==
    /\ Go(p, "e_miss", "idle")
    /\ write_missed' = write_missed - 1
    /\ item' = [item EXCEPT ![p] = Null]
    /\ UNCHANGED <<read, read_missed, read_ahead, write, write_ahead,
                   slots, seen, missed, ahead, ticket, cur, calls, log>>

\* Mutant: the refused ticket is not given back.
E_Miss_Forgotten(p) ==
    /\ Go(p, "e_miss", "idle")
    /\ item' = [item EXCEPT ![p] = Null]
    /\ UNCHANGED <<counters, slots, seen, missed, ahead, ticket, cur, calls, log>>

E_Miss(p) ==
    /\ Go(p, "e_miss", "idle")
    /\ write_missed' = write_missed + 1
    /\ item' = [item EXCEPT ![p] = Null]
    /\ UNCHANGED <<read, read_missed, read_ahead, write, write_ahead,
                   slots, seen, missed, ahead, ticket, cur, calls, log>>

E_Claim(p) ==
    /\ Go(p, "e_claim", "e_wait")
    /\ ticket' = [ticket EXCEPT ![p] = write]
    /\ write' = write + 1
    /\ log' = Append(log, item[p])
    /\ UNCHANGED <<read, read_missed, read_ahead, write_missed, write_ahead,
                   slots, seen, missed, ahead, cur, item, calls>>

\* Mutant: a writer waits for the previous writer of the slot, not its reader.
E_LoadFlag_Early(p) ==
    LET v == flag_vec[idx(ticket[p])]
        ready == v >= ticket[p] - Capacity
    IN /\ Go(p, "e_wait", IF ready THEN "e_fill" ELSE "e_futex")
       /\ cur' = [cur EXCEPT ![p] = IF ready THEN 0 ELSE v]
       /\ UNCHANGED <<counters, slots, seen, missed, ahead, ticket, item, calls, log>>

\* A load of the flag; the loads of a spin that fail and are followed by
\* another load change nothing, so only the last one before FUTEX_WAIT shows.
E_LoadFlag(p) ==
    LET v == flag_vec[idx(ticket[p])]
        ready == v = ticket[p] - capacity_bitmap
    IN /\ Go(p, "e_wait", IF ready THEN "e_fill" ELSE "e_futex")
       /\ cur' = [cur EXCEPT ![p] = IF ready THEN 0 ELSE v]
       /\ UNCHANGED <<counters, slots, seen, missed, ahead, ticket, item, calls, log>>

E_FutexWait(p) == FutexWait(p, "e_futex", "e_sleep", "e_wait")

E_Fill(p) ==
    /\ Go(p, "e_fill", "e_publish")
    /\ vec' = [vec EXCEPT ![idx(ticket[p])] = item[p]]
    /\ UNCHANGED <<counters, flag_vec, locals, calls, log>>

E_Publish(p) ==
    /\ Go(p, "e_publish", "e_wake")
    /\ flag_vec' = [flag_vec EXCEPT ![idx(ticket[p])] = ticket[p]]
    /\ UNCHANGED <<counters, vec, locals, calls, log>>

\* Mutant: a successful try_enqueue does not call FUTEX_WAKE.
E_Wake_None(p) ==
    /\ Go(p, "e_wake", "idle")
    /\ ticket' = [ticket EXCEPT ![p] = 0]
    /\ item' = [item EXCEPT ![p] = Null]
    /\ UNCHANGED <<counters, slots, seen, missed, ahead, cur, calls, log>>

E_Wake(p) == WakeSlot(p, "e_wake")

try_enqueue(p) ==
    \/ E_LoadRead(p) \/ E_LoadMissed(p) \/ E_FirstTest(p) \/ E_Ahead(p)
    \/ E_SecondTest(p) \/ E_Miss(p) \/ E_Claim(p) \/ E_LoadFlag(p)
    \/ E_FutexWait(p) \/ E_Fill(p) \/ E_Publish(p) \/ E_Wake(p)

(***************************************************************************)
(* try_dequeue                                                             *)
(***************************************************************************)
D_LoadWrite(c) ==
    /\ Call(c, "d_missed", write)
    /\ UNCHANGED <<counters, slots, missed, ahead, ticket, cur, item, log>>

D_LoadMissed(c) ==
    /\ Go(c, "d_missed", "d_ahead")
    /\ missed' = [missed EXCEPT ![c] = read_missed]
    /\ UNCHANGED <<counters, slots, seen, ahead, ticket, cur, item, calls, log>>

D_FirstTest(c) ==
    LET empty == is_empty(read_ahead - missed[c], seen[c])
    IN /\ Go(c, "d_ahead", IF empty THEN "idle" ELSE "d_ticket")
       /\ seen' = [seen EXCEPT ![c] = 0]
       /\ missed' = [missed EXCEPT ![c] = IF empty THEN 0 ELSE @]
       /\ UNCHANGED <<counters, slots, ahead, ticket, cur, item, calls, log>>

D_Ahead(c) ==
    /\ Go(c, "d_ticket", "d_check")
    /\ ahead' = [ahead EXCEPT ![c] = read_ahead]
    /\ read_ahead' = read_ahead + 1
    /\ UNCHANGED <<read, read_missed, write, write_missed, write_ahead,
                   slots, seen, missed, ticket, cur, item, calls, log>>

D_SecondTest(c) ==
    /\ Go(c, "d_check", IF is_empty(ahead[c] - missed[c], write)
                        THEN "d_miss" ELSE "d_claim")
    /\ missed' = [missed EXCEPT ![c] = 0]
    /\ ahead' = [ahead EXCEPT ![c] = 0]
    /\ UNCHANGED <<counters, slots, seen, ticket, cur, item, calls, log>>

D_Miss(c) ==
    /\ Go(c, "d_miss", "idle")
    /\ read_missed' = read_missed + 1
    /\ UNCHANGED <<read, read_ahead, write, write_missed, write_ahead,
                   slots, locals, calls, log>>

D_Claim(c) ==
    /\ Go(c, "d_claim", "d_wait")
    /\ ticket' = [ticket EXCEPT ![c] = read]
    /\ read' = read + 1
    /\ UNCHANGED <<read_missed, read_ahead, write, write_missed, write_ahead,
                   slots, seen, missed, ahead, cur, item, calls, log>>

\* Mutant: the reader does not wait for the writer of its position.
D_LoadFlag_NoWait(c) ==
    /\ Go(c, "d_wait", "d_take")
    /\ UNCHANGED <<counters, slots, locals, calls, log>>

\* The reader keeps the version in an int before it compares.
D_LoadFlag(c) ==
    LET v == flag_vec[idx(ticket[c])]
        ready == AsInt(v) = ticket[c]
    IN /\ Go(c, "d_wait", IF ready THEN "d_take" ELSE "d_futex")
       /\ cur' = [cur EXCEPT ![c] = IF ready THEN 0 ELSE v]
       /\ UNCHANGED <<counters, slots, seen, missed, ahead, ticket, item, calls, log>>

D_FutexWait(c) == FutexWait(c, "d_futex", "d_sleep", "d_wait")

\* The pointer is taken; QuietFlowAssert throws when it is null.
D_Take(c) ==
    LET x == vec[idx(ticket[c])]
    IN /\ Go(c, "d_take", IF x = Null THEN "d_failed" ELSE "d_clear")
       /\ item' = [item EXCEPT ![c] = x]
       /\ UNCHANGED <<counters, slots, seen, missed, ahead, ticket, cur, calls, log>>

D_Clear(c) ==
    /\ Go(c, "d_clear", "d_release")
    /\ vec' = [vec EXCEPT ![idx(ticket[c])] = Null]
    /\ UNCHANGED <<counters, flag_vec, locals, calls, log>>

D_Release(c) ==
    /\ Go(c, "d_release", "d_wake")
    /\ flag_vec' = [flag_vec EXCEPT ![idx(ticket[c])] = ticket[c] + 1]
    /\ UNCHANGED <<counters, vec, locals, calls, log>>

D_Wake(c) == WakeSlot(c, "d_wake")

try_dequeue(c) ==
    \/ D_LoadWrite(c) \/ D_LoadMissed(c) \/ D_FirstTest(c) \/ D_Ahead(c)
    \/ D_SecondTest(c) \/ D_Miss(c) \/ D_Claim(c) \/ D_LoadFlag(c)
    \/ D_FutexWait(c) \/ D_Take(c) \/ D_Clear(c) \/ D_Release(c) \/ D_Wake(c)

Next ==
    \/ \E p \in Producers : try_enqueue(p)
    \/ \E c \in Consumers : try_dequeue(c)

Spec == Init /\ [][Next]_vars

\* A thread inside a call keeps being scheduled; nobody has to start one.
Fairness ==
    /\ \A p \in Producers : WF_vars(try_enqueue(p) /\ pc[p] # "idle")
    /\ \A c \in Consumers : WF_vars(try_dequeue(c) /\ pc[c] # "idle")

FairSpec == Spec /\ Fairness

(***************************************************************************)
(* Properties                                                              *)
(***************************************************************************)
EnqueuePC == {"e_missed", "e_ahead", "e_ticket", "e_check", "e_miss", "e_claim",
              "e_wait", "e_futex", "e_sleep", "e_fill", "e_publish", "e_wake"}
DequeuePC == {"d_missed", "d_ahead", "d_ticket", "d_check", "d_miss", "d_claim",
              "d_wait", "d_futex", "d_sleep", "d_take", "d_failed",
              "d_clear", "d_release", "d_wake"}

\* A claimed position is waited for, then owned until its version is stored.
Waiting == {"e_wait", "e_futex", "e_sleep", "d_wait", "d_futex", "d_sleep"}
Owning == {"e_fill", "e_publish", "d_take", "d_clear", "d_release"}

TypeShared ==
    /\ read \in Nat /\ read_missed \in Nat /\ read_ahead \in Nat
    /\ write \in Nat /\ write_missed \in Nat /\ write_ahead \in Nat
    /\ vec \in [Slots -> Items \cup {Null}]
    /\ flag_vec \in [Slots -> Int]
    /\ log \in Seq(Items)

TypePC ==
    /\ pc \in [Threads -> {"idle"} \cup EnqueuePC \cup DequeuePC]
    /\ \A p \in Producers : pc[p] \notin DequeuePC
    /\ \A c \in Consumers : pc[c] \notin EnqueuePC

TypeLocals ==
    /\ seen \in [Threads -> Nat]
    /\ missed \in [Threads -> Nat]
    /\ ahead \in [Threads -> Nat]
    /\ ticket \in [Threads -> Nat]
    /\ cur \in [Threads -> Int]
    /\ item \in [Threads -> Items \cup {Null}]
    /\ calls \in 0 .. MaxCalls

\* Type correctness of the counters, the slots and the locals of
\* try_enqueue / try_dequeue.
TypeOK == TypeShared /\ TypePC /\ TypeLocals

\* The version handshake (free_lock.cpp:72-93 and 119-142) lets only one
\* thread at a time touch a slot: two threads between their version test and
\* their version store never share a slot.
SlotExclusive ==
    \A s, t \in Threads :
        s # t /\ pc[s] \in Owning /\ pc[t] \in Owning
            => idx(ticket[s]) # idx(ticket[t])

\* QuietFlowAssert(*item != nullptr) at free_lock.cpp:91 never throws.
AssertItem == \A c \in Consumers : pc[c] # "d_failed"

\* The consumer that claimed position n (free_lock.cpp:69) returns the item
\* of the producer that claimed position n (free_lock.cpp:116).
Delivered ==
    \A c \in Consumers :
        pc[c] \in {"d_clear", "d_release", "d_wake"}
            => ticket[c] < write /\ item[c] = log[ticket[c] + 1]

\* The two tests of each call (free_lock.cpp:60-64, 111-115), with a missed
\* counter that is stale at the second one, still let nobody claim a position
\* that does not exist: no read before a write, no write beyond the capacity.
Bounded == read <= write /\ write <= read + Capacity

\* A ticket drawn from read_ahead / write_ahead is either still under test,
\* or became a claim, or was given back through the missed counter: refused
\* calls do not eat capacity (free_lock.cpp:101, 150).
InTest(T, labels) == {t \in T : pc[t] \in labels}
NoTicketLeaked ==
    /\ write_ahead = write + write_missed
            + Cardinality(InTest(Producers, {"e_check", "e_miss", "e_claim"}))
    /\ read_ahead = read + read_missed
            + Cardinality(InTest(Consumers, {"d_check", "d_miss", "d_claim"}))

\* Once a thread has claimed a position (free_lock.cpp:69, 116) its call
\* returns: the other side's claim on the slot exists, is served, and its
\* FUTEX_WAKE is not lost.
ClaimsComplete == \A t \in Threads : pc[t] \in Waiting ~> pc[t] = "idle"

(***************************************************************************)
(* The queue implements the bounded FIFO: an item enters when its position *)
(* is claimed, and leaves when a consumer claims that position.  What the  *)
(* consumer holds is the logged item until it has read the slot, and from  *)
(* then on what it really read.                                            *)
(***************************************************************************)
Fifo == INSTANCE BoundedFifo WITH
    fifo <- SubSeq(log, read + 1, write),
    out <- [c \in Consumers |->
              IF pc[c] \in {"d_wait", "d_futex", "d_sleep", "d_take"}
              THEN log[ticket[c] + 1] ELSE item[c]]

ImplementsFifo == Fifo!Spec
=============================================================================
