------------------------ MODULE FreeLockQueueProofs ------------------------
(***************************************************************************)
(* Proofs about FreeLockQueue that hold for every number of producers and  *)
(* consumers, every capacity of at least two and any number of calls.      *)
(*                                                                         *)
(* First the handshake on the slots: who owns a slot, and what is in it.   *)
(* Then, for finite sets of threads, the room: the tests on is_full and    *)
(* is_empty keep the claims within the ring, and with that the ring        *)
(* implements BoundedFifo.                                                 *)
(***************************************************************************)
EXTENDS FreeLockQueue, FiniteSetTheorems, SequenceTheorems, TLAPS

(* Euclidean division by the capacity: n & capacity_bitmap is a slot. *)
LEMMA DivMod ==
    ASSUME NEW n \in Int
    PROVE  /\ n % Capacity \in Slots
           /\ n \div Capacity \in Int
           /\ n = Capacity * (n \div Capacity) + (n % Capacity)
  BY CapacityAssumption, Z3 DEF Slots

(* A whole number of rounds is at least one round. *)
LEMMA Scale ==
    ASSUME NEW q \in Int, q >= 1
    PROVE  Capacity * q >= Capacity
  BY CapacityAssumption, Z3

(* Two positions of one slot are at least a whole round apart. *)
LEMMA Gap ==
    ASSUME NEW n \in Int, NEW m \in Int, idx(n) = idx(m), n < m
    PROVE  n + Capacity <= m
<1> DEFINE q == m \div Capacity
           r == n \div Capacity
           d == q - r
<1>1. /\ q \in Int /\ r \in Int /\ Capacity \in Int
      /\ n = Capacity * r + (n % Capacity)
      /\ m = Capacity * q + (m % Capacity)
      /\ n % Capacity \in Int
      /\ n % Capacity = m % Capacity
  BY DivMod, CapacityAssumption DEF idx, Slots
<1> HIDE DEF q, r
<1>2. Capacity * (q - r) = Capacity * q - Capacity * r
  BY <1>1, Z3
<1>3. m - n = Capacity * d
  BY <1>1, <1>2
<1>4. d >= 1
  <2>1. CASE d <= 0
    <3>1. Capacity * d <= 0
      BY <1>1, <2>1, CapacityAssumption, Z3
    <3> QED BY <3>1, <1>3, <1>1
  <2> QED BY <2>1, <1>1
<1>5. Capacity * d >= Capacity
  BY <1>4, <1>1, Scale
<1> QED BY <1>5, <1>3, <1>1

(* With two slots or more, "readable" and "writable" versions never coincide. *)
LEMMA Versions ==
    ASSUME Capacity >= 2, NEW n \in Int, NEW m \in Int, idx(n) = idx(m)
    PROVE  n # m - capacity_bitmap
<1> SUFFICES ASSUME n = m - capacity_bitmap PROVE FALSE
  OBVIOUS
<1>1. n < m
  BY CapacityAssumption DEF capacity_bitmap
<1>2. n + Capacity <= m
  BY <1>1, Gap
<1> QED BY <1>2, CapacityAssumption DEF capacity_bitmap

(* The next round comes back to the same slot. *)
LEMMA IdxNext ==
    ASSUME NEW n \in Int
    PROVE  idx(n + Capacity) = idx(n)
<1> DEFINE m == n + Capacity
           q == m \div Capacity
           r == n \div Capacity
           d == q - r - 1
           e == r + 1 - q
<1>1. /\ Capacity \in Nat \ {0} /\ m \in Int /\ m = n + Capacity
      /\ q \in Int /\ r \in Int
      /\ n = Capacity * r + (n % Capacity)
      /\ m = Capacity * q + (m % Capacity)
      /\ n % Capacity \in Slots /\ m % Capacity \in Slots
  <2>1. m \in Int /\ m = n + Capacity /\ Capacity \in Nat \ {0}
    BY CapacityAssumption
  <2> HIDE DEF m
  <2> QED BY <2>1, DivMod
<1> HIDE DEF m, q, r
<1>2. /\ Capacity * (q - r - 1) = Capacity * q - Capacity * r - Capacity
      /\ Capacity * (r + 1 - q) = Capacity * r + Capacity - Capacity * q
  BY <1>1, Z3
<1>3. /\ n % Capacity \in Int /\ m % Capacity \in Int
      /\ (n % Capacity) - (m % Capacity) < Capacity
      /\ (m % Capacity) - (n % Capacity) < Capacity
  BY <1>1 DEF Slots
<1>4. /\ Capacity * d = (n % Capacity) - (m % Capacity)
      /\ Capacity * e = (m % Capacity) - (n % Capacity)
  BY <1>1, <1>2, <1>3
<1>5. ~ (d >= 1) /\ ~ (e >= 1)
  <2>1. d >= 1 => Capacity * d >= Capacity
    BY <1>1, Scale
  <2>2. e >= 1 => Capacity * e >= Capacity
    BY <1>1, Scale
  <2> QED BY <2>1, <2>2, <1>1, <1>3, <1>4
<1>6. d = 0
  BY <1>5, <1>1
<1>7. n % Capacity = m % Capacity
  <2>1. Capacity * d = 0
    BY <1>6, <1>1
  <2> QED BY <2>1, <1>4, <1>3
<1> QED BY <1>7 DEF idx, m

(* Every position has a slot (free_lock.cpp:70, 117). *)
LEMMA IdxType ==
    ASSUME NEW n \in Int
    PROVE  idx(n) \in Slots
  BY DivMod DEF idx

(* The reader's comparison in an int is exact for the versions it can see. *)
LEMMA AsIntExact ==
    ASSUME NEW v \in Int, NEW r \in Nat, v <= r, v > 0 - IntHalf, AsInt(v) = r
    PROVE  v = r
<1> DEFINE b == 2 * IntHalf
           x == v + IntHalf
<1>1. /\ IntHalf \in Nat \ {0} /\ b \in Nat \ {0} /\ x \in Int
      /\ x % b = r + IntHalf /\ x % b < b
  BY IntAssumption, Z3 DEF AsInt
<1>2. x >= 0 /\ x < b
  BY <1>1
<1> HIDE DEF b, x
<1>3. x % b = x
  BY <1>1, <1>2, Z3
<1> QED BY <1>1, <1>3 DEF x

(***************************************************************************)
(* The inductive invariant of the version handshake.                       *)
(***************************************************************************)
Writing == {"e_wait", "e_futex", "e_sleep", "e_fill", "e_publish"}
Reading == {"d_wait", "d_futex", "d_sleep", "d_take", "d_clear", "d_release"}
Filling == {"e_fill", "e_publish"}
Taking == {"d_take", "d_clear", "d_release"}

\* Slot i holds the item of position n, which nobody has released.
FullAt(i, n) == idx(n) = i /\ flag_vec[i] = n /\ n < write /\ n < read + Capacity

\* Slot i waits for the writer of position n; the round before was claimed
\* by both sides.
FreeAt(i, n) ==
    /\ idx(n) = i
    /\ flag_vec[i] = n - capacity_bitmap
    /\ n < write + Capacity
    /\ n < read + Capacity

FlagsOK == \A i \in Slots : \E n \in Nat : FullAt(i, n) \/ FreeAt(i, n)

\* A slot never gets ahead of a position that is still claimed on it.
WritersOK ==
    \A p \in Producers : pc[p] \in Writing =>
        /\ ticket[p] < write
        /\ flag_vec[idx(ticket[p])] <= ticket[p] - capacity_bitmap
        /\ pc[p] \in Filling =>
              flag_vec[idx(ticket[p])] = ticket[p] - capacity_bitmap

ReadersOK ==
    \A c \in Consumers : pc[c] \in Reading =>
        /\ ticket[c] < read
        /\ flag_vec[idx(ticket[c])] <= ticket[c]
        /\ pc[c] \in Taking => flag_vec[idx(ticket[c])] = ticket[c]

\* fetch_add hands out every position once.
DistinctOK ==
    /\ \A p, q \in Producers :
          p # q /\ pc[p] \in Writing /\ pc[q] \in Writing => ticket[p] # ticket[q]
    /\ \A c, d \in Consumers :
          c # d /\ pc[c] \in Reading /\ pc[d] \in Reading => ticket[c] # ticket[d]

LogOK == Len(log) = write

\* A producer carries the item that is logged for its position.
CarriedOK ==
    \A p \in Producers :
        /\ pc[p] # "idle" => item[p] \in Items
        /\ pc[p] \in Writing => item[p] = log[ticket[p] + 1]
        /\ pc[p] = "e_publish" => vec[idx(ticket[p])] = item[p]

\* A published slot holds the logged item until its reader has cleared it.
StoredOK ==
    \A i \in Slots : \A n \in Nat :
        idx(n) = i /\ flag_vec[i] = n
        /\ (\A c \in Consumers : ~ (pc[c] = "d_release" /\ ticket[c] = n))
            => vec[i] = log[n + 1]

IInv ==
    /\ TypeOK /\ FlagsOK /\ WritersOK /\ ReadersOK /\ DistinctOK
    /\ LogOK /\ CarriedOK /\ StoredOK /\ Delivered /\ AssertItem

-----------------------------------------------------------------------------
(* The constructor (free_lock.cpp:18-38) establishes the invariant. *)
LEMMA InitIInv == Capacity >= 2 /\ Init => IInv
<1> SUFFICES ASSUME Capacity >= 2, Init PROVE IInv
  OBVIOUS
<1>1. LimitQueue /\ IdleThreads
  BY DEF Init
<1>2. log \in Seq(Items) /\ Len(log) = 0
  BY DEF Init
<1>3. TypeOK
  <2>1. TypeShared
    BY <1>1, <1>2, CapacityAssumption DEF LimitQueue, TypeShared, Slots, capacity_bitmap
  <2>2. TypePC
    BY <1>1 DEF IdleThreads, TypePC, Threads, EnqueuePC, DequeuePC
  <2>3. TypeLocals
    BY <1>1, BoundAssumption DEF IdleThreads, TypeLocals
  <2> QED BY <2>1, <2>2, <2>3 DEF TypeOK
<1>4. FlagsOK
  <2> SUFFICES ASSUME NEW i \in Slots PROVE FreeAt(i, i)
    BY DEF FlagsOK, Slots
  <2>1. i \in Nat /\ i < Capacity /\ Capacity \in Nat
    BY CapacityAssumption DEF Slots
  <2>2. idx(i) = i
    BY <2>1, CapacityAssumption, Z3 DEF idx
  <2> QED BY <2>1, <2>2, <1>1 DEF LimitQueue, FreeAt
<1>5. WritersOK /\ ReadersOK /\ DistinctOK /\ CarriedOK /\ Delivered /\ AssertItem
  BY <1>1
  DEF IdleThreads, WritersOK, ReadersOK, DistinctOK, CarriedOK, Delivered,
      AssertItem, Writing, Reading, Threads
<1>6. LogOK
  BY <1>1, <1>2 DEF LimitQueue, LogOK
<1>7. StoredOK
  <2> SUFFICES ASSUME NEW i \in Slots, NEW n \in Nat, idx(n) = i, flag_vec[i] = n
               PROVE  FALSE
    BY DEF StoredOK
  <2>1. i \in Int /\ i = n + Capacity - 1 /\ 0 <= i /\ i < Capacity
    BY <1>1, CapacityAssumption DEF LimitQueue, Slots, capacity_bitmap
  <2>2. n = 0
    BY <2>1, CapacityAssumption
  <2>3. idx(0) = 0
    BY CapacityAssumption, Z3 DEF idx
  <2> QED BY <2>1, <2>2, <2>3, CapacityAssumption
<1> QED BY <1>3, <1>4, <1>5, <1>6, <1>7 DEF IInv

-----------------------------------------------------------------------------
(* No step of try_enqueue or try_dequeue leaves its own labels. *)
LEMMA TypePCStep ==
    ASSUME TypePC, [Next]_vars
    PROVE  TypePC'
<1> USE DEF TypePC, Threads, Go, EnqueuePC, DequeuePC
<1>1. ASSUME NEW p \in Producers, try_enqueue(p)
      PROVE  TypePC'
  <2>0. p \in Threads
    BY DEF Threads
  <2>1. CASE E_LoadRead(p)
    BY <2>0, <2>1, ThreadAssumption DEF E_LoadRead, Call
  <2>2. CASE E_LoadMissed(p)
    BY <2>0, <2>2, ThreadAssumption DEF E_LoadMissed
  <2>3. CASE E_FirstTest(p)
    BY <2>0, <2>3, ThreadAssumption DEF E_FirstTest
  <2>4. CASE E_Ahead(p)
    BY <2>0, <2>4, ThreadAssumption DEF E_Ahead
  <2>5. CASE E_SecondTest(p)
    BY <2>0, <2>5, ThreadAssumption DEF E_SecondTest
  <2>6. CASE E_Miss(p)
    BY <2>0, <2>6, ThreadAssumption DEF E_Miss
  <2>7. CASE E_Claim(p)
    BY <2>0, <2>7, ThreadAssumption DEF E_Claim
  <2>8. CASE E_LoadFlag(p)
    BY <2>0, <2>8, ThreadAssumption DEF E_LoadFlag
  <2>9. CASE E_FutexWait(p)
    BY <2>0, <2>9, ThreadAssumption DEF E_FutexWait, FutexWait
  <2>10. CASE E_Fill(p)
    BY <2>0, <2>10, ThreadAssumption DEF E_Fill
  <2>11. CASE E_Publish(p)
    BY <2>0, <2>11, ThreadAssumption DEF E_Publish
  <2>12. CASE E_Wake(p)
    BY <2>0, <2>12, ThreadAssumption DEF E_Wake, WakeSlot, Resumed, SleepsOn
  <2> QED
    BY <1>1, <2>1, <2>2, <2>3, <2>4, <2>5, <2>6, <2>7, <2>8, <2>9, <2>10, <2>11, <2>12
    DEF try_enqueue
<1>2. ASSUME NEW c \in Consumers, try_dequeue(c)
      PROVE  TypePC'
  <2>0. c \in Threads
    BY DEF Threads
  <2>1. CASE D_LoadWrite(c)
    BY <2>0, <2>1, ThreadAssumption DEF D_LoadWrite, Call
  <2>2. CASE D_LoadMissed(c)
    BY <2>0, <2>2, ThreadAssumption DEF D_LoadMissed
  <2>3. CASE D_FirstTest(c)
    BY <2>0, <2>3, ThreadAssumption DEF D_FirstTest
  <2>4. CASE D_Ahead(c)
    BY <2>0, <2>4, ThreadAssumption DEF D_Ahead
  <2>5. CASE D_SecondTest(c)
    BY <2>0, <2>5, ThreadAssumption DEF D_SecondTest
  <2>6. CASE D_Miss(c)
    BY <2>0, <2>6, ThreadAssumption DEF D_Miss
  <2>7. CASE D_Claim(c)
    BY <2>0, <2>7, ThreadAssumption DEF D_Claim
  <2>8. CASE D_LoadFlag(c)
    BY <2>0, <2>8, ThreadAssumption DEF D_LoadFlag
  <2>9. CASE D_FutexWait(c)
    BY <2>0, <2>9, ThreadAssumption DEF D_FutexWait, FutexWait
  <2>10. CASE D_Take(c)
    BY <2>0, <2>10, ThreadAssumption DEF D_Take
  <2>11. CASE D_Clear(c)
    BY <2>0, <2>11, ThreadAssumption DEF D_Clear
  <2>12. CASE D_Release(c)
    BY <2>0, <2>12, ThreadAssumption DEF D_Release
  <2>13. CASE D_Wake(c)
    BY <2>0, <2>13, ThreadAssumption DEF D_Wake, WakeSlot, Resumed, SleepsOn
  <2> QED
    BY <1>2, <2>1, <2>2, <2>3, <2>4, <2>5, <2>6, <2>7, <2>8, <2>9, <2>10, <2>11, <2>12, <2>13
    DEF try_dequeue
<1>3. CASE UNCHANGED vars
  BY <1>3 DEF vars
<1> QED BY <1>1, <1>2, <1>3 DEF Next

(* Every step keeps the types of the counters, slots, versions and the log. *)
LEMMA TypeSharedStep ==
    ASSUME TypeShared, TypeLocals, CarriedOK, [Next]_vars
    PROVE  TypeShared'
<1> USE DEF TypeShared, TypeLocals, counters, slots, locals
<1>1. ASSUME NEW p \in Producers, try_enqueue(p)
      PROVE  TypeShared'
  <2>0. p \in Threads
    BY DEF Threads
  <2>1. CASE E_LoadRead(p)
    BY <2>0, <2>1 DEF E_LoadRead, Call
  <2>2. CASE E_LoadMissed(p)
    BY <2>0, <2>2 DEF E_LoadMissed
  <2>3. CASE E_FirstTest(p)
    BY <2>0, <2>3 DEF E_FirstTest
  <2>4. CASE E_Ahead(p)
    BY <2>0, <2>4 DEF E_Ahead
  <2>5. CASE E_SecondTest(p)
    BY <2>0, <2>5 DEF E_SecondTest
  <2>6. CASE E_Miss(p)
    BY <2>0, <2>6 DEF E_Miss
  <2>7. CASE E_Claim(p)
    <3>1. item[p] \in Items
      BY <2>7 DEF E_Claim, CarriedOK, Go
    <3>2. log' \in Seq(Items)
      BY <3>1, <2>7 DEF E_Claim
    <3>3. write' \in Nat
      BY <2>7 DEF E_Claim
    <3> QED BY <2>7, <3>2, <3>3 DEF E_Claim
  <2>8. CASE E_LoadFlag(p)
    BY <2>0, <2>8 DEF E_LoadFlag
  <2>9. CASE E_FutexWait(p)
    BY <2>0, <2>9 DEF E_FutexWait, FutexWait
  <2>10. CASE E_Fill(p)
    BY <2>0, <2>10 DEF E_Fill
  <2>11. CASE E_Publish(p)
    <3>1. ticket[p] \in Int /\ ticket[p] + 1 \in Int
      BY <2>0
    <3>2. flag_vec' \in [Slots -> Int]
      BY <3>1, <2>11 DEF E_Publish
    <3> QED BY <3>2, <2>11 DEF E_Publish
  <2>12. CASE E_Wake(p)
    BY <2>0, <2>12 DEF E_Wake, WakeSlot
  <2> QED
    BY <1>1, <2>1, <2>2, <2>3, <2>4, <2>5, <2>6, <2>7, <2>8, <2>9, <2>10, <2>11, <2>12
    DEF try_enqueue
<1>2. ASSUME NEW c \in Consumers, try_dequeue(c)
      PROVE  TypeShared'
  <2>0. c \in Threads
    BY DEF Threads
  <2>1. CASE D_LoadWrite(c)
    BY <2>0, <2>1 DEF D_LoadWrite, Call
  <2>2. CASE D_LoadMissed(c)
    BY <2>0, <2>2 DEF D_LoadMissed
  <2>3. CASE D_FirstTest(c)
    BY <2>0, <2>3 DEF D_FirstTest
  <2>4. CASE D_Ahead(c)
    BY <2>0, <2>4 DEF D_Ahead
  <2>5. CASE D_SecondTest(c)
    BY <2>0, <2>5 DEF D_SecondTest
  <2>6. CASE D_Miss(c)
    BY <2>0, <2>6 DEF D_Miss
  <2>7. CASE D_Claim(c)
    BY <2>0, <2>7 DEF D_Claim
  <2>8. CASE D_LoadFlag(c)
    BY <2>0, <2>8 DEF D_LoadFlag
  <2>9. CASE D_FutexWait(c)
    BY <2>0, <2>9 DEF D_FutexWait, FutexWait
  <2>10. CASE D_Take(c)
    BY <2>0, <2>10 DEF D_Take
  <2>11. CASE D_Clear(c)
    BY <2>0, <2>11 DEF D_Clear
  <2>12. CASE D_Release(c)
    <3>1. ticket[c] \in Int /\ ticket[c] + 1 \in Int
      BY <2>0
    <3>2. flag_vec' \in [Slots -> Int]
      BY <3>1, <2>12 DEF D_Release
    <3> QED BY <3>2, <2>12 DEF D_Release
  <2>13. CASE D_Wake(c)
    BY <2>0, <2>13 DEF D_Wake, WakeSlot
  <2> QED
    BY <1>2, <2>1, <2>2, <2>3, <2>4, <2>5, <2>6, <2>7, <2>8, <2>9, <2>10, <2>11, <2>12, <2>13
    DEF try_dequeue
<1>3. CASE UNCHANGED vars
  BY <1>3 DEF vars
<1> QED BY <1>1, <1>2, <1>3 DEF Next

(* Every step keeps the types of the locals of both calls. *)
LEMMA TypeLocalsStep ==
    ASSUME TypeShared, TypeLocals, [Next]_vars
    PROVE  TypeLocals'
<1> USE DEF TypeShared, TypeLocals, counters, slots, locals
<1>1. ASSUME NEW p \in Producers, try_enqueue(p)
      PROVE  TypeLocals'
  <2>0. p \in Threads
    BY DEF Threads
  <2>1. CASE E_LoadRead(p)
    <3>1. calls' \in 0 .. MaxCalls
      BY <2>0, <2>1, BoundAssumption DEF E_LoadRead, Call
    <3>2. seen' \in [Threads -> Nat]
      BY <2>0, <2>1 DEF E_LoadRead, Call
    <3> QED BY <2>0, <3>1, <3>2, <2>1 DEF E_LoadRead, Call
  <2>2. CASE E_LoadMissed(p)
    BY <2>0, <2>2 DEF E_LoadMissed
  <2>3. CASE E_FirstTest(p)
    BY <2>0, <2>3 DEF E_FirstTest
  <2>4. CASE E_Ahead(p)
    BY <2>0, <2>4 DEF E_Ahead
  <2>5. CASE E_SecondTest(p)
    BY <2>0, <2>5 DEF E_SecondTest
  <2>6. CASE E_Miss(p)
    BY <2>0, <2>6 DEF E_Miss
  <2>7. CASE E_Claim(p)
    BY <2>0, <2>7 DEF E_Claim
  <2>8. CASE E_LoadFlag(p)
    <3>1. idx(ticket[p]) \in Slots
      BY <2>0, IdxType
    <3>2. flag_vec[idx(ticket[p])] \in Int
      BY <3>1
    <3>3. cur' \in [Threads -> Int]
      BY <2>0, <3>2, <2>8 DEF E_LoadFlag
    <3> QED BY <3>3, <2>8 DEF E_LoadFlag
  <2>9. CASE E_FutexWait(p)
    BY <2>0, <2>9 DEF E_FutexWait, FutexWait
  <2>10. CASE E_Fill(p)
    BY <2>0, <2>10 DEF E_Fill
  <2>11. CASE E_Publish(p)
    BY <2>0, <2>11 DEF E_Publish
  <2>12. CASE E_Wake(p)
    BY <2>0, <2>12 DEF E_Wake, WakeSlot
  <2> QED
    BY <1>1, <2>1, <2>2, <2>3, <2>4, <2>5, <2>6, <2>7, <2>8, <2>9, <2>10, <2>11, <2>12
    DEF try_enqueue
<1>2. ASSUME NEW c \in Consumers, try_dequeue(c)
      PROVE  TypeLocals'
  <2>0. c \in Threads
    BY DEF Threads
  <2>1. CASE D_LoadWrite(c)
    <3>1. calls' \in 0 .. MaxCalls
      BY <2>0, <2>1, BoundAssumption DEF D_LoadWrite, Call
    <3>2. seen' \in [Threads -> Nat]
      BY <2>0, <2>1 DEF D_LoadWrite, Call
    <3> QED BY <2>0, <3>1, <3>2, <2>1 DEF D_LoadWrite, Call
  <2>2. CASE D_LoadMissed(c)
    BY <2>0, <2>2 DEF D_LoadMissed
  <2>3. CASE D_FirstTest(c)
    BY <2>0, <2>3 DEF D_FirstTest
  <2>4. CASE D_Ahead(c)
    BY <2>0, <2>4 DEF D_Ahead
  <2>5. CASE D_SecondTest(c)
    BY <2>0, <2>5 DEF D_SecondTest
  <2>6. CASE D_Miss(c)
    BY <2>0, <2>6 DEF D_Miss
  <2>7. CASE D_Claim(c)
    BY <2>0, <2>7 DEF D_Claim
  <2>8. CASE D_LoadFlag(c)
    <3>1. idx(ticket[c]) \in Slots
      BY <2>0, IdxType
    <3>2. flag_vec[idx(ticket[c])] \in Int
      BY <3>1
    <3>3. cur' \in [Threads -> Int]
      BY <2>0, <3>2, <2>8 DEF D_LoadFlag
    <3> QED BY <3>3, <2>8 DEF D_LoadFlag
  <2>9. CASE D_FutexWait(c)
    BY <2>0, <2>9 DEF D_FutexWait, FutexWait
  <2>10. CASE D_Take(c)
    <3>1. idx(ticket[c]) \in Slots
      BY <2>0, IdxType
    <3>2. vec[idx(ticket[c])] \in Items \cup {Null}
      BY <3>1
    <3> QED BY <2>0, <3>2, <2>10 DEF D_Take
  <2>11. CASE D_Clear(c)
    BY <2>0, <2>11 DEF D_Clear
  <2>12. CASE D_Release(c)
    BY <2>0, <2>12 DEF D_Release
  <2>13. CASE D_Wake(c)
    BY <2>0, <2>13 DEF D_Wake, WakeSlot
  <2> QED
    BY <1>2, <2>1, <2>2, <2>3, <2>4, <2>5, <2>6, <2>7, <2>8, <2>9, <2>10, <2>11, <2>12, <2>13
    DEF try_dequeue
<1>3. CASE UNCHANGED vars
  BY <1>3 DEF vars
<1> QED BY <1>1, <1>2, <1>3 DEF Next

(* Every step keeps the type invariant. *)
LEMMA TypeStep ==
    ASSUME TypeOK, CarriedOK, [Next]_vars
    PROVE  TypeOK'
  BY TypePCStep, TypeSharedStep, TypeLocalsStep DEF TypeOK

-----------------------------------------------------------------------------
(* A step that leaves slots, claims and carried items alone. *)
SameWriter(p) ==
    /\ pc'[p] # "idle" => item'[p] \in Items
    /\ pc'[p] \in Writing =>
          /\ pc[p] \in Writing
          /\ ticket'[p] = ticket[p]
          /\ item'[p] = item[p]
          /\ pc'[p] \in Filling => pc'[p] = pc[p]

SameReader(c) ==
    /\ pc'[c] # "d_failed"
    /\ pc'[c] \in Reading =>
          /\ pc[c] \in Reading
          /\ ticket'[c] = ticket[c]
          /\ pc'[c] \in Taking => pc'[c] = pc[c]
    /\ pc'[c] \in {"d_clear", "d_release", "d_wake"} =>
          pc'[c] = pc[c] /\ item'[c] = item[c] /\ ticket'[c] = ticket[c]
    /\ pc[c] = "d_release" => pc'[c] = "d_release"

Frame ==
    /\ UNCHANGED <<read, write, vec, flag_vec, log>>
    /\ \A p \in Producers : SameWriter(p)
    /\ \A c \in Consumers : SameReader(c)

(* A step that disturbs nothing the handshake is about keeps the invariant. *)
LEMMA FrameStep ==
    ASSUME IInv, TypeOK', Frame
    PROVE  IInv'
<1> USE DEF Frame, IInv
<1>1. FlagsOK'
  BY DEF FlagsOK, FullAt, FreeAt
<1>2. WritersOK'
  BY DEF WritersOK, SameWriter
<1>3. ReadersOK'
  BY DEF ReadersOK, SameReader
<1>4. DistinctOK'
  BY DEF DistinctOK, SameWriter, SameReader
<1>5. LogOK'
  BY DEF LogOK
<1>6. CarriedOK'
  BY DEF CarriedOK, SameWriter, Writing, Filling
<1>7. StoredOK'
  BY DEF StoredOK, SameReader, Reading, Taking
<1>8. Delivered' /\ AssertItem'
  BY DEF Delivered, AssertItem, SameReader
<1> QED BY <1>1, <1>2, <1>3, <1>4, <1>5, <1>6, <1>7, <1>8

(* The steps that only move a thread or change counters that no claim uses. *)
QuietE(p) ==
    \/ E_LoadRead(p) \/ E_LoadMissed(p) \/ E_FirstTest(p) \/ E_Ahead(p)
    \/ E_SecondTest(p) \/ E_Miss(p) \/ E_FutexWait(p)

QuietD(c) ==
    \/ D_LoadWrite(c) \/ D_LoadMissed(c) \/ D_FirstTest(c) \/ D_Ahead(c)
    \/ D_SecondTest(c) \/ D_Miss(c) \/ D_FutexWait(c)

\* Thread t steps, and only its own locals change.
Alone(t) ==
    /\ UNCHANGED <<read, write, vec, flag_vec, log>>
    /\ \A u \in Threads : u # t =>
          pc'[u] = pc[u] /\ ticket'[u] = ticket[u] /\ item'[u] = item[u]

(* A thread whose label, position and item stay is undisturbed. *)
LEMMA SameIfUnchanged ==
    ASSUME IInv, NEW t \in Threads, pc'[t] = pc[t], ticket'[t] = ticket[t], item'[t] = item[t]
    PROVE  /\ t \in Producers => SameWriter(t)
           /\ t \in Consumers => SameReader(t)
  BY DEF SameWriter, SameReader, IInv, CarriedOK, AssertItem

(* A step of one thread disturbs nothing if it does not disturb that thread. *)
LEMMA AloneFrame ==
    ASSUME IInv, NEW t \in Threads, Alone(t),
           t \in Producers => SameWriter(t),
           t \in Consumers => SameReader(t)
    PROVE  Frame
<1>1. ASSUME NEW p \in Producers PROVE SameWriter(p)
  <2>1. p \in Threads BY DEF Threads
  <2> QED BY <2>1, SameIfUnchanged DEF Alone
<1>2. ASSUME NEW c \in Consumers PROVE SameReader(c)
  <2>1. c \in Threads BY DEF Threads
  <2> QED BY <2>1, SameIfUnchanged DEF Alone
<1> QED BY <1>1, <1>2 DEF Frame, Alone

(* The tests, misses and loads of try_enqueue (free_lock.cpp:108-115, 149-151) disturb nothing. *)
LEMMA QuietEFrame ==
    ASSUME IInv, NEW p \in Producers, QuietE(p)
    PROVE  Frame
<1>0. p \in Threads /\ p \notin Consumers
  BY ThreadAssumption DEF Threads
<1>a. pc \in [Threads -> {"idle"} \cup EnqueuePC \cup DequeuePC] /\ TypeLocals
  BY DEF IInv, TypeOK, TypePC
<1>b. Alone(p)
  <2> USE <1>0, <1>a DEF Alone, TypeLocals, Go, counters, slots, locals
  <2>1. CASE E_LoadRead(p)
    BY <2>1 DEF E_LoadRead, Call
  <2>2. CASE E_LoadMissed(p)
    BY <2>2 DEF E_LoadMissed
  <2>3. CASE E_FirstTest(p)
    BY <2>3 DEF E_FirstTest
  <2>4. CASE E_Ahead(p)
    BY <2>4 DEF E_Ahead
  <2>5. CASE E_SecondTest(p)
    BY <2>5 DEF E_SecondTest
  <2>6. CASE E_Miss(p)
    BY <2>6 DEF E_Miss
  <2>7. CASE E_FutexWait(p)
    BY <2>7 DEF E_FutexWait, FutexWait
  <2> QED BY <2>1, <2>2, <2>3, <2>4, <2>5, <2>6, <2>7 DEF QuietE
<1>c. SameWriter(p)
  <2> USE <1>0, <1>a DEF SameWriter, Writing, Filling, TypeLocals, Go, locals, IInv, CarriedOK
  <2>1. CASE E_LoadRead(p)
    BY <2>1 DEF E_LoadRead, Call
  <2>2. CASE E_LoadMissed(p)
    BY <2>2 DEF E_LoadMissed
  <2>3. CASE E_FirstTest(p)
    BY <2>3 DEF E_FirstTest
  <2>4. CASE E_Ahead(p)
    BY <2>4 DEF E_Ahead
  <2>5. CASE E_SecondTest(p)
    BY <2>5 DEF E_SecondTest
  <2>6. CASE E_Miss(p)
    BY <2>6 DEF E_Miss
  <2>7. CASE E_FutexWait(p)
    BY <2>7 DEF E_FutexWait, FutexWait
  <2> QED BY <2>1, <2>2, <2>3, <2>4, <2>5, <2>6, <2>7 DEF QuietE
<1> QED BY <1>0, <1>b, <1>c, AloneFrame

(* The tests, misses and loads of try_dequeue (free_lock.cpp:57-64, 100-102) disturb nothing. *)
LEMMA QuietDFrame ==
    ASSUME IInv, NEW c \in Consumers, QuietD(c)
    PROVE  Frame
<1>0. c \in Threads /\ c \notin Producers
  BY ThreadAssumption DEF Threads
<1>a. pc \in [Threads -> {"idle"} \cup EnqueuePC \cup DequeuePC] /\ TypeLocals
  BY DEF IInv, TypeOK, TypePC
<1>b. Alone(c)
  <2> USE <1>0, <1>a DEF Alone, TypeLocals, Go, counters, slots, locals
  <2>1. CASE D_LoadWrite(c)
    BY <2>1 DEF D_LoadWrite, Call
  <2>2. CASE D_LoadMissed(c)
    BY <2>2 DEF D_LoadMissed
  <2>3. CASE D_FirstTest(c)
    BY <2>3 DEF D_FirstTest
  <2>4. CASE D_Ahead(c)
    BY <2>4 DEF D_Ahead
  <2>5. CASE D_SecondTest(c)
    BY <2>5 DEF D_SecondTest
  <2>6. CASE D_Miss(c)
    BY <2>6 DEF D_Miss
  <2>7. CASE D_FutexWait(c)
    BY <2>7 DEF D_FutexWait, FutexWait
  <2> QED BY <2>1, <2>2, <2>3, <2>4, <2>5, <2>6, <2>7 DEF QuietD
<1>c. SameReader(c)
  <2> USE <1>0, <1>a DEF SameReader, Reading, Taking, TypeLocals, Go, locals, IInv
  <2>1. CASE D_LoadWrite(c)
    BY <2>1 DEF D_LoadWrite, Call
  <2>2. CASE D_LoadMissed(c)
    BY <2>2 DEF D_LoadMissed
  <2>3. CASE D_FirstTest(c)
    BY <2>3 DEF D_FirstTest
  <2>4. CASE D_Ahead(c)
    BY <2>4 DEF D_Ahead
  <2>5. CASE D_SecondTest(c)
    BY <2>5 DEF D_SecondTest
  <2>6. CASE D_Miss(c)
    BY <2>6 DEF D_Miss
  <2>7. CASE D_FutexWait(c)
    BY <2>7 DEF D_FutexWait, FutexWait
  <2> QED BY <2>1, <2>2, <2>3, <2>4, <2>5, <2>6, <2>7 DEF QuietD
<1> QED BY <1>0, <1>b, <1>c, AloneFrame

(* FUTEX_WAKE moves sleepers back to loading the flag and ends the call. *)
LEMMA WakeFrame ==
    ASSUME IInv, NEW t \in Threads, NEW from \in {"e_wake", "d_wake"}, WakeSlot(t, from)
    PROVE  Frame
<1>1. PICK woken \in SUBSET SleepsOn(idx(ticket[t])) :
        pc' = [s \in Threads |-> IF s = t THEN "idle"
                                 ELSE IF s \in woken THEN Resumed(s) ELSE pc[s]]
  BY DEF WakeSlot
<1>2. /\ pc[t] = from
      /\ UNCHANGED <<read, write, vec, flag_vec, log>>
      /\ \A u \in Threads : u # t => ticket'[u] = ticket[u] /\ item'[u] = item[u]
  BY DEF WakeSlot, counters, slots, IInv, TypeOK, TypeLocals
<1>3. ASSUME NEW p \in Producers PROVE SameWriter(p)
  <2>1. p \in Threads BY DEF Threads
  <2>2. CASE p = t
    BY <2>1, <2>2, <1>1 DEF SameWriter, Writing
  <2>3. CASE p # t /\ p \notin woken
    BY <2>1, <2>3, <1>1, <1>2, SameIfUnchanged
  <2>4. CASE p # t /\ p \in woken
    <3>1. pc[p] \in {"e_sleep", "d_sleep"} /\ pc'[p] = "e_wait"
      BY <2>1, <2>4, <1>1 DEF SleepsOn, Resumed
    <3>2. item[p] \in Items /\ pc[p] # "d_sleep"
      BY <3>1 DEF IInv, CarriedOK, TypeOK, TypePC, DequeuePC
    <3> QED BY <2>1, <2>4, <3>1, <3>2, <1>2 DEF SameWriter, Writing, Filling
  <2> QED BY <2>2, <2>3, <2>4
<1>4. ASSUME NEW c \in Consumers PROVE SameReader(c)
  <2>1. c \in Threads /\ c \notin Producers BY ThreadAssumption DEF Threads
  <2>2. CASE c = t
    BY <2>1, <2>2, <1>1, <1>2 DEF SameReader, Reading
  <2>3. CASE c # t /\ c \notin woken
    BY <2>1, <2>3, <1>1, <1>2, SameIfUnchanged
  <2>4. CASE c # t /\ c \in woken
    <3>1. pc[c] \in {"e_sleep", "d_sleep"} /\ pc'[c] = "d_wait"
      BY <2>1, <2>4, <1>1 DEF SleepsOn, Resumed
    <3>2. pc[c] # "e_sleep"
      BY <3>1 DEF IInv, TypeOK, TypePC, EnqueuePC
    <3> QED BY <2>1, <2>4, <3>1, <3>2, <1>2 DEF SameReader, Reading, Taking
  <2> QED BY <2>2, <2>3, <2>4
<1> QED BY <1>2, <1>3, <1>4 DEF Frame

-----------------------------------------------------------------------------
(* fetch_add on write: the new position is behind everything on its slot. *)
LEMMA ClaimWriteStep ==
    ASSUME Capacity >= 2, IInv, TypeOK', NEW p \in Producers, E_Claim(p)
    PROVE  IInv'
<1>0. p \in Threads /\ p \notin Consumers
  BY ThreadAssumption DEF Threads
<1>1. /\ pc \in [Threads -> {"idle"} \cup EnqueuePC \cup DequeuePC]
      /\ ticket \in [Threads -> Nat] /\ flag_vec \in [Slots -> Int]
      /\ write \in Nat /\ read \in Nat /\ log \in Seq(Items) /\ Len(log) = write
      /\ Capacity \in Nat \ {0}
  BY CapacityAssumption DEF IInv, TypeOK, TypePC, TypeShared, TypeLocals, LogOK
<1>2. /\ pc[p] = "e_claim" /\ pc'[p] = "e_wait"
      /\ ticket'[p] = write /\ write' = write + 1
      /\ log' = Append(log, item[p])
      /\ UNCHANGED <<read, vec, flag_vec, item>>
  BY <1>0, <1>1 DEF E_Claim, Go, slots
<1>3. \A u \in Threads : u # p => pc'[u] = pc[u] /\ ticket'[u] = ticket[u]
  BY <1>0, <1>1 DEF E_Claim, Go
<1>4. item[p] \in Items
  BY <1>2 DEF IInv, CarriedOK
<1>5. /\ Len(log') = write + 1
      /\ log'[write + 1] = item[p]
      /\ \A k \in 1 .. write : log'[k] = log[k]
  BY <1>1, <1>2, <1>4
<1>6. FlagsOK'
  <2> SUFFICES ASSUME NEW i \in Slots PROVE \E n \in Nat : FullAt(i, n)' \/ FreeAt(i, n)'
    BY DEF FlagsOK
  <2>1. PICK n \in Nat : FullAt(i, n) \/ FreeAt(i, n)
    BY DEF IInv, FlagsOK
  <2>2. FullAt(i, n)' \/ FreeAt(i, n)'
    BY <2>1, <1>1, <1>2 DEF FullAt, FreeAt
  <2> QED BY <2>2
<1>7. flag_vec[idx(write)] <= write - capacity_bitmap
  <2>1. idx(write) \in Slots
    BY <1>1, IdxType
  <2>2. PICK n \in Nat : FullAt(idx(write), n) \/ FreeAt(idx(write), n)
    BY <2>1 DEF IInv, FlagsOK
  <2>3. CASE FullAt(idx(write), n)
    <3>1. n + Capacity <= write
      BY <2>3, <1>1, Gap DEF FullAt
    <3> QED BY <2>3, <3>1, <1>1 DEF FullAt, capacity_bitmap
  <2>4. CASE FreeAt(idx(write), n)
    <3>1. n <= write
      BY <2>4, <1>1, Gap DEF FreeAt
    <3> QED BY <2>4, <3>1, <1>1 DEF FreeAt, capacity_bitmap
  <2> QED BY <2>2, <2>3, <2>4
<1>8. WritersOK'
  <2> SUFFICES ASSUME NEW q \in Producers, pc'[q] \in Writing
               PROVE  /\ ticket'[q] < write'
                      /\ flag_vec[idx(ticket'[q])] <= ticket'[q] - capacity_bitmap
                      /\ pc'[q] \in Filling =>
                           flag_vec[idx(ticket'[q])] = ticket'[q] - capacity_bitmap
    BY <1>2 DEF WritersOK, capacity_bitmap
  <2>1. CASE q = p
    BY <2>1, <1>1, <1>2, <1>7 DEF Filling
  <2>2. CASE q # p
    <3>1. q \in Threads BY DEF Threads
    <3> QED BY <2>2, <3>1, <1>1, <1>2, <1>3 DEF IInv, WritersOK
  <2> QED BY <2>1, <2>2
<1>9. ReadersOK'
  <2>1. \A c \in Consumers : pc'[c] = pc[c] /\ ticket'[c] = ticket[c]
    BY <1>0, <1>3 DEF Threads
  <2> QED BY <2>1, <1>2 DEF IInv, ReadersOK
<1>10. DistinctOK'
  <2>1. \A q \in Producers : q # p /\ pc'[q] \in Writing => ticket'[q] # write
    BY <1>1, <1>3 DEF IInv, WritersOK, Threads
  <2> QED BY <2>1, <1>0, <1>2, <1>3 DEF IInv, DistinctOK, Threads
<1>11. LogOK'
  BY <1>2, <1>5 DEF LogOK
<1>12. CarriedOK'
  <2> SUFFICES ASSUME NEW q \in Producers
               PROVE  /\ pc'[q] # "idle" => item'[q] \in Items
                      /\ pc'[q] \in Writing => item'[q] = log'[ticket'[q] + 1]
                      /\ pc'[q] = "e_publish" => vec'[idx(ticket'[q])] = item'[q]
    BY DEF CarriedOK
  <2>1. CASE q = p
    BY <2>1, <1>2, <1>4, <1>5
  <2>2. CASE q # p
    <3>1. q \in Threads BY DEF Threads
    <3>2. pc[q] \in Writing => ticket[q] + 1 \in 1 .. write
      BY <3>1, <1>1 DEF IInv, WritersOK
    <3> QED BY <2>2, <3>1, <3>2, <1>2, <1>3, <1>5 DEF IInv, CarriedOK
  <2> QED BY <2>1, <2>2
<1>13. StoredOK'
  <2> SUFFICES ASSUME NEW i \in Slots, NEW n \in Nat, idx(n) = i, flag_vec[i] = n,
                      \A c \in Consumers : ~ (pc'[c] = "d_release" /\ ticket'[c] = n)
               PROVE  vec[i] = log'[n + 1]
    BY <1>2 DEF StoredOK
  <2>1. \A c \in Consumers : pc'[c] = pc[c] /\ ticket'[c] = ticket[c]
    BY <1>0, <1>3 DEF Threads
  <2>2. vec[i] = log[n + 1]
    BY <2>1 DEF IInv, StoredOK
  <2>3. n < write
    <3>1. PICK m \in Nat : FullAt(i, m) \/ FreeAt(i, m)
      BY DEF IInv, FlagsOK
    <3>2. ~ FreeAt(i, m)
      BY Versions DEF FreeAt
    <3> QED BY <3>1, <3>2 DEF FullAt
  <2> QED BY <2>2, <2>3, <1>1, <1>5
<1>14. Delivered' /\ AssertItem'
  <2>1. \A c \in Consumers : pc'[c] = pc[c] /\ ticket'[c] = ticket[c] /\ ticket[c] \in Nat
    BY <1>0, <1>1, <1>3 DEF Threads
  <2>2. AssertItem'
    BY <2>1 DEF IInv, AssertItem
  <2> SUFFICES ASSUME NEW c \in Consumers, pc[c] \in {"d_clear", "d_release", "d_wake"}
               PROVE  ticket[c] < write' /\ item[c] = log'[ticket[c] + 1]
    BY <2>1, <2>2, <1>2 DEF Delivered
  <2>3. ticket[c] < write /\ item[c] = log[ticket[c] + 1]
    BY DEF IInv, Delivered
  <2>4. ticket[c] + 1 \in 1 .. write
    BY <2>1, <2>3, <1>1
  <2> QED BY <2>1, <2>3, <2>4, <1>1, <1>2, <1>5
<1> QED BY <1>6, <1>8, <1>9, <1>10, <1>11, <1>12, <1>13, <1>14 DEF IInv

(* Who else may hold a claim on a slot that is owned: only later positions. *)
LEMMA Facts ==
    ASSUME IInv
    PROVE  /\ pc \in [Threads -> {"idle"} \cup EnqueuePC \cup DequeuePC]
           /\ ticket \in [Threads -> Nat] /\ flag_vec \in [Slots -> Int]
           /\ item \in [Threads -> Items \cup {Null}]
           /\ vec \in [Slots -> Items \cup {Null}]
           /\ write \in Nat /\ read \in Nat /\ log \in Seq(Items) /\ Len(log) = write
           /\ Capacity \in Nat \ {0}
           /\ \A t \in Threads : ticket[t] \in Nat /\ idx(ticket[t]) \in Slots
  BY CapacityAssumption, IdxType
  DEF IInv, TypeOK, TypePC, TypeShared, TypeLocals, LogOK

(* While a writer owns a slot, every other claim on it is for a later round (free_lock.cpp:131-142). *)
LEMMA BehindWriter ==
    ASSUME Capacity >= 2, IInv, NEW p \in Producers, pc[p] \in Filling
    PROVE  /\ \A q \in Producers :
                q # p /\ pc[q] \in Writing /\ idx(ticket[q]) = idx(ticket[p])
                    => ticket[q] >= ticket[p] + Capacity
           /\ \A c \in Consumers :
                pc[c] \in Reading /\ idx(ticket[c]) = idx(ticket[p])
                    => ticket[c] >= ticket[p] /\ pc[c] \notin Taking
<1>1. /\ p \in Threads /\ pc[p] \in Writing /\ Capacity \in Nat \ {0}
      /\ flag_vec[idx(ticket[p])] = ticket[p] - capacity_bitmap
      /\ \A t \in Threads : ticket[t] \in Nat
  BY Facts DEF IInv, WritersOK, Writing, Filling, Threads
<1>2. ASSUME NEW q \in Producers, q # p, pc[q] \in Writing, idx(ticket[q]) = idx(ticket[p])
      PROVE  ticket[q] >= ticket[p] + Capacity
  <2>1. q \in Threads BY DEF Threads
  <2>2. ticket[q] # ticket[p]
    BY <1>1, <1>2 DEF IInv, DistinctOK
  <2>3. ticket[p] - capacity_bitmap <= ticket[q] - capacity_bitmap
    BY <1>1, <1>2 DEF IInv, WritersOK
  <2>4. ticket[p] < ticket[q]
    BY <1>1, <2>1, <2>2, <2>3 DEF capacity_bitmap
  <2> QED BY <1>1, <1>2, <2>1, <2>4, Gap
<1>3. ASSUME NEW c \in Consumers, pc[c] \in Reading, idx(ticket[c]) = idx(ticket[p])
      PROVE  ticket[c] >= ticket[p] /\ pc[c] \notin Taking
  <2>1. c \in Threads BY DEF Threads
  <2>2. ticket[p] - capacity_bitmap <= ticket[c]
    BY <1>1, <1>3 DEF IInv, ReadersOK
  <2>3. ~ (ticket[c] < ticket[p])
    <3> SUFFICES ASSUME ticket[c] < ticket[p] PROVE FALSE
      OBVIOUS
    <3>1. ticket[c] + Capacity <= ticket[p]
      BY <1>1, <1>3, <2>1, Gap
    <3> QED BY <3>1, <2>2, <2>1, <1>1 DEF capacity_bitmap
  <2>4. ticket[c] # ticket[p] - capacity_bitmap
    BY <1>1, <2>1, <1>3, Versions
  <2>5. pc[c] \notin Taking
    BY <1>1, <1>3, <2>4 DEF IInv, ReadersOK
  <2> QED BY <2>1, <2>3, <2>5, <1>1
<1> QED BY <1>2, <1>3

(* While a reader owns a slot, every other claim on it is for a later round (free_lock.cpp:84-93). *)
LEMMA BehindReader ==
    ASSUME Capacity >= 2, IInv, NEW c \in Consumers, pc[c] \in Taking
    PROVE  /\ \A d \in Consumers :
                d # c /\ pc[d] \in Reading /\ idx(ticket[d]) = idx(ticket[c])
                    => ticket[d] >= ticket[c] + Capacity
           /\ \A p \in Producers :
                pc[p] \in Writing /\ idx(ticket[p]) = idx(ticket[c])
                    => ticket[p] >= ticket[c] + Capacity /\ pc[p] \notin Filling
<1>1. /\ c \in Threads /\ pc[c] \in Reading /\ Capacity \in Nat \ {0}
      /\ flag_vec[idx(ticket[c])] = ticket[c]
      /\ \A t \in Threads : ticket[t] \in Nat
  BY Facts DEF IInv, ReadersOK, Reading, Taking, Threads
<1>2. ASSUME NEW d \in Consumers, d # c, pc[d] \in Reading, idx(ticket[d]) = idx(ticket[c])
      PROVE  ticket[d] >= ticket[c] + Capacity
  <2>1. d \in Threads BY DEF Threads
  <2>2. ticket[d] # ticket[c]
    BY <1>1, <1>2 DEF IInv, DistinctOK
  <2>3. ticket[c] <= ticket[d]
    BY <1>1, <1>2 DEF IInv, ReadersOK
  <2>4. ticket[c] < ticket[d]
    BY <1>1, <2>1, <2>2, <2>3
  <2> QED BY <1>1, <1>2, <2>1, <2>4, Gap
<1>3. ASSUME NEW p \in Producers, pc[p] \in Writing, idx(ticket[p]) = idx(ticket[c])
      PROVE  ticket[p] >= ticket[c] + Capacity /\ pc[p] \notin Filling
  <2>1. p \in Threads BY DEF Threads
  <2>2. ticket[c] <= ticket[p] - capacity_bitmap
    BY <1>1, <1>3 DEF IInv, WritersOK
  <2>3. ticket[c] < ticket[p]
    BY <1>1, <2>1, <2>2 DEF capacity_bitmap
  <2>4. ticket[c] + Capacity <= ticket[p]
    BY <1>1, <1>3, <2>1, <2>3, Gap
  <2>5. ticket[c] # ticket[p] - capacity_bitmap
    BY <1>1, <2>1, <1>3, Versions
  <2>6. pc[p] \notin Filling
    BY <1>1, <1>3, <2>5 DEF IInv, WritersOK
  <2> QED BY <2>1, <2>4, <2>6, <1>1
<1> QED BY <1>2, <1>3

(* fetch_add on read: the new position is behind everything on its slot. *)
LEMMA ClaimReadStep ==
    ASSUME IInv, TypeOK', NEW c \in Consumers, D_Claim(c)
    PROVE  IInv'
<1>0. c \in Threads /\ c \notin Producers
  BY ThreadAssumption DEF Threads
<1>2. /\ pc[c] = "d_claim" /\ pc'[c] = "d_wait"
      /\ ticket'[c] = read /\ read' = read + 1
      /\ UNCHANGED <<write, vec, flag_vec, item, log>>
  BY <1>0, Facts DEF D_Claim, Go, slots
<1>3. \A u \in Threads : u # c => pc'[u] = pc[u] /\ ticket'[u] = ticket[u]
  BY <1>0, Facts DEF D_Claim, Go
<1>4. \A p \in Producers : pc'[p] = pc[p] /\ ticket'[p] = ticket[p]
  BY <1>0, <1>3 DEF Threads
<1>6. FlagsOK'
  <2> SUFFICES ASSUME NEW i \in Slots PROVE \E n \in Nat : FullAt(i, n)' \/ FreeAt(i, n)'
    BY DEF FlagsOK
  <2>1. PICK n \in Nat : FullAt(i, n) \/ FreeAt(i, n)
    BY DEF IInv, FlagsOK
  <2>2. FullAt(i, n)' \/ FreeAt(i, n)'
    BY <2>1, <1>2, Facts DEF FullAt, FreeAt
  <2> QED BY <2>2
<1>7. flag_vec[idx(read)] <= read
  <2>0. read \in Nat /\ Capacity \in Nat \ {0}
    BY Facts
  <2>1. idx(read) \in Slots
    BY <2>0, IdxType
  <2>2. PICK n \in Nat : FullAt(idx(read), n) \/ FreeAt(idx(read), n)
    BY <2>1 DEF IInv, FlagsOK
  <2>3. n <= read
    <3>1. n < read + Capacity /\ idx(n) = idx(read)
      BY <2>2 DEF FullAt, FreeAt
    <3> SUFFICES ASSUME read < n PROVE FALSE
      BY <2>0
    <3>2. read + Capacity <= n
      BY <3>1, <2>0, Gap
    <3> QED BY <3>1, <3>2, <2>0
  <2> QED BY <2>0, <2>2, <2>3 DEF FullAt, FreeAt, capacity_bitmap
<1>8. WritersOK'
  BY <1>2, <1>4 DEF IInv, WritersOK
<1>9. ReadersOK'
  <2> SUFFICES ASSUME NEW d \in Consumers, pc'[d] \in Reading
               PROVE  /\ ticket'[d] < read'
                      /\ flag_vec[idx(ticket'[d])] <= ticket'[d]
                      /\ pc'[d] \in Taking => flag_vec[idx(ticket'[d])] = ticket'[d]
    BY <1>2 DEF ReadersOK
  <2>1. CASE d = c
    BY <2>1, <1>2, <1>7, Facts DEF Taking
  <2>2. CASE d # c
    <3>1. d \in Threads BY DEF Threads
    <3>2. ticket[d] < read /\ ticket[d] \in Nat /\ read \in Nat
      BY <2>2, <3>1, <1>3, Facts DEF IInv, ReadersOK
    <3> QED BY <2>2, <3>1, <3>2, <1>2, <1>3 DEF IInv, ReadersOK
  <2> QED BY <2>1, <2>2
<1>10. DistinctOK'
  <2>1. \A d \in Consumers : d # c /\ pc'[d] \in Reading => ticket'[d] # read
    BY <1>3, Facts DEF IInv, ReadersOK, Threads
  <2> QED BY <2>1, <1>0, <1>2, <1>3 DEF IInv, DistinctOK, Threads
<1>11. LogOK' /\ CarriedOK'
  BY <1>2, <1>4 DEF IInv, LogOK, CarriedOK
<1>12. \A d \in Consumers :
          \/ (pc'[d] = pc[d] /\ ticket'[d] = ticket[d])
          \/ (pc[d] = "d_claim" /\ pc'[d] = "d_wait")
  BY <1>2, <1>3 DEF Threads
<1>13. StoredOK'
  BY <1>2, <1>12 DEF IInv, StoredOK
<1>14. Delivered' /\ AssertItem'
  BY <1>2, <1>12 DEF IInv, Delivered, AssertItem
<1> QED BY <1>6, <1>8, <1>9, <1>10, <1>11, <1>13, <1>14 DEF IInv

-----------------------------------------------------------------------------
(* A step of t between two labels of a claim that stores no version. *)
Advances(t, from, to) ==
    /\ pc[t] = from
    /\ pc'[t] = to
    /\ \A u \in Threads : u # t => pc'[u] = pc[u]
    /\ UNCHANGED <<read, write, flag_vec, log, ticket>>

(* A writer may move on between its labels if it owns the slot whenever it enters it. *)
LEMMA WriterAdvances ==
    ASSUME IInv, NEW p \in Producers, NEW from \in Writing, NEW to \in Writing,
           Advances(p, from, to),
           to \in Filling => flag_vec[idx(ticket[p])] = ticket[p] - capacity_bitmap
    PROVE  /\ FlagsOK' /\ WritersOK' /\ ReadersOK' /\ DistinctOK' /\ LogOK'
           /\ \A c \in Consumers : pc'[c] = pc[c]
<1>1. \A c \in Consumers : pc'[c] = pc[c]
  BY ThreadAssumption DEF Advances, Threads
<1>2. \A q \in Producers : (pc'[q] \in Writing <=> pc[q] \in Writing)
  BY DEF Advances, Threads
<1>3. FlagsOK' /\ LogOK'
  BY DEF IInv, FlagsOK, FullAt, FreeAt, LogOK, Advances
<1>4. ReadersOK'
  BY <1>1 DEF IInv, ReadersOK, Advances
<1>5. DistinctOK'
  BY <1>1, <1>2 DEF IInv, DistinctOK, Advances
<1>6. WritersOK'
  BY <1>2 DEF IInv, WritersOK, Advances, Threads
<1> QED BY <1>1, <1>3, <1>4, <1>5, <1>6

(* A reader may move on between its labels if it owns the slot whenever it enters it. *)
LEMMA ReaderAdvances ==
    ASSUME IInv, NEW c \in Consumers, NEW from \in Reading, NEW to \in Reading,
           Advances(c, from, to),
           to \in Taking => flag_vec[idx(ticket[c])] = ticket[c]
    PROVE  /\ FlagsOK' /\ WritersOK' /\ ReadersOK' /\ DistinctOK' /\ LogOK'
           /\ \A p \in Producers : pc'[p] = pc[p]
<1>1. \A p \in Producers : pc'[p] = pc[p]
  BY ThreadAssumption DEF Advances, Threads
<1>2. \A d \in Consumers : (pc'[d] \in Reading <=> pc[d] \in Reading)
  BY DEF Advances, Threads
<1>3. FlagsOK' /\ LogOK'
  BY DEF IInv, FlagsOK, FullAt, FreeAt, LogOK, Advances
<1>4. WritersOK'
  BY <1>1 DEF IInv, WritersOK, Advances
<1>5. DistinctOK'
  BY <1>1, <1>2 DEF IInv, DistinctOK, Advances
<1>6. ReadersOK'
  BY <1>2 DEF IInv, ReadersOK, Advances, Threads
<1> QED BY <1>1, <1>3, <1>4, <1>5, <1>6

(* Loading the version (free_lock.cpp:119-124) keeps the invariant. *)
LEMMA WriterLoadStep ==
    ASSUME IInv, TypeOK', NEW p \in Producers, E_LoadFlag(p)
    PROVE  IInv'
<1>0. p \in Threads
  BY DEF Threads
<1>1. PICK to \in {"e_fill", "e_futex"} :
        /\ Advances(p, "e_wait", to)
        /\ to = "e_fill" => flag_vec[idx(ticket[p])] = ticket[p] - capacity_bitmap
        /\ UNCHANGED <<vec, item>>
  BY <1>0, Facts DEF E_LoadFlag, Go, Advances, counters, slots
<1>2. /\ FlagsOK' /\ WritersOK' /\ ReadersOK' /\ DistinctOK' /\ LogOK'
      /\ \A c \in Consumers : pc'[c] = pc[c]
  BY <1>1, WriterAdvances DEF Writing, Filling
<1>3. CarriedOK'
  BY <1>1 DEF IInv, CarriedOK, Advances, Threads, Writing
<1>4. StoredOK' /\ Delivered' /\ AssertItem'
  BY <1>1, <1>2 DEF IInv, StoredOK, Delivered, AssertItem, Advances
<1> QED BY <1>2, <1>3, <1>4 DEF IInv

(* The owner stores its item: nobody else looks at the slot. *)
LEMMA FillStep ==
    ASSUME Capacity >= 2, IInv, TypeOK', NEW p \in Producers, E_Fill(p)
    PROVE  IInv'
<1>0. p \in Threads
  BY DEF Threads
<1>1. /\ Advances(p, "e_fill", "e_publish")
      /\ vec' = [vec EXCEPT ![idx(ticket[p])] = item[p]]
      /\ UNCHANGED item
  BY <1>0, Facts DEF E_Fill, Go, Advances, counters, locals
<1>2. /\ pc[p] \in Writing /\ pc[p] \in Filling
      /\ flag_vec[idx(ticket[p])] = ticket[p] - capacity_bitmap
      /\ idx(ticket[p]) \in Slots /\ ticket[p] \in Nat
  BY <1>0, <1>1, Facts DEF IInv, WritersOK, Advances, Writing, Filling
<1>3. /\ FlagsOK' /\ WritersOK' /\ ReadersOK' /\ DistinctOK' /\ LogOK'
      /\ \A c \in Consumers : pc'[c] = pc[c]
  BY <1>1, <1>2, WriterAdvances DEF Writing, Filling
<1>4. CarriedOK'
  <2> SUFFICES ASSUME NEW q \in Producers
               PROVE  /\ pc'[q] # "idle" => item[q] \in Items
                      /\ pc'[q] \in Writing => item[q] = log[ticket[q] + 1]
                      /\ pc'[q] = "e_publish" => vec'[idx(ticket[q])] = item[q]
    BY <1>1 DEF CarriedOK, Advances
  <2>1. CASE q = p
    BY <2>1, <1>1, <1>2, Facts DEF IInv, CarriedOK, Advances, Writing
  <2>2. CASE q # p
    <3>1. q \in Threads /\ pc'[q] = pc[q]
      BY <2>2, <1>1 DEF Threads, Advances
    <3>2. pc[q] = "e_publish" => idx(ticket[q]) # idx(ticket[p])
      <4> SUFFICES ASSUME pc[q] = "e_publish", idx(ticket[q]) = idx(ticket[p])
                   PROVE  FALSE
        OBVIOUS
      <4>1. pc[q] \in Filling /\ pc[q] \in Writing
        BY DEF Filling, Writing
      <4>2. ticket[q] >= ticket[p] + Capacity /\ ticket[p] >= ticket[q] + Capacity
        BY <2>2, <4>1, <1>2, BehindWriter
      <4> QED BY <4>2, <3>1, <1>2, Facts
    <3>3. pc[q] = "e_publish" => vec'[idx(ticket[q])] = vec[idx(ticket[q])]
      BY <3>1, <3>2, <1>1, Facts
    <3> QED BY <3>1, <3>3 DEF IInv, CarriedOK
  <2> QED BY <2>1, <2>2
<1>5. StoredOK'
  <2> SUFFICES ASSUME NEW i \in Slots, NEW n \in Nat, idx(n) = i, flag_vec[i] = n,
                      \A c \in Consumers : ~ (pc[c] = "d_release" /\ ticket[c] = n)
               PROVE  vec'[i] = log[n + 1]
    BY <1>1, <1>3 DEF StoredOK, Advances
  <2>1. i # idx(ticket[p])
    BY <1>2, Versions
  <2>2. vec'[i] = vec[i]
    BY <2>1, <1>1, Facts
  <2> QED BY <2>2 DEF IInv, StoredOK
<1>6. Delivered' /\ AssertItem'
  BY <1>1, <1>3 DEF IInv, Delivered, AssertItem, Advances
<1> QED BY <1>3, <1>4, <1>5, <1>6 DEF IInv

(* Loading the version into an int (free_lock.cpp:72-77) keeps the invariant. *)
LEMMA ReaderLoadStep ==
    ASSUME IntHalf >= Capacity, IInv, TypeOK', NEW c \in Consumers, D_LoadFlag(c)
    PROVE  IInv'
<1>0. c \in Threads
  BY DEF Threads
<1>1. PICK to \in {"d_take", "d_futex"} :
        /\ Advances(c, "d_wait", to)
        /\ to = "d_take" => AsInt(flag_vec[idx(ticket[c])]) = ticket[c]
        /\ UNCHANGED <<vec, item>>
  BY <1>0, Facts DEF D_LoadFlag, Go, Advances, counters, slots
<1>2. to = "d_take" => flag_vec[idx(ticket[c])] = ticket[c]
  <2> SUFFICES ASSUME to = "d_take" PROVE flag_vec[idx(ticket[c])] = ticket[c]
    OBVIOUS
  <2> DEFINE v == flag_vec[idx(ticket[c])]
  <2>1. ticket[c] \in Nat /\ idx(ticket[c]) \in Slots /\ v \in Int /\ Capacity \in Nat \ {0}
    BY <1>0, Facts
  <2>2. v <= ticket[c]
    BY <1>1 DEF IInv, ReadersOK, Reading, Advances
  <2>3. PICK n \in Nat : FullAt(idx(ticket[c]), n) \/ FreeAt(idx(ticket[c]), n)
    BY <2>1 DEF IInv, FlagsOK
  <2>4. v > 0 - IntHalf
    BY <2>1, <2>3, IntAssumption DEF FullAt, FreeAt, capacity_bitmap
  <2> HIDE DEF v
  <2>5. AsInt(v) = ticket[c]
    BY <1>1 DEF v
  <2> QED BY <2>1, <2>2, <2>4, <2>5, AsIntExact DEF v
<1>3. /\ FlagsOK' /\ WritersOK' /\ ReadersOK' /\ DistinctOK' /\ LogOK'
      /\ \A p \in Producers : pc'[p] = pc[p]
  BY <1>1, <1>2, ReaderAdvances DEF Reading, Taking
<1>4. CarriedOK'
  BY <1>1, <1>3 DEF IInv, CarriedOK, Advances
<1>5. \A d \in Consumers : pc'[d] = pc[d] \/ (pc[d] = "d_wait" /\ pc'[d] \in {"d_take", "d_futex"})
  BY <1>1 DEF Advances, Threads
<1>6. StoredOK' /\ Delivered' /\ AssertItem'
  BY <1>1, <1>5 DEF IInv, StoredOK, Delivered, AssertItem, Advances
<1> QED BY <1>3, <1>4, <1>6 DEF IInv

(* A readable slot was claimed by a writer. *)
LEMMA ReadableWritten ==
    ASSUME Capacity >= 2, IInv, NEW n \in Nat, flag_vec[idx(n)] = n
    PROVE  n < write
<1>1. idx(n) \in Slots
  BY IdxType
<1>2. PICK m \in Nat : FullAt(idx(n), m) \/ FreeAt(idx(n), m)
  BY <1>1 DEF IInv, FlagsOK
<1>3. ~ FreeAt(idx(n), m)
  BY Versions DEF FreeAt
<1> QED BY <1>2, <1>3 DEF FullAt

(* The reader finds the logged item in its slot, so the assertion holds. *)
LEMMA TakeStep ==
    ASSUME Capacity >= 2, IInv, TypeOK', NEW c \in Consumers, D_Take(c)
    PROVE  IInv'
<1>0. c \in Threads
  BY DEF Threads
<1>1. /\ pc[c] = "d_take" /\ pc[c] \in Reading /\ pc[c] \in Taking
      /\ item' = [item EXCEPT ![c] = vec[idx(ticket[c])]]
      /\ UNCHANGED <<read, write, vec, flag_vec, log, ticket>>
      /\ ticket[c] \in Nat /\ idx(ticket[c]) \in Slots
  BY <1>0, Facts DEF D_Take, Go, counters, slots, Reading, Taking
<1>2. flag_vec[idx(ticket[c])] = ticket[c]
  BY <1>1 DEF IInv, ReadersOK
<1>3. ticket[c] < write
  BY <1>1, <1>2, ReadableWritten
<1>4. vec[idx(ticket[c])] = log[ticket[c] + 1]
  <2>1. \A d \in Consumers : ~ (pc[d] = "d_release" /\ ticket[d] = ticket[c])
    BY <1>1 DEF IInv, DistinctOK, Reading
  <2> QED BY <1>1, <1>2, <2>1 DEF IInv, StoredOK
<1>5. log[ticket[c] + 1] \in Items
  BY <1>1, <1>3, Facts
<1>6. Advances(c, "d_take", "d_clear")
  BY <1>0, <1>1, <1>4, <1>5, NullAssumption, Facts DEF D_Take, Go, Advances
<1>7. /\ FlagsOK' /\ WritersOK' /\ ReadersOK' /\ DistinctOK' /\ LogOK'
      /\ \A p \in Producers : pc'[p] = pc[p]
  BY <1>2, <1>6, ReaderAdvances DEF Reading, Taking
<1>8. CarriedOK'
  <2>1. \A p \in Producers : item'[p] = item[p]
    BY <1>1, ThreadAssumption, Facts DEF Threads
  <2> QED BY <1>1, <1>7, <2>1 DEF IInv, CarriedOK
<1>9. \A d \in Consumers : d # c => pc'[d] = pc[d] /\ item'[d] = item[d]
  BY <1>1, <1>6, Facts DEF Advances, Threads
<1>10. pc'[c] = "d_clear" /\ item'[c] = log[ticket[c] + 1]
  BY <1>0, <1>1, <1>4, <1>6, Facts DEF Advances
<1>11. StoredOK'
  BY <1>1, <1>9, <1>10 DEF IInv, StoredOK
<1>12. Delivered' /\ AssertItem'
  BY <1>1, <1>3, <1>9, <1>10 DEF IInv, Delivered, AssertItem
<1> QED BY <1>7, <1>8, <1>11, <1>12 DEF IInv

(* Clearing the slot after the item was taken (free_lock.cpp:92) keeps the invariant. *)
LEMMA ClearStep ==
    ASSUME Capacity >= 2, IInv, TypeOK', NEW c \in Consumers, D_Clear(c)
    PROVE  IInv'
<1>0. c \in Threads
  BY DEF Threads
<1>1. /\ Advances(c, "d_clear", "d_release")
      /\ pc[c] \in Reading /\ pc[c] \in Taking
      /\ vec' = [vec EXCEPT ![idx(ticket[c])] = Null]
      /\ UNCHANGED item
      /\ ticket[c] \in Nat /\ idx(ticket[c]) \in Slots
  BY <1>0, Facts DEF D_Clear, Go, Advances, counters, locals, Reading, Taking
<1>2. flag_vec[idx(ticket[c])] = ticket[c]
  BY <1>1 DEF IInv, ReadersOK
<1>3. /\ FlagsOK' /\ WritersOK' /\ ReadersOK' /\ DistinctOK' /\ LogOK'
      /\ \A p \in Producers : pc'[p] = pc[p]
  BY <1>1, <1>2, ReaderAdvances DEF Reading, Taking
<1>4. CarriedOK'
  <2>1. \A p \in Producers : pc[p] = "e_publish" => vec'[idx(ticket[p])] = vec[idx(ticket[p])]
    <3> SUFFICES ASSUME NEW p \in Producers, pc[p] = "e_publish"
                 PROVE  vec'[idx(ticket[p])] = vec[idx(ticket[p])]
      OBVIOUS
    <3>1. pc[p] \in Filling /\ pc[p] \in Writing /\ p \in Threads
      BY DEF Filling, Writing, Threads
    <3>2. idx(ticket[p]) # idx(ticket[c])
      BY <3>1, <1>1, BehindReader
    <3> QED BY <3>1, <3>2, <1>1, Facts
  <2> QED BY <1>1, <1>3, <2>1 DEF IInv, CarriedOK, Advances
<1>5. StoredOK'
  <2> SUFFICES ASSUME NEW i \in Slots, NEW n \in Nat, idx(n) = i, flag_vec[i] = n,
                      \A d \in Consumers : ~ (pc'[d] = "d_release" /\ ticket[d] = n)
               PROVE  vec'[i] = log[n + 1]
    BY <1>1 DEF StoredOK, Advances
  <2>1. n # ticket[c] /\ i # idx(ticket[c])
    BY <1>1, <1>2 DEF Advances
  <2>2. \A d \in Consumers : ~ (pc[d] = "d_release" /\ ticket[d] = n)
    BY <1>1 DEF Advances, Threads
  <2>3. vec'[i] = vec[i]
    BY <2>1, <1>1, Facts
  <2> QED BY <2>2, <2>3 DEF IInv, StoredOK
<1>6. Delivered' /\ AssertItem'
  <2>1. \A d \in Consumers : pc'[d] = pc[d] \/ (pc[d] = "d_clear" /\ pc'[d] = "d_release")
    BY <1>1 DEF Advances, Threads
  <2> QED BY <1>1, <2>1 DEF IInv, Delivered, AssertItem, Advances
<1> QED BY <1>3, <1>4, <1>5, <1>6 DEF IInv

-----------------------------------------------------------------------------
(* Storing the version of position w makes the slot readable by w's reader. *)
LEMMA PublishStep ==
    ASSUME Capacity >= 2, IInv, TypeOK', NEW p \in Producers, E_Publish(p)
    PROVE  IInv'
<1>0. p \in Threads /\ p \notin Consumers
  BY ThreadAssumption DEF Threads
<1>w. PICK w \in Nat : w = ticket[p]
  BY <1>0, Facts
<1>i. PICK i \in Slots : i = idx(w)
  BY IdxType
<1>1. /\ pc[p] = "e_publish" /\ pc[p] \in Writing /\ pc[p] \in Filling
      /\ pc'[p] = "e_wake"
      /\ \A u \in Threads : u # p => pc'[u] = pc[u]
      /\ flag_vec' = [flag_vec EXCEPT ![i] = w]
      /\ UNCHANGED <<read, write, vec, log, ticket, item>>
      /\ w \in Nat /\ i \in Slots /\ Capacity \in Nat \ {0}
      /\ read \in Nat /\ write \in Nat
      /\ \A t \in Threads : ticket[t] \in Nat /\ idx(ticket[t]) \in Slots
  BY <1>0, <1>w, <1>i, Facts DEF E_Publish, Go, counters, locals, Writing, Filling
<1>2. w < write /\ flag_vec[i] = w - capacity_bitmap
  BY <1>1, <1>w, <1>i DEF IInv, WritersOK
<1>3. /\ flag_vec'[i] = w
      /\ \A j \in Slots : j # i => flag_vec'[j] = flag_vec[j]
  BY <1>1, Facts
<1>4. \A c \in Consumers : pc'[c] = pc[c] /\ c \in Threads
  BY <1>0, <1>1 DEF Threads
<1>5. FlagsOK'
  <2> SUFFICES ASSUME NEW j \in Slots PROVE \E n \in Nat : FullAt(j, n)' \/ FreeAt(j, n)'
    BY DEF FlagsOK
  <2>1. PICK n \in Nat : FullAt(j, n) \/ FreeAt(j, n)
    BY DEF IInv, FlagsOK
  <2>2. CASE j = i
    <3>1. w < read + Capacity
      <4>1. FreeAt(i, n)
        <5>1. ~ FullAt(i, n)
          BY <1>1, <1>2, Versions, <1>i DEF FullAt
        <5> QED BY <2>1, <2>2, <5>1
      <4> QED BY <4>1, <1>1, <1>2 DEF FreeAt, capacity_bitmap
    <3>2. FullAt(i, w)'
      BY <3>1, <1>1, <1>2, <1>3, <1>i DEF FullAt
    <3> QED BY <2>2, <3>2, <1>1
  <2>3. CASE j # i
    <3>1. FullAt(j, n)' \/ FreeAt(j, n)'
      BY <2>1, <2>3, <1>1, <1>3 DEF FullAt, FreeAt
    <3> QED BY <3>1
  <2> QED BY <2>2, <2>3
<1>6. WritersOK'
  <2> SUFFICES ASSUME NEW q \in Producers, pc'[q] \in Writing
               PROVE  /\ ticket[q] < write
                      /\ flag_vec'[idx(ticket[q])] <= ticket[q] - capacity_bitmap
                      /\ pc'[q] \in Filling =>
                            flag_vec'[idx(ticket[q])] = ticket[q] - capacity_bitmap
    BY <1>1 DEF WritersOK, capacity_bitmap
  <2>1. q # p /\ q \in Threads /\ pc[q] = pc'[q] /\ pc[q] \in Writing
    BY <1>1 DEF Threads, Writing
  <2>2. CASE idx(ticket[q]) = i
    <3>1. ticket[q] >= w + Capacity
      BY <2>1, <2>2, <1>1, BehindWriter, <1>w, <1>i
    <3>2. pc[q] \notin Filling
      <4> SUFFICES ASSUME pc[q] \in Filling PROVE FALSE
        OBVIOUS
      <4>1. w >= ticket[q] + Capacity
        BY <2>1, <2>2, <1>1, BehindWriter, <1>w, <1>i
      <4> QED BY <3>1, <4>1, <2>1, <1>1
    <3> QED BY <2>1, <2>2, <3>1, <3>2, <1>1, <1>3 DEF IInv, WritersOK, capacity_bitmap
  <2>3. CASE idx(ticket[q]) # i
    BY <2>1, <2>3, <1>1, <1>3 DEF IInv, WritersOK
  <2> QED BY <2>2, <2>3
<1>7. ReadersOK'
  <2> SUFFICES ASSUME NEW c \in Consumers, pc[c] \in Reading
               PROVE  /\ ticket[c] < read
                      /\ flag_vec'[idx(ticket[c])] <= ticket[c]
                      /\ pc[c] \in Taking => flag_vec'[idx(ticket[c])] = ticket[c]
    BY <1>1, <1>4 DEF ReadersOK
  <2>1. CASE idx(ticket[c]) = i
    <3>1. ticket[c] >= w /\ pc[c] \notin Taking
      BY <2>1, <1>1, BehindWriter, <1>w, <1>i
    <3> QED BY <2>1, <3>1, <1>1, <1>3, <1>4 DEF IInv, ReadersOK
  <2>2. CASE idx(ticket[c]) # i
    BY <2>2, <1>1, <1>3, <1>4 DEF IInv, ReadersOK
  <2> QED BY <2>1, <2>2
<1>8. DistinctOK' /\ LogOK'
  <2>1. \A q \in Producers : pc'[q] \in Writing => pc[q] \in Writing
    BY <1>1 DEF Threads
  <2> QED BY <1>1, <1>4, <2>1 DEF IInv, DistinctOK, LogOK
<1>9. CarriedOK'
  <2>1. \A q \in Producers : pc'[q] = pc[q] \/ (pc[q] = "e_publish" /\ pc'[q] = "e_wake")
    BY <1>1 DEF Threads
  <2> QED BY <1>1, <2>1 DEF IInv, CarriedOK, Writing
<1>10. StoredOK'
  <2> SUFFICES ASSUME NEW j \in Slots, NEW n \in Nat, idx(n) = j, flag_vec'[j] = n,
                      \A c \in Consumers : ~ (pc[c] = "d_release" /\ ticket[c] = n)
               PROVE  vec[j] = log[n + 1]
    BY <1>1, <1>4 DEF StoredOK
  <2>1. CASE j = i
    <3>1. vec[i] = item[p] /\ item[p] = log[w + 1]
      BY <1>1, <1>w, <1>i DEF IInv, CarriedOK
    <3> QED BY <2>1, <3>1, <1>3
  <2>2. CASE j # i
    BY <2>2, <1>3 DEF IInv, StoredOK
  <2> QED BY <2>1, <2>2
<1>11. Delivered' /\ AssertItem'
  BY <1>1, <1>4 DEF IInv, Delivered, AssertItem
<1> QED BY <1>5, <1>6, <1>7, <1>8, <1>9, <1>10, <1>11 DEF IInv

(* Storing r + 1 hands the slot to the writer one round later. *)
LEMMA ReleaseStep ==
    ASSUME Capacity >= 2, IInv, TypeOK', NEW c \in Consumers, D_Release(c)
    PROVE  IInv'
<1>0. c \in Threads /\ c \notin Producers
  BY ThreadAssumption DEF Threads
<1>w. PICK r \in Nat : r = ticket[c]
  BY <1>0, Facts
<1>i. PICK i \in Slots : i = idx(r)
  BY IdxType
<1>1. /\ pc[c] = "d_release" /\ pc[c] \in Reading /\ pc[c] \in Taking
      /\ pc'[c] = "d_wake"
      /\ \A u \in Threads : u # c => pc'[u] = pc[u]
      /\ flag_vec' = [flag_vec EXCEPT ![i] = r + 1]
      /\ UNCHANGED <<read, write, vec, log, ticket, item>>
      /\ r \in Nat /\ i \in Slots /\ Capacity \in Nat \ {0}
      /\ read \in Nat /\ write \in Nat
      /\ \A t \in Threads : ticket[t] \in Nat /\ idx(ticket[t]) \in Slots
  BY <1>0, <1>w, <1>i, Facts DEF D_Release, Go, counters, locals, Reading, Taking
<1>2. r < read /\ flag_vec[i] = r
  BY <1>1, <1>w, <1>i DEF IInv, ReadersOK
<1>3. r < write
  BY <1>1, <1>2, <1>i, ReadableWritten
<1>4. /\ flag_vec'[i] = r + 1
      /\ \A j \in Slots : j # i => flag_vec'[j] = flag_vec[j]
  BY <1>1, Facts
<1>5. \A p \in Producers : pc'[p] = pc[p] /\ p \in Threads
  BY <1>0, <1>1 DEF Threads
<1>6. idx(r + Capacity) = i
  BY <1>i, IdxNext
<1>7. FlagsOK'
  <2> SUFFICES ASSUME NEW j \in Slots PROVE \E n \in Nat : FullAt(j, n)' \/ FreeAt(j, n)'
    BY DEF FlagsOK
  <2>1. CASE j = i
    <3>1. FreeAt(i, r + Capacity)'
      BY <1>1, <1>2, <1>3, <1>4, <1>6 DEF FreeAt, capacity_bitmap
    <3> QED BY <2>1, <3>1, <1>1
  <2>2. CASE j # i
    <3>1. PICK n \in Nat : FullAt(j, n) \/ FreeAt(j, n)
      BY DEF IInv, FlagsOK
    <3>2. FullAt(j, n)' \/ FreeAt(j, n)'
      BY <3>1, <2>2, <1>1, <1>4 DEF FullAt, FreeAt
    <3> QED BY <3>2
  <2> QED BY <2>1, <2>2
<1>8. WritersOK'
  <2> SUFFICES ASSUME NEW p \in Producers, pc[p] \in Writing
               PROVE  /\ ticket[p] < write
                      /\ flag_vec'[idx(ticket[p])] <= ticket[p] - capacity_bitmap
                      /\ pc[p] \in Filling =>
                            flag_vec'[idx(ticket[p])] = ticket[p] - capacity_bitmap
    BY <1>1, <1>5 DEF WritersOK, capacity_bitmap
  <2>1. CASE idx(ticket[p]) = i
    <3>1. ticket[p] >= r + Capacity /\ pc[p] \notin Filling
      BY <2>1, <1>1, BehindReader, <1>w, <1>i
    <3> QED BY <2>1, <3>1, <1>1, <1>4, <1>5 DEF IInv, WritersOK, capacity_bitmap
  <2>2. CASE idx(ticket[p]) # i
    BY <2>2, <1>1, <1>4, <1>5 DEF IInv, WritersOK
  <2> QED BY <2>1, <2>2
<1>9. ReadersOK'
  <2> SUFFICES ASSUME NEW d \in Consumers, pc'[d] \in Reading
               PROVE  /\ ticket[d] < read
                      /\ flag_vec'[idx(ticket[d])] <= ticket[d]
                      /\ pc'[d] \in Taking => flag_vec'[idx(ticket[d])] = ticket[d]
    BY <1>1 DEF ReadersOK
  <2>1. d # c /\ d \in Threads /\ pc[d] = pc'[d] /\ pc[d] \in Reading
    BY <1>1 DEF Threads, Reading
  <2>2. CASE idx(ticket[d]) = i
    <3>1. ticket[d] >= r + Capacity
      BY <2>1, <2>2, <1>1, BehindReader, <1>w, <1>i
    <3>2. pc[d] \notin Taking
      <4> SUFFICES ASSUME pc[d] \in Taking PROVE FALSE
        OBVIOUS
      <4>1. r >= ticket[d] + Capacity
        BY <2>1, <2>2, <1>1, BehindReader, <1>w, <1>i
      <4> QED BY <3>1, <4>1, <2>1, <1>1
    <3> QED BY <2>1, <2>2, <3>1, <3>2, <1>1, <1>4 DEF IInv, ReadersOK
  <2>3. CASE idx(ticket[d]) # i
    BY <2>1, <2>3, <1>1, <1>4 DEF IInv, ReadersOK
  <2> QED BY <2>2, <2>3
<1>10. DistinctOK' /\ LogOK'
  <2>1. \A d \in Consumers : pc'[d] \in Reading => pc[d] \in Reading
    BY <1>1 DEF Threads
  <2> QED BY <1>1, <1>5, <2>1 DEF IInv, DistinctOK, LogOK
<1>11. CarriedOK'
  BY <1>1, <1>5 DEF IInv, CarriedOK
<1>12. StoredOK'
  <2> SUFFICES ASSUME NEW j \in Slots, NEW n \in Nat, idx(n) = j, flag_vec'[j] = n,
                      \A d \in Consumers : ~ (pc'[d] = "d_release" /\ ticket[d] = n)
               PROVE  vec[j] = log[n + 1]
    BY <1>1 DEF StoredOK
  <2>1. j # i
    <3> SUFFICES ASSUME j = i PROVE FALSE
      OBVIOUS
    <3>1. n = (r + Capacity) - capacity_bitmap
      BY <1>1, <1>4 DEF capacity_bitmap
    <3> QED BY <3>1, <1>1, <1>6, Versions
  <2>2. flag_vec[j] = n
    BY <2>1, <1>4
  <2>3. \A d \in Consumers : ~ (pc[d] = "d_release" /\ ticket[d] = n)
    <3>1. n # r
      BY <2>1, <1>i
    <3> QED BY <3>1, <1>1, <1>w DEF Threads
  <2> QED BY <2>2, <2>3 DEF IInv, StoredOK
<1>13. Delivered' /\ AssertItem'
  <2>1. \A d \in Consumers : pc'[d] = pc[d] \/ (pc[d] = "d_release" /\ pc'[d] = "d_wake")
    BY <1>1 DEF Threads
  <2> QED BY <1>1, <2>1 DEF IInv, Delivered, AssertItem
<1> QED BY <1>7, <1>8, <1>9, <1>10, <1>11, <1>12, <1>13 DEF IInv

(* Every step of every thread keeps the invariant. *)
LEMMA NextIInv ==
    ASSUME Capacity >= 2, IntHalf >= Capacity, IInv, [Next]_vars
    PROVE  IInv'
<1>1. TypeOK'
  BY TypeStep DEF IInv
<1>2. ASSUME NEW p \in Producers, try_enqueue(p)
      PROVE  IInv'
  <2>1. CASE QuietE(p)
    BY <1>1, <2>1, QuietEFrame, FrameStep
  <2>2. CASE E_Wake(p)
    <3>1. p \in Threads
      BY DEF Threads
    <3> QED BY <1>1, <2>2, <3>1, WakeFrame, FrameStep DEF E_Wake
  <2>3. CASE E_Claim(p)
    BY <1>1, <2>3, ClaimWriteStep
  <2>4. CASE E_LoadFlag(p)
    BY <1>1, <2>4, WriterLoadStep
  <2>5. CASE E_Fill(p)
    BY <1>1, <2>5, FillStep
  <2>6. CASE E_Publish(p)
    BY <1>1, <2>6, PublishStep
  <2> QED
    BY <1>2, <2>1, <2>2, <2>3, <2>4, <2>5, <2>6 DEF try_enqueue, QuietE
<1>3. ASSUME NEW c \in Consumers, try_dequeue(c)
      PROVE  IInv'
  <2>1. CASE QuietD(c)
    BY <1>1, <2>1, QuietDFrame, FrameStep
  <2>2. CASE D_Wake(c)
    <3>1. c \in Threads
      BY DEF Threads
    <3> QED BY <1>1, <2>2, <3>1, WakeFrame, FrameStep DEF D_Wake
  <2>3. CASE D_Claim(c)
    BY <1>1, <2>3, ClaimReadStep
  <2>4. CASE D_LoadFlag(c)
    BY <1>1, <2>4, ReaderLoadStep
  <2>5. CASE D_Take(c)
    BY <1>1, <2>5, TakeStep
  <2>6. CASE D_Clear(c)
    BY <1>1, <2>6, ClearStep
  <2>7. CASE D_Release(c)
    BY <1>1, <2>7, ReleaseStep
  <2> QED
    BY <1>3, <2>1, <2>2, <2>3, <2>4, <2>5, <2>6, <2>7 DEF try_dequeue, QuietD
<1>4. CASE UNCHANGED vars
  <2>1. UNCHANGED <<read, write, vec, flag_vec, log, pc, ticket, item>>
    BY <1>4 DEF vars, counters, slots, locals
  <2>2. Frame
    BY <2>1 DEF Frame, SameWriter, SameReader, IInv, CarriedOK, AssertItem
  <2> QED BY <1>1, <2>2, FrameStep
<1> QED BY <1>2, <1>3, <1>4 DEF Next

(* The invariant implies that no slot has two owners. *)
LEMMA IInvExclusive ==
    ASSUME Capacity >= 2, IInv
    PROVE  SlotExclusive
<1> SUFFICES ASSUME NEW s \in Threads, NEW t \in Threads, s # t,
                    pc[s] \in Owning, pc[t] \in Owning, idx(ticket[s]) = idx(ticket[t])
             PROVE  FALSE
  BY DEF SlotExclusive
<1>1. \A u \in Threads : ticket[u] \in Nat /\ Capacity \in Nat \ {0}
  BY Facts
<1>2. ASSUME NEW u \in Threads, pc[u] \in Owning
      PROVE  \/ u \in Producers /\ pc[u] \in Filling /\ pc[u] \in Writing
             \/ u \in Consumers /\ pc[u] \in Taking /\ pc[u] \in Reading
  BY <1>2 DEF IInv, TypeOK, TypePC, Threads, Owning, Filling, Taking, Writing, Reading,
              EnqueuePC, DequeuePC
<1>3. CASE s \in Producers /\ pc[s] \in Filling /\ pc[s] \in Writing
  <2>1. CASE t \in Producers /\ pc[t] \in Filling /\ pc[t] \in Writing
    <3>1. ticket[t] >= ticket[s] + Capacity /\ ticket[s] >= ticket[t] + Capacity
      BY <1>3, <2>1, BehindWriter
    <3> QED BY <3>1, <1>1
  <2>2. CASE t \in Consumers /\ pc[t] \in Taking /\ pc[t] \in Reading
    BY <1>3, <2>2, BehindWriter
  <2> QED BY <2>1, <2>2, <1>2
<1>4. CASE s \in Consumers /\ pc[s] \in Taking /\ pc[s] \in Reading
  <2>1. CASE t \in Producers /\ pc[t] \in Filling /\ pc[t] \in Writing
    BY <1>4, <2>1, BehindReader
  <2>2. CASE t \in Consumers /\ pc[t] \in Taking /\ pc[t] \in Reading
    <3>1. ticket[t] >= ticket[s] + Capacity /\ ticket[s] >= ticket[t] + Capacity
      BY <1>4, <2>2, BehindReader
    <3> QED BY <3>1, <1>1
  <2> QED BY <2>1, <2>2, <1>2
<1> QED BY <1>2, <1>3, <1>4

(* The inductive invariant of the handshake holds in every behaviour of the  *)
(* queue with two slots or more.                                             *)
THEOREM HandshakeInv ==
    ASSUME Capacity >= 2, IntHalf >= Capacity
    PROVE  Spec => []IInv
<1>1. Init => IInv
  BY InitIInv
<1>2. IInv /\ [Next]_vars => IInv'
  BY NextIInv
<1> QED BY <1>1, <1>2, PTL DEF Spec

(* Type correctness of LimitQueue's counters, slots and locals.              *)
THEOREM TypeCorrect ==
    ASSUME Capacity >= 2, IntHalf >= Capacity
    PROVE  Spec => []TypeOK
<1>1. IInv => TypeOK
  BY DEF IInv
<1> QED BY <1>1, HandshakeInv, PTL

(* No two threads ever touch the same slot of vec at once                    *)
(* (free_lock.cpp:72-93, 119-142).                                           *)
THEOREM SlotsExclusive ==
    ASSUME Capacity >= 2, IntHalf >= Capacity
    PROVE  Spec => []SlotExclusive
<1>1. IInv => SlotExclusive
  BY IInvExclusive
<1> QED BY <1>1, HandshakeInv, PTL

(* QuietFlowAssert(item is not null) at free_lock.cpp:91 never throws.       *)
THEOREM AssertionHolds ==
    ASSUME Capacity >= 2, IntHalf >= Capacity
    PROVE  Spec => []AssertItem
<1>1. IInv => AssertItem
  BY DEF IInv
<1> QED BY <1>1, HandshakeInv, PTL

(* The consumer of position n returns what the producer of position n put    *)
(* in (free_lock.cpp:69, 89, 116, 136): nothing lost, duplicated, reordered. *)
THEOREM DeliveredInOrder ==
    ASSUME Capacity >= 2, IntHalf >= Capacity
    PROVE  Spec => []Delivered
<1>1. IInv => Delivered
  BY DEF IInv
<1> QED BY <1>1, HandshakeInv, PTL

(***************************************************************************)
(* Nobody claims a position that does not exist.                           *)
(*                                                                         *)
(* Both calls draw a ticket (write_ahead, read_ahead), test it against     *)
(* the other side with a missed counter loaded before, and then either     *)
(* claim a position or give the ticket back.  Side is the invariant of     *)
(* one side; all it needs to know of the other one is a limit that only    *)
(* grows.  It is about values, so that it can be read before and after a   *)
(* step: f, a and m stand for pc, ahead and missed.                        *)
(***************************************************************************)
Loaded == {"e_ahead", "e_ticket", "d_ahead", "d_ticket"}
Testing == {"e_check", "d_check"}
Passed == {"e_claim", "d_claim"}
Refused == {"e_miss", "d_miss"}
Open == Testing \cup Passed \cup Refused

At(f, T, labels) == {t \in T : f[t] \in labels}
Below(a, C, n) == {t \in C : a[t] < n}

\* No ticket of h or above has passed the test.  The claims and the tickets
\* below h keep to the limit; a ticket from h on that is still to be tested
\* leaves room for the claims there are and for all tickets below it.
RoomBelow(h, a, m, C, k, done, limit) ==
    /\ done + k + Cardinality(Below(a, C, h)) <= limit
    /\ \A t \in C : a[t] >= h => done + k + Cardinality(Below(a, C, a[t])) <= a[t] - m[t]

Room(a, m, C, k, drawn, done, limit) ==
    \E h \in 0 .. drawn : RoomBelow(h, a, m, C, k, done, limit)

Distinct(a, C) == \A t, u \in C : t # u => a[t] # a[u]

Side(f, a, m, T, drawn, done, gone, limit) ==
    /\ drawn \in Nat /\ done \in Nat /\ gone \in Nat /\ limit \in Nat
    /\ \A t \in T : a[t] \in Nat /\ m[t] \in Nat
    /\ drawn = done + gone + Cardinality(At(f, T, Open))
    /\ \A t \in At(f, T, Loaded) : m[t] <= gone
    /\ \A t \in At(f, T, Testing) : a[t] < drawn
    /\ Distinct(a, At(f, T, Testing))
    /\ Room(a, m, At(f, T, Testing), Cardinality(At(f, T, Passed)), drawn, done, limit)

\* Only thread t changes.
Alike(f, g, T, t) == \A u \in T : u # t => g[u] = f[u]

\* Fewer threads below n, or one more.
LEMMA BelowFinite ==
    ASSUME NEW C, IsFiniteSet(C), NEW a, NEW n
    PROVE  IsFiniteSet(Below(a, C, n)) /\ Cardinality(Below(a, C, n)) \in Nat
<1>1. Below(a, C, n) \subseteq C  BY DEF Below
<1>2. IsFiniteSet(Below(a, C, n))  BY ONLY <1>1, IsFiniteSet(C), FS_Subset
<1> QED  BY ONLY <1>2, FS_CardinalityType

\* Threads that leave the test make no ticket's room smaller.
LEMMA LeaveRoom ==
    ASSUME NEW C, IsFiniteSet(C), NEW p \in C, NEW a, NEW b, NEW m, NEW n, NEW k \in Nat,
           Alike(a, b, C, p), Alike(m, n, C, p), \A t \in C : a[t] \in Nat /\ m[t] \in Nat,
           NEW done \in Nat, NEW limit \in Nat, NEW h \in Nat,
           RoomBelow(h, a, m, C, k, done, limit)
    PROVE  /\ RoomBelow(h, b, n, C \ {p}, k, done, limit)
           /\ a[p] < h => RoomBelow(h, b, n, C \ {p}, k + 1, done, limit)
<1>1. ASSUME NEW x \in Nat
      PROVE  /\ Cardinality(Below(a, C, x)) \in Nat
             /\ a[p] < x => Cardinality(Below(b, C \ {p}, x)) = Cardinality(Below(a, C, x)) - 1
             /\ ~(a[p] < x) => Cardinality(Below(b, C \ {p}, x)) = Cardinality(Below(a, C, x))
    <2>1. Below(b, C \ {p}, x) = Below(a, C, x) \ {p}  BY DEF Below, Alike
    <2>2. p \in Below(a, C, x) <=> a[p] < x  BY DEF Below
    <2>3. IsFiniteSet(Below(a, C, x)) /\ Cardinality(Below(a, C, x)) \in Nat
        BY BelowFinite
    <2>4. Cardinality(Below(a, C, x) \ {p}) =
              IF p \in Below(a, C, x) THEN Cardinality(Below(a, C, x)) - 1
                                      ELSE Cardinality(Below(a, C, x))
        BY ONLY <2>3, FS_RemoveElement
    <2> QED  BY <2>1, <2>2, <2>3, <2>4
<1>2. ASSUME NEW t \in C \ {p}, a[t] >= h
      PROVE  /\ b[t] = a[t] /\ n[t] = m[t] /\ a[t] \in Nat /\ m[t] \in Nat
             /\ done + k + Cardinality(Below(a, C, a[t])) <= a[t] - m[t]
             /\ Cardinality(Below(a, C, a[t])) \in Nat
             /\ a[p] < a[t] => Cardinality(Below(b, C \ {p}, a[t]))
                                   = Cardinality(Below(a, C, a[t])) - 1
             /\ ~(a[p] < a[t]) => Cardinality(Below(b, C \ {p}, a[t]))
                                      = Cardinality(Below(a, C, a[t]))
    BY <1>1, <1>2 DEF Alike, RoomBelow
<1>3. a[p] \in Nat /\ done + k + Cardinality(Below(a, C, h)) <= limit  BY DEF RoomBelow
<1>h. PICK x, y : x = Cardinality(Below(a, C, h)) /\ y = Cardinality(Below(b, C \ {p}, h))
    OBVIOUS
<1>k. /\ x \in Nat /\ done + k + x <= limit
      /\ a[p] < h => y = x - 1
      /\ ~(a[p] < h) => y = x
    BY <1>1, <1>3, <1>h
<1>4. RoomBelow(h, b, n, C \ {p}, k, done, limit)
    <2>1. done + k + Cardinality(Below(b, C \ {p}, h)) <= limit  BY <1>3, <1>h, <1>k
    <2>2. ASSUME NEW t \in C \ {p}, b[t] >= h
          PROVE  done + k + Cardinality(Below(b, C \ {p}, b[t])) <= b[t] - n[t]
        <3>1. b[t] = a[t]  BY DEF Alike
        <3> QED  BY <1>2, <1>3, <2>2, <3>1
    <2> QED  BY <2>1, <2>2 DEF RoomBelow
<1>5. ASSUME a[p] < h PROVE RoomBelow(h, b, n, C \ {p}, k + 1, done, limit)
    <2>1. done + (k + 1) + Cardinality(Below(b, C \ {p}, h)) <= limit
        BY <1>3, <1>5, <1>h, <1>k
    <2>2. ASSUME NEW t \in C \ {p}, b[t] >= h
          PROVE  done + (k + 1) + Cardinality(Below(b, C \ {p}, b[t])) <= b[t] - n[t]
        <3>1. b[t] = a[t] /\ a[t] \in Nat  BY DEF Alike
        <3>2. a[p] < a[t]  BY <1>3, <1>5, <2>2, <3>1
        <3> QED  BY <1>2, <1>3, <2>2, <3>1, <3>2
    <2> QED  BY <2>1, <2>2 DEF RoomBelow
<1> QED  BY <1>4, <1>5

\* A thread that passes the test with the highest ticket so far is the new h.
LEMMA HighestRoom ==
    ASSUME NEW C, IsFiniteSet(C), NEW p \in C, NEW a, NEW b, NEW m, NEW n, NEW k \in Nat,
           Alike(a, b, C, p), Alike(m, n, C, p), \A t \in C : a[t] \in Nat /\ m[t] \in Nat,
           Distinct(a, C), NEW done \in Nat, NEW limit \in Nat, NEW h \in Nat,
           RoomBelow(h, a, m, C, k, done, limit), a[p] >= h, a[p] - m[p] < limit
    PROVE  RoomBelow(a[p] + 1, b, n, C \ {p}, k + 1, done, limit)
<1>1. a[p] \in Nat /\ m[p] \in Nat
      /\ done + k + Cardinality(Below(a, C, a[p])) <= a[p] - m[p]
    BY DEF RoomBelow
<1>2. Below(b, C \ {p}, a[p] + 1) = Below(a, C, a[p])
    <2>1. ASSUME NEW t \in C \ {p} PROVE b[t] < a[p] + 1 <=> a[t] < a[p]
        BY <1>1 DEF Alike, Distinct
    <2>2. ~(a[p] < a[p])  BY <1>1
    <2> QED  BY <2>1, <2>2 DEF Below
<1>3. Cardinality(Below(a, C, a[p])) \in Nat  BY BelowFinite
<1>4. done + (k + 1) + Cardinality(Below(b, C \ {p}, a[p] + 1)) <= limit
    BY <1>1, <1>2, <1>3
<1>5. ASSUME NEW t \in C \ {p}, b[t] >= a[p] + 1
      PROVE  done + (k + 1) + Cardinality(Below(b, C \ {p}, b[t])) <= b[t] - n[t]
    <2>1. /\ b[t] = a[t] /\ n[t] = m[t] /\ a[t] \in Nat /\ m[t] \in Nat
          /\ a[t] >= h /\ a[p] < a[t]
        BY <1>1, <1>5 DEF Alike
    <2>2. done + k + Cardinality(Below(a, C, a[t])) <= a[t] - m[t]  BY <2>1 DEF RoomBelow
    <2>3. Below(b, C \ {p}, a[t]) = Below(a, C, a[t]) \ {p} /\ p \in Below(a, C, a[t])
        BY <2>1 DEF Below, Alike
    <2>4. IsFiniteSet(Below(a, C, a[t])) /\ Cardinality(Below(a, C, a[t])) \in Nat
        BY BelowFinite
    <2>5. Cardinality(Below(a, C, a[t]) \ {p}) = Cardinality(Below(a, C, a[t])) - 1
        BY ONLY <2>3, <2>4, FS_RemoveElement
    <2> QED  BY <2>1, <2>2, <2>3, <2>4, <2>5
<1> QED  BY <1>4, <1>5 DEF RoomBelow

\* A thread moves between two sets of labels.
LEMMA Moved ==
    ASSUME NEW T, NEW f, NEW g, NEW t \in T, Alike(f, g, T, t), NEW labels
    PROVE  At(g, T, labels) = IF g[t] \in labels THEN At(f, T, labels) \cup {t}
                                                 ELSE At(f, T, labels) \ {t}
BY DEF At, Alike

\* A set of threads by label is finite.
LEMMA AtFinite ==
    ASSUME NEW T, IsFiniteSet(T), NEW f, NEW labels
    PROVE  IsFiniteSet(At(f, T, labels)) /\ Cardinality(At(f, T, labels)) \in Nat
<1>1. At(f, T, labels) \subseteq T  BY DEF At
<1>2. IsFiniteSet(At(f, T, labels))  BY ONLY <1>1, IsFiniteSet(T), FS_Subset
<1> QED  BY ONLY <1>2, FS_CardinalityType

\* The same, counted.
LEMMA MovedCount ==
    ASSUME NEW T, IsFiniteSet(T), NEW f, NEW g, NEW t \in T, Alike(f, g, T, t), NEW labels
    PROVE  /\ Cardinality(At(f, T, labels)) \in Nat
           /\ Cardinality(At(g, T, labels)) =
                Cardinality(At(f, T, labels))
                  + (IF g[t] \in labels THEN 1 ELSE 0) - (IF f[t] \in labels THEN 1 ELSE 0)
<1>1. PICK S : S = At(f, T, labels)  OBVIOUS
<1>2. IsFiniteSet(S) /\ Cardinality(S) \in Nat  BY <1>1, AtFinite
<1>3. Cardinality(S \cup {t}) = IF t \in S THEN Cardinality(S) ELSE Cardinality(S) + 1
    BY ONLY <1>2, FS_AddElement
<1>4. Cardinality(S \ {t}) = IF t \in S THEN Cardinality(S) - 1 ELSE Cardinality(S)
    BY ONLY <1>2, FS_RemoveElement
<1>5. t \in S <=> f[t] \in labels  BY <1>1 DEF At
<1>6. At(g, T, labels) = IF g[t] \in labels THEN S \cup {t} ELSE S \ {t}
    BY <1>1, Moved
<1>7. CASE g[t] \in labels
    <2>1. Cardinality(At(g, T, labels)) = Cardinality(S \cup {t})  BY <1>6, <1>7
    <2> QED  BY <1>1, <1>2, <1>3, <1>5, <1>7, <2>1
<1>8. CASE g[t] \notin labels
    <2>1. Cardinality(At(g, T, labels)) = Cardinality(S \ {t})  BY <1>6, <1>8
    <2> QED  BY <1>1, <1>2, <1>4, <1>5, <1>8, <2>1
<1> QED  BY <1>7, <1>8

\* No label is of two kinds.
LEMMA Labels ==
    /\ Open = Testing \cup Passed \cup Refused
    /\ \A l \in Testing : l \notin Passed \cup Refused \cup Loaded
    /\ \A l \in Passed : l \notin Testing \cup Refused \cup Loaded
    /\ \A l \in Refused : l \notin Testing \cup Passed \cup Loaded
    /\ \A l \in Loaded : l \notin Open
BY DEF Open, Testing, Passed, Refused, Loaded

\* Steps that draw, test, claim and return no ticket.
LEMMA KeepSide ==
    ASSUME NEW T, IsFiniteSet(T), NEW f, NEW g, NEW a, NEW b, NEW m, NEW n,
           NEW drawn, NEW done, NEW gone, NEW limit, NEW limit2 \in Nat,
           Side(f, a, m, T, drawn, done, gone, limit), limit <= limit2,
           At(g, T, Open) = At(f, T, Open), At(g, T, Passed) = At(f, T, Passed),
           At(g, T, Testing) = At(f, T, Testing),
           \A t \in T : b[t] \in Nat /\ n[t] \in Nat,
           \A t \in At(f, T, Testing) : b[t] = a[t] /\ n[t] = m[t],
           \A t \in At(g, T, Loaded) : n[t] <= gone
    PROVE  Side(g, b, n, T, drawn, done, gone, limit2)
<1>1. PICK C : C = At(f, T, Testing)  OBVIOUS
<1>2. PICK k : k = Cardinality(At(f, T, Passed))  OBVIOUS
<1>3. PICK h \in 0 .. drawn : RoomBelow(h, a, m, C, k, done, limit)
    BY <1>1, <1>2 DEF Side, Room
<1>4. \A x : Below(b, C, x) = Below(a, C, x)  BY <1>1 DEF Below
<1>5. RoomBelow(h, b, n, C, k, done, limit2)
    <2>1. done + k + Cardinality(Below(b, C, h)) <= limit2
        <3>1. PICK x : x = done + k + Cardinality(Below(a, C, h))  OBVIOUS
        <3>2. Below(b, C, h) = Below(a, C, h)  BY <1>4
        <3>3. x <= limit  BY <1>3, <3>1 DEF RoomBelow
        <3>4. PICK y : y = done + k + Cardinality(Below(b, C, h))  OBVIOUS
        <3>5. y = x  BY <3>1, <3>2, <3>4
        <3>6. x \in Nat
            <4>1. IsFiniteSet(C) /\ k \in Nat  BY <1>1, <1>2, AtFinite
            <4>2. Cardinality(Below(a, C, h)) \in Nat  BY <4>1, BelowFinite
            <4> QED  BY <3>1, <4>1, <4>2 DEF Side
        <3> QED  BY <3>3, <3>4, <3>5, <3>6 DEF Side
    <2> QED  BY <1>1, <1>3, <1>4, <2>1 DEF RoomBelow
<1> QED  BY <1>1, <1>2, <1>3, <1>5 DEF Side, Room, Distinct

\* Drawing a ticket: the number of claims is still known from the missed
\* counter, which was loaded before.
LEMMA DrawSide ==
    ASSUME NEW T, IsFiniteSet(T), NEW f, NEW g, NEW a, NEW b, NEW m, NEW t \in T,
           NEW drawn, NEW done, NEW gone, NEW limit,
           Side(f, a, m, T, drawn, done, gone, limit),
           f[t] \in Loaded, g[t] \in Testing, b[t] = drawn,
           Alike(f, g, T, t), Alike(a, b, T, t)
    PROVE  Side(g, b, m, T, drawn + 1, done, gone, limit)
<1>1. PICK C : C = At(f, T, Testing)  OBVIOUS
<1>2. PICK k : k = Cardinality(At(f, T, Passed))  OBVIOUS
<1>3. PICK h \in 0 .. drawn : RoomBelow(h, a, m, C, k, done, limit)
    BY <1>1, <1>2 DEF Side, Room
<1>4. /\ drawn \in Nat /\ done \in Nat /\ gone \in Nat /\ limit \in Nat
      /\ \A u \in T : a[u] \in Nat /\ m[u] \in Nat
    BY DEF Side
<1>5. At(g, T, Testing) = C \cup {t} /\ t \notin C /\ C \subseteq T
    BY <1>1, Moved, Labels DEF At
<1>6. Cardinality(At(g, T, Passed)) = k /\ k \in Nat
    BY <1>2, MovedCount, Labels
<1>7. Cardinality(At(g, T, Open)) = Cardinality(At(f, T, Open)) + 1
      /\ Cardinality(At(f, T, Open)) \in Nat
    <2>1. f[t] \notin Open /\ g[t] \in Open  BY Labels
    <2> QED  BY <2>1, MovedCount
<1>8. \A u \in C : a[u] < drawn /\ a[u] \in Nat /\ b[u] = a[u]
    BY <1>1, <1>4, <1>5 DEF Side, Alike
<1>9. IsFiniteSet(C) /\ Cardinality(C) \in Nat  BY <1>1, AtFinite
<1>10. Cardinality(C) + k <= Cardinality(At(f, T, Open))
    <2>1. PICK D : D = At(f, T, Passed)  OBVIOUS
    <2>2. PICK S : S = At(f, T, Open)  OBVIOUS
    <2>3. IsFiniteSet(S) /\ IsFiniteSet(D)  BY <2>1, <2>2, AtFinite
    <2>4. C \cup D \subseteq S /\ C \cap D = {}
        BY <1>1, <2>1, <2>2, Labels DEF At
    <2>5. Cardinality(C \cup D) = Cardinality(C) + Cardinality(D) - Cardinality(C \cap D)
        BY ONLY <1>9, <2>3, FS_Union
    <2>6. Cardinality(C \cap D) = 0  BY <2>4, FS_EmptySet
    <2>7. Cardinality(C \cup D) <= Cardinality(S)  BY ONLY <2>3, <2>4, FS_Subset
    <2>8. Cardinality(D) \in Nat /\ D = At(f, T, Passed)  BY <2>1, AtFinite
    <2> QED  BY <1>2, <1>9, <2>1, <2>2, <2>5, <2>6, <2>7, <2>8
<1>11. m[t] <= gone /\ m[t] \in Nat  BY <1>4 DEF Side, At
<1>12. \A x \in Nat : x <= drawn => Below(b, C \cup {t}, x) = Below(a, C, x)
    <2>1. ASSUME NEW x \in Nat, x <= drawn PROVE ~(b[t] < x)  BY <1>4, <2>1
    <2> QED  BY <1>8, <2>1 DEF Below
<1>13. Below(b, C \cup {t}, drawn) = C
    BY <1>4, <1>8 DEF Below
<1>14. RoomBelow(h, b, m, C \cup {t}, k, done, limit)
    <2>1. done + k + Cardinality(Below(b, C \cup {t}, h)) <= limit
        BY <1>3, <1>4, <1>12 DEF RoomBelow
    <2>2. ASSUME NEW u \in C, b[u] >= h
          PROVE  done + k + Cardinality(Below(b, C \cup {t}, b[u])) <= b[u] - m[u]
        <3>1. b[u] = a[u] /\ a[u] \in Nat /\ a[u] <= drawn /\ a[u] >= h
            BY <1>4, <1>8, <2>2
        <3>2. Below(b, C \cup {t}, b[u]) = Below(a, C, a[u])  BY <1>12, <3>1
        <3>3. done + k + Cardinality(Below(a, C, a[u])) <= a[u] - m[u]
            BY <1>3, <3>1 DEF RoomBelow
        <3> QED  BY <3>1, <3>2, <3>3
    <2>3. done + k + Cardinality(Below(b, C \cup {t}, b[t])) <= b[t] - m[t]
        <3>1. drawn = done + gone + Cardinality(At(f, T, Open))  BY DEF Side
        <3> QED  BY <1>4, <1>6, <1>7, <1>9, <1>10, <1>11, <1>13, <3>1
    <2> QED  BY <2>1, <2>2, <2>3 DEF RoomBelow
<1>15. Room(b, m, At(g, T, Testing), Cardinality(At(g, T, Passed)), drawn + 1, done, limit)
    <2>1. h \in 0 .. drawn + 1  BY <1>4
    <2> QED  BY <1>5, <1>6, <1>14, <2>1 DEF Room
<1>16. \A u \in At(g, T, Loaded) : m[u] <= gone
    <2>1. At(g, T, Loaded) \subseteq At(f, T, Loaded)  BY Moved, Labels
    <2> QED  BY <2>1 DEF Side
<1>17. Distinct(b, C \cup {t})
    BY <1>1, <1>4, <1>8 DEF Side, Distinct
<1>18. \A u \in C \cup {t} : b[u] < drawn + 1  BY <1>4, <1>8
<1>19. \A u \in T : b[u] \in Nat  BY <1>4 DEF Alike
<1>20. drawn + 1 = done + gone + Cardinality(At(g, T, Open))
    BY <1>4, <1>7 DEF Side
<1> QED  BY <1>4, <1>5, <1>15, <1>16, <1>17, <1>18, <1>19, <1>20 DEF Side

\* The second test. A ticket that passes it becomes a claim, and the room it
\* had is the one its test has shown.
LEMMA TestSide ==
    ASSUME NEW T, IsFiniteSet(T), NEW f, NEW g, NEW a, NEW b, NEW m, NEW n, NEW t \in T,
           NEW drawn, NEW done, NEW gone, NEW limit,
           Side(f, a, m, T, drawn, done, gone, limit),
           f[t] \in Testing, g[t] \in Passed \cup Refused,
           g[t] \in Passed => a[t] - m[t] < limit,
           Alike(f, g, T, t), Alike(a, b, T, t), Alike(m, n, T, t),
           b[t] \in Nat, n[t] \in Nat
    PROVE  Side(g, b, n, T, drawn, done, gone, limit)
<1>1. PICK C : C = At(f, T, Testing)  OBVIOUS
<1>2. PICK k : k = Cardinality(At(f, T, Passed))  OBVIOUS
<1>3. PICK h \in 0 .. drawn : RoomBelow(h, a, m, C, k, done, limit)
    BY <1>1, <1>2 DEF Side, Room
<1>4. /\ drawn \in Nat /\ done \in Nat /\ gone \in Nat /\ limit \in Nat /\ h \in Nat
      /\ \A u \in T : a[u] \in Nat /\ m[u] \in Nat
    BY DEF Side
<1>5. At(g, T, Testing) = C \ {t} /\ t \in C /\ C \subseteq T
    BY <1>1, Moved, Labels DEF At
<1>6. k \in Nat /\ Cardinality(At(g, T, Passed)) = IF g[t] \in Passed THEN k + 1 ELSE k
    <2>1. f[t] \notin Passed  BY Labels
    <2> QED  BY <1>2, <2>1, MovedCount
<1>7. At(g, T, Open) = At(f, T, Open)
    <2>1. f[t] \in Open /\ g[t] \in Open  BY Labels
    <2> QED  BY <2>1, Moved DEF At
<1>8. IsFiniteSet(C) /\ Alike(a, b, C, t) /\ Alike(m, n, C, t) /\ Distinct(a, C)
      /\ \A u \in C : a[u] \in Nat /\ m[u] \in Nat /\ a[u] < drawn
    BY <1>1, <1>4, <1>5, AtFinite DEF Alike, Side
<1>9. Room(b, n, C \ {t}, Cardinality(At(g, T, Passed)), drawn, done, limit)
    <2>1. CASE g[t] \notin Passed
        <3>1. RoomBelow(h, b, n, C \ {t}, k, done, limit)
            BY <1>3, <1>4, <1>5, <1>6, <1>8, LeaveRoom
        <3> QED  BY <1>6, <2>1, <3>1 DEF Room
    <2>2. CASE g[t] \in Passed /\ a[t] < h
        <3>1. RoomBelow(h, b, n, C \ {t}, k + 1, done, limit)
            BY <1>3, <1>4, <1>5, <1>6, <1>8, <2>2, LeaveRoom
        <3> QED  BY <1>6, <2>2, <3>1 DEF Room
    <2>3. CASE g[t] \in Passed /\ a[t] >= h
        <3>1. RoomBelow(a[t] + 1, b, n, C \ {t}, k + 1, done, limit)
            BY <1>3, <1>4, <1>5, <1>6, <1>8, <2>3, HighestRoom
        <3>2. a[t] + 1 \in 0 .. drawn  BY <1>4, <1>5, <1>8
        <3> QED  BY <1>6, <2>3, <3>1, <3>2 DEF Room
    <2> QED  BY <1>4, <2>1, <2>2, <2>3
<1>10. \A u \in T : b[u] \in Nat /\ n[u] \in Nat  BY <1>4 DEF Alike
<1>11. \A u \in At(g, T, Loaded) : n[u] <= gone
    <2>1. ASSUME NEW u \in At(g, T, Loaded) PROVE u \in At(f, T, Loaded) /\ u # t /\ u \in T
        BY Moved, Labels DEF At
    <2> QED  BY <2>1 DEF Side, Alike
<1>12. Distinct(b, C \ {t}) /\ \A u \in C \ {t} : b[u] < drawn
    BY <1>8 DEF Distinct, Alike
<1> QED  BY <1>4, <1>5, <1>7, <1>9, <1>10, <1>11, <1>12 DEF Side

\* A refused ticket is given back.
LEMMA MissSide ==
    ASSUME NEW T, IsFiniteSet(T), NEW f, NEW g, NEW a, NEW m, NEW t \in T,
           NEW drawn, NEW done, NEW gone, NEW limit,
           Side(f, a, m, T, drawn, done, gone, limit),
           f[t] \in Refused, g[t] \notin Open \cup Loaded, Alike(f, g, T, t)
    PROVE  Side(g, a, m, T, drawn, done, gone + 1, limit)
<1>1. At(g, T, Testing) = At(f, T, Testing) /\ At(g, T, Passed) = At(f, T, Passed)
    <2>1. f[t] \notin Testing \cup Passed /\ g[t] \notin Testing \cup Passed  BY Labels
    <2> QED  BY <2>1, Moved DEF At
<1>2. /\ Cardinality(At(f, T, Open)) \in Nat
      /\ Cardinality(At(g, T, Open)) = Cardinality(At(f, T, Open)) - 1
    <2>1. f[t] \in Open /\ g[t] \notin Open  BY Labels
    <2> QED  BY <2>1, MovedCount
<1>3. \A u \in At(g, T, Loaded) : m[u] <= gone + 1
    <2>1. ASSUME NEW u \in At(g, T, Loaded) PROVE u \in At(f, T, Loaded) /\ u \in T
        BY Moved, Labels DEF At
    <2> QED  BY <2>1 DEF Side
<1>4. drawn = done + (gone + 1) + Cardinality(At(g, T, Open)) /\ gone + 1 \in Nat
    BY <1>2 DEF Side
<1> QED  BY <1>1, <1>3, <1>4 DEF Side

\* A claim is made.
LEMMA ClaimSide ==
    ASSUME NEW T, IsFiniteSet(T), NEW f, NEW g, NEW a, NEW m, NEW t \in T,
           NEW drawn, NEW done, NEW gone, NEW limit,
           Side(f, a, m, T, drawn, done, gone, limit),
           f[t] \in Passed, g[t] \notin Open \cup Loaded, Alike(f, g, T, t)
    PROVE  /\ Side(g, a, m, T, drawn, done + 1, gone, limit)
           /\ done < limit
<1>1. PICK C : C = At(f, T, Testing)  OBVIOUS
<1>2. PICK k : k = Cardinality(At(f, T, Passed))  OBVIOUS
<1>3. PICK h \in 0 .. drawn : RoomBelow(h, a, m, C, k, done, limit)
    BY <1>1, <1>2 DEF Side, Room
<1>4. /\ drawn \in Nat /\ done \in Nat /\ gone \in Nat /\ limit \in Nat
      /\ \A u \in T : a[u] \in Nat /\ m[u] \in Nat
    BY DEF Side
<1>5. At(g, T, Testing) = C
    <2>1. f[t] \notin Testing /\ g[t] \notin Testing  BY Labels
    <2> QED  BY <1>1, <2>1, Moved DEF At
<1>6. k \in Nat /\ k - 1 \in Nat /\ Cardinality(At(g, T, Passed)) = k - 1
    <2>1. g[t] \notin Passed  BY Labels
    <2>2. k \in Nat /\ Cardinality(At(g, T, Passed)) = k - 1
        BY <1>2, <2>1, MovedCount
    <2>3. Cardinality(At(g, T, Passed)) \in Nat  BY AtFinite
    <2> QED  BY <2>2, <2>3
<1>7. /\ Cardinality(At(f, T, Open)) \in Nat
      /\ Cardinality(At(g, T, Open)) = Cardinality(At(f, T, Open)) - 1
    <2>1. f[t] \in Open /\ g[t] \notin Open  BY Labels
    <2> QED  BY <2>1, MovedCount
<1>8. IsFiniteSet(C)  BY <1>1, AtFinite
<1>9. RoomBelow(h, a, m, C, k - 1, done + 1, limit) /\ done < limit
    <2>1. Cardinality(Below(a, C, h)) \in Nat  BY <1>8, BelowFinite
    <2>2. \A x : (done + 1) + (k - 1) + x = done + k + x \/ x \notin Nat  BY <1>4, <1>6
    <2>3. ASSUME NEW u \in C PROVE Cardinality(Below(a, C, a[u])) \in Nat
        BY <1>8, BelowFinite
    <2>4. done < limit  BY <1>3, <1>4, <1>6, <2>1 DEF RoomBelow
    <2> QED  BY <1>3, <2>1, <2>2, <2>3, <2>4 DEF RoomBelow
<1>10. \A u \in At(g, T, Loaded) : m[u] <= gone
    <2>1. ASSUME NEW u \in At(g, T, Loaded) PROVE u \in At(f, T, Loaded)
        BY Moved, Labels DEF At
    <2> QED  BY <2>1 DEF Side
<1>11. drawn = (done + 1) + gone + Cardinality(At(g, T, Open)) /\ done + 1 \in Nat
    BY <1>4, <1>7 DEF Side
<1> QED  BY <1>1, <1>3, <1>4, <1>5, <1>6, <1>9, <1>10, <1>11 DEF Side, Room

\* What one side has claimed keeps to its limit.
LEMMA SideBound ==
    ASSUME NEW T, IsFiniteSet(T), NEW f, NEW a, NEW m,
           NEW drawn, NEW done, NEW gone, NEW limit,
           Side(f, a, m, T, drawn, done, gone, limit)
    PROVE  /\ done <= limit
           /\ drawn = done + gone + Cardinality(At(f, T, Open))
<1>1. PICK C : C = At(f, T, Testing)  OBVIOUS
<1>2. PICK k : k = Cardinality(At(f, T, Passed))  OBVIOUS
<1>3. PICK h \in 0 .. drawn : RoomBelow(h, a, m, C, k, done, limit)
    BY <1>1, <1>2 DEF Side, Room
<1>4. IsFiniteSet(C) /\ k \in Nat  BY <1>1, <1>2, AtFinite
<1>5. Cardinality(Below(a, C, h)) \in Nat  BY <1>4, BelowFinite
<1> QED  BY <1>3, <1>4, <1>5 DEF Side, RoomBelow

\* Both sides of the ring; each is the other one's limit.
WriteSide == Side(pc, ahead, missed, Producers, write_ahead, write, write_missed, read + Capacity)
ReadSide == Side(pc, ahead, missed, Consumers, read_ahead, read, read_missed, write)
RoomInv == WriteSide /\ ReadSide

\* No thread of T draws, tests, claims or returns a ticket.
QuietIn(T) ==
    /\ \A t \in T : \/ pc'[t] = pc[t]
                    \/ pc[t] \notin Open \cup Loaded /\ pc'[t] \notin Open \cup Loaded
    /\ \A t \in T : ahead'[t] = ahead[t] /\ missed'[t] = missed[t]

\* Such steps keep the invariant of a side, also while its limit grows.
LEMMA QuietSide ==
    ASSUME NEW T, IsFiniteSet(T), NEW drawn, NEW done, NEW gone, NEW limit, NEW limit2 \in Nat,
           Side(pc, ahead, missed, T, drawn, done, gone, limit), limit <= limit2, QuietIn(T)
    PROVE  Side(pc', ahead', missed', T, drawn, done, gone, limit2)
<1>1. ASSUME NEW t \in T, NEW labels, \A l \in labels : l \in Open \cup Loaded
      PROVE  pc'[t] \in labels <=> pc[t] \in labels
    BY <1>1 DEF QuietIn
<1>2. /\ At(pc', T, Open) = At(pc, T, Open) /\ At(pc', T, Passed) = At(pc, T, Passed)
      /\ At(pc', T, Testing) = At(pc, T, Testing) /\ At(pc', T, Loaded) = At(pc, T, Loaded)
    <2>1. ASSUME NEW labels, \A l \in labels : l \in Open \cup Loaded
          PROVE  At(pc', T, labels) = At(pc, T, labels)
        BY <1>1, <2>1 DEF At
    <2> QED  BY <2>1, Labels
<1>3. \A t \in T : ahead'[t] \in Nat /\ missed'[t] \in Nat  BY DEF QuietIn, Side
<1>4. \A t \in At(pc, T, Testing) : ahead'[t] = ahead[t] /\ missed'[t] = missed[t]
    BY DEF QuietIn, At
<1>5. \A t \in At(pc', T, Loaded) : missed'[t] <= gone
    BY <1>2 DEF QuietIn, Side, At
<1> QED  BY <1>2, <1>3, <1>4, <1>5, KeepSide

\* The labels of a step that is not about tickets.
LEMMA QuietMove ==
    ASSUME NEW t \in Threads, TypeOK, NEW from, NEW to, NEW T, T \subseteq Threads,
           Go(t, from, to), from \notin Open \cup Loaded, to \notin Open \cup Loaded,
           UNCHANGED <<ahead, missed>>
    PROVE  QuietIn(T)
BY DEF QuietIn, Go, TypeOK, TypePC

\* FUTEX_WAKE moves sleepers only.
LEMMA QuietWake ==
    ASSUME NEW t \in Threads, TypeOK, NEW T, T \subseteq Threads, NEW from,
           WakeSlot(t, from), from \notin Open \cup Loaded
    PROVE  QuietIn(T)
<1>1. UNCHANGED <<ahead, missed>> /\ pc[t] = from  BY DEF WakeSlot
<1>2. \A s \in Threads :
         \/ pc'[s] = pc[s]
         \/ s = t /\ pc'[s] = "idle"
         \/ pc[s] \in {"e_sleep", "d_sleep"} /\ pc'[s] \in {"e_wait", "d_wait"}
    BY DEF WakeSlot, SleepsOn, Resumed
<1>3. \A l \in {"idle", "e_sleep", "d_sleep", "e_wait", "d_wait"} : l \notin Open \cup Loaded
    BY DEF Open, Testing, Passed, Refused, Loaded
<1> QED  BY <1>1, <1>2, <1>3 DEF QuietIn

\* The steps of try_enqueue that leave the tickets alone.
LEMMA QuietEnqueue ==
    ASSUME TypeOK, NEW p \in Producers,
           \/ E_LoadRead(p) \/ E_LoadFlag(p) \/ E_FutexWait(p) \/ E_Fill(p)
           \/ E_Publish(p) \/ E_Wake(p)
    PROVE  QuietIn(Producers) /\ QuietIn(Consumers) /\ UNCHANGED counters
<1> USE DEF Open, Testing, Passed, Refused, Loaded
<1>0. p \in Threads /\ Producers \subseteq Threads /\ Consumers \subseteq Threads
    BY DEF Threads
<1>1. CASE E_LoadRead(p)
    <2>1. Go(p, "idle", "e_missed") /\ UNCHANGED <<ahead, missed, counters>>
        BY <1>1 DEF E_LoadRead, Call
    <2> QED  BY <1>0, <2>1, QuietMove
<1>2. CASE E_LoadFlag(p)
    <2>1. PICK to \in {"e_fill", "e_futex"} :
             Go(p, "e_wait", to) /\ UNCHANGED <<ahead, missed, counters>>
        BY <1>2 DEF E_LoadFlag
    <2> QED  BY <1>0, <2>1, QuietMove
<1>3. CASE E_FutexWait(p)
    <2>1. PICK to \in {"e_sleep", "e_wait"} :
             Go(p, "e_futex", to) /\ UNCHANGED <<ahead, missed, counters>>
        BY <1>3 DEF E_FutexWait, FutexWait
    <2> QED  BY <1>0, <2>1, QuietMove
<1>4. CASE E_Fill(p)
    <2>1. Go(p, "e_fill", "e_publish") /\ UNCHANGED <<ahead, missed, counters>>
        BY <1>4 DEF E_Fill, locals
    <2> QED  BY <1>0, <2>1, QuietMove
<1>5. CASE E_Publish(p)
    <2>1. Go(p, "e_publish", "e_wake") /\ UNCHANGED <<ahead, missed, counters>>
        BY <1>5 DEF E_Publish, locals
    <2> QED  BY <1>0, <2>1, QuietMove
<1>6. CASE E_Wake(p)
    <2>1. WakeSlot(p, "e_wake") /\ UNCHANGED counters  BY <1>6 DEF E_Wake, WakeSlot
    <2> QED  BY <1>0, <2>1, QuietWake
<1> QED  BY <1>1, <1>2, <1>3, <1>4, <1>5, <1>6

\* The steps of try_dequeue that leave the tickets alone.
LEMMA QuietDequeue ==
    ASSUME TypeOK, NEW c \in Consumers,
           \/ D_LoadWrite(c) \/ D_LoadFlag(c) \/ D_FutexWait(c) \/ D_Take(c)
           \/ D_Clear(c) \/ D_Release(c) \/ D_Wake(c)
    PROVE  QuietIn(Producers) /\ QuietIn(Consumers) /\ UNCHANGED counters
<1> USE DEF Open, Testing, Passed, Refused, Loaded
<1>0. c \in Threads /\ Producers \subseteq Threads /\ Consumers \subseteq Threads
    BY DEF Threads
<1>1. CASE D_LoadWrite(c)
    <2>1. Go(c, "idle", "d_missed") /\ UNCHANGED <<ahead, missed, counters>>
        BY <1>1 DEF D_LoadWrite, Call
    <2> QED  BY <1>0, <2>1, QuietMove
<1>2. CASE D_LoadFlag(c)
    <2>1. PICK to \in {"d_take", "d_futex"} :
             Go(c, "d_wait", to) /\ UNCHANGED <<ahead, missed, counters>>
        BY <1>2 DEF D_LoadFlag
    <2> QED  BY <1>0, <2>1, QuietMove
<1>3. CASE D_FutexWait(c)
    <2>1. PICK to \in {"d_sleep", "d_wait"} :
             Go(c, "d_futex", to) /\ UNCHANGED <<ahead, missed, counters>>
        BY <1>3 DEF D_FutexWait, FutexWait
    <2> QED  BY <1>0, <2>1, QuietMove
<1>4. CASE D_Take(c)
    <2>1. PICK to \in {"d_failed", "d_clear"} :
             Go(c, "d_take", to) /\ UNCHANGED <<ahead, missed, counters>>
        BY <1>4 DEF D_Take
    <2> QED  BY <1>0, <2>1, QuietMove
<1>5. CASE D_Clear(c)
    <2>1. Go(c, "d_clear", "d_release") /\ UNCHANGED <<ahead, missed, counters>>
        BY <1>5 DEF D_Clear, locals
    <2> QED  BY <1>0, <2>1, QuietMove
<1>6. CASE D_Release(c)
    <2>1. Go(c, "d_release", "d_wake") /\ UNCHANGED <<ahead, missed, counters>>
        BY <1>6 DEF D_Release, locals
    <2> QED  BY <1>0, <2>1, QuietMove
<1>7. CASE D_Wake(c)
    <2>1. WakeSlot(c, "d_wake") /\ UNCHANGED counters  BY <1>7 DEF D_Wake, WakeSlot
    <2> QED  BY <1>0, <2>1, QuietWake
<1> QED  BY <1>1, <1>2, <1>3, <1>4, <1>5, <1>6, <1>7

\* A step of a producer, seen from either side.
LEMMA RoomEnqueue ==
    ASSUME IsFiniteSet(Producers), IsFiniteSet(Consumers), TypeOK, TypeOK', RoomInv,
           NEW p \in Producers, try_enqueue(p)
    PROVE  RoomInv'
<1>0. p \in Threads /\ p \notin Consumers /\ Capacity \in Nat
    BY ThreadAssumption, CapacityAssumption DEF Threads
<1>1. /\ write \in Nat /\ read \in Nat /\ write' \in Nat /\ read' \in Nat
      /\ read + Capacity \in Nat /\ write_missed \in Nat /\ write_ahead \in Nat
      /\ \A t \in Threads : /\ ahead[t] \in Nat /\ missed[t] \in Nat
                            /\ ahead'[t] \in Nat /\ missed'[t] \in Nat
    BY <1>0 DEF TypeOK, TypeShared, TypeLocals
<1>2. \A t \in Producers : t \in Threads  BY DEF Threads
<1>3. WriteSide /\ ReadSide  BY DEF RoomInv
<1>4. ASSUME NEW from, NEW to, Go(p, from, to)
      PROVE  pc[p] = from /\ pc'[p] = to /\ Alike(pc, pc', Producers, p)
             /\ (\A t \in Consumers : pc'[t] = pc[t])
    BY <1>0, <1>4 DEF Go, Alike, TypeOK, TypePC, Threads
<1>5. ASSUME \A t \in Consumers : pc'[t] = pc[t] /\ ahead'[t] = ahead[t] /\ missed'[t] = missed[t],
             UNCHANGED <<read, read_missed, read_ahead>>, write <= write'
      PROVE  ReadSide'
    <2>1. QuietIn(Consumers)  BY <1>5 DEF QuietIn
    <2> QED  BY <1>1, <1>3, <1>5, <2>1, QuietSide DEF ReadSide
<1> USE DEF Open, Testing, Passed, Refused, Loaded
<1>6. CASE E_LoadRead(p) \/ E_LoadFlag(p) \/ E_FutexWait(p) \/ E_Fill(p)
           \/ E_Publish(p) \/ E_Wake(p)
    <2>1. QuietIn(Producers) /\ QuietIn(Consumers) /\ UNCHANGED counters
        BY <1>6, QuietEnqueue
    <2>2. WriteSide'  BY <1>1, <1>3, <2>1, QuietSide DEF WriteSide, counters
    <2>3. ReadSide'  BY <1>1, <1>3, <2>1, QuietSide DEF ReadSide, counters
    <2> QED  BY <2>2, <2>3 DEF RoomInv
<1>7. CASE E_LoadMissed(p)
    <2>1. /\ Go(p, "e_missed", "e_ahead") /\ UNCHANGED <<counters, ahead>>
          /\ missed'[p] = write_missed /\ \A t \in Threads : t # p => missed'[t] = missed[t]
        BY <1>0, <1>7 DEF E_LoadMissed, TypeOK, TypeLocals
    <2>2. ReadSide'  BY <1>0, <1>1, <1>4, <1>5, <2>1 DEF counters, Threads
    <2>3. /\ At(pc', Producers, Open) = At(pc, Producers, Open)
          /\ At(pc', Producers, Passed) = At(pc, Producers, Passed)
          /\ At(pc', Producers, Testing) = At(pc, Producers, Testing)
          /\ p \notin At(pc, Producers, Testing)
          /\ At(pc', Producers, Loaded) = At(pc, Producers, Loaded) \cup {p}
        BY <1>4, <2>1 DEF At, Alike
    <2>4. \A t \in At(pc', Producers, Loaded) : missed'[t] <= write_missed
        <3>1. \A t \in At(pc, Producers, Loaded) : missed[t] <= write_missed /\ t \in Threads
            BY <1>2, <1>3 DEF WriteSide, Side, At
        <3> QED  BY <1>1, <2>1, <2>3, <3>1
    <2>5. \A t \in At(pc, Producers, Testing) : ahead'[t] = ahead[t] /\ missed'[t] = missed[t]
        BY <1>2, <2>1, <2>3 DEF At
    <2>6. WriteSide'
        <3>1. UNCHANGED <<read, write_ahead, write, write_missed>>  BY <2>1 DEF counters
        <3> QED  BY <1>1, <1>2, <1>3, <2>3, <2>4, <2>5, <3>1, KeepSide DEF WriteSide
    <2> QED  BY <2>2, <2>6 DEF RoomInv
<1>8. CASE E_FirstTest(p)
    <2>1. PICK to \in {"idle", "e_ticket"} :
             /\ Go(p, "e_ahead", to) /\ UNCHANGED <<counters, ahead>>
             /\ to = "e_ticket" => missed'[p] = missed[p]
             /\ \A t \in Threads : t # p => missed'[t] = missed[t]
        BY <1>0, <1>8 DEF E_FirstTest, TypeOK, TypeLocals
    <2>2. ReadSide'  BY <1>0, <1>1, <1>4, <1>5, <2>1 DEF counters, Threads
    <2>3. /\ At(pc', Producers, Open) = At(pc, Producers, Open)
          /\ At(pc', Producers, Passed) = At(pc, Producers, Passed)
          /\ At(pc', Producers, Testing) = At(pc, Producers, Testing)
          /\ p \notin At(pc, Producers, Testing)
          /\ At(pc', Producers, Loaded) \subseteq At(pc, Producers, Loaded)
          /\ to # "e_ticket" => p \notin At(pc', Producers, Loaded)
        BY <1>4, <2>1 DEF At, Alike
    <2>4. \A t \in At(pc', Producers, Loaded) : missed'[t] <= write_missed
        <3>1. \A t \in At(pc, Producers, Loaded) : missed[t] <= write_missed /\ t \in Threads
            BY <1>2, <1>3 DEF WriteSide, Side, At
        <3> QED  BY <1>1, <2>1, <2>3, <3>1
    <2>5. \A t \in At(pc, Producers, Testing) : ahead'[t] = ahead[t] /\ missed'[t] = missed[t]
        BY <1>2, <2>1, <2>3 DEF At
    <2>6. WriteSide'
        <3>1. UNCHANGED <<read, write_ahead, write, write_missed>>  BY <2>1 DEF counters
        <3> QED  BY <1>1, <1>2, <1>3, <2>3, <2>4, <2>5, <3>1, KeepSide DEF WriteSide
    <2> QED  BY <2>2, <2>6 DEF RoomInv
<1>9. CASE E_Ahead(p)
    <2>1. /\ Go(p, "e_ticket", "e_check") /\ missed' = missed /\ write_ahead' = write_ahead + 1
          /\ ahead'[p] = write_ahead /\ \A t \in Threads : t # p => ahead'[t] = ahead[t]
          /\ UNCHANGED <<read, read_missed, read_ahead, write, write_missed>>
        BY <1>0, <1>9 DEF E_Ahead, TypeOK, TypeLocals
    <2>2. ReadSide'  BY <1>0, <1>1, <1>4, <1>5, <2>1 DEF Threads
    <2>3. /\ pc[p] \in Loaded /\ pc'[p] \in Testing
          /\ Alike(pc, pc', Producers, p) /\ Alike(ahead, ahead', Producers, p)
        BY <1>2, <1>4, <2>1 DEF Alike
    <2>4. WriteSide'  BY <1>3, <2>1, <2>3, DrawSide DEF WriteSide
    <2> QED  BY <2>2, <2>4 DEF RoomInv
<1>10. CASE E_SecondTest(p)
    <2>1. PICK to \in {"e_miss", "e_claim"} :
             /\ Go(p, "e_check", to)
             /\ to = "e_claim" => ~is_full(read, ahead[p] - missed[p])
             /\ \A t \in Threads : t # p => ahead'[t] = ahead[t] /\ missed'[t] = missed[t]
             /\ UNCHANGED counters
        BY <1>0, <1>10 DEF E_SecondTest, TypeOK, TypeLocals
    <2>2. ReadSide'  BY <1>0, <1>1, <1>4, <1>5, <2>1 DEF counters, Threads
    <2>3. /\ pc[p] \in Testing /\ pc'[p] \in Passed \cup Refused
          /\ Alike(pc, pc', Producers, p) /\ Alike(ahead, ahead', Producers, p)
          /\ Alike(missed, missed', Producers, p)
        BY <1>2, <1>4, <2>1 DEF Alike
    <2>4. pc'[p] \in Passed => ahead[p] - missed[p] < read + Capacity
        BY <1>0, <1>1, <1>4, <2>1 DEF is_full
    <2>5. WriteSide'
        <3>1. UNCHANGED <<read, write_ahead, write, write_missed>>  BY <2>1 DEF counters
        <3> QED  BY <1>0, <1>1, <1>3, <2>3, <2>4, <3>1, TestSide DEF WriteSide
    <2> QED  BY <2>2, <2>5 DEF RoomInv
<1>11. CASE E_Miss(p)
    <2>1. /\ Go(p, "e_miss", "idle") /\ write_missed' = write_missed + 1
          /\ UNCHANGED <<read, read_missed, read_ahead, write, write_ahead, ahead, missed>>
        BY <1>11 DEF E_Miss
    <2>2. ReadSide'  BY <1>0, <1>1, <1>4, <1>5, <2>1
    <2>3. pc[p] \in Refused /\ pc'[p] \notin Open \cup Loaded /\ Alike(pc, pc', Producers, p)
        BY <1>4, <2>1
    <2>4. WriteSide'  BY <1>3, <2>1, <2>3, MissSide DEF WriteSide
    <2> QED  BY <2>2, <2>4 DEF RoomInv
<1>12. CASE E_Claim(p)
    <2>1. /\ Go(p, "e_claim", "e_wait") /\ write' = write + 1
          /\ UNCHANGED <<read, read_missed, read_ahead, write_missed, write_ahead, ahead, missed>>
        BY <1>12 DEF E_Claim
    <2>2. ReadSide'  BY <1>0, <1>1, <1>4, <1>5, <2>1
    <2>3. pc[p] \in Passed /\ pc'[p] \notin Open \cup Loaded /\ Alike(pc, pc', Producers, p)
        BY <1>4, <2>1
    <2>4. WriteSide'  BY <1>3, <2>1, <2>3, ClaimSide DEF WriteSide
    <2> QED  BY <2>2, <2>4 DEF RoomInv
<1> QED  BY <1>6, <1>7, <1>8, <1>9, <1>10, <1>11, <1>12 DEF try_enqueue

\* A step of a consumer, seen from either side.
LEMMA RoomDequeue ==
    ASSUME IsFiniteSet(Producers), IsFiniteSet(Consumers), TypeOK, TypeOK', RoomInv,
           NEW c \in Consumers, try_dequeue(c)
    PROVE  RoomInv'
<1>0. c \in Threads /\ c \notin Producers /\ Capacity \in Nat
    BY ThreadAssumption, CapacityAssumption DEF Threads
<1>1. /\ write \in Nat /\ read \in Nat /\ write' \in Nat /\ read' \in Nat
      /\ read + Capacity \in Nat /\ read_missed \in Nat /\ read_ahead \in Nat
      /\ \A t \in Threads : /\ ahead[t] \in Nat /\ missed[t] \in Nat
                            /\ ahead'[t] \in Nat /\ missed'[t] \in Nat
    BY <1>0 DEF TypeOK, TypeShared, TypeLocals
<1>2. \A t \in Consumers : t \in Threads  BY DEF Threads
<1>3. ReadSide /\ WriteSide  BY DEF RoomInv
<1>4. ASSUME NEW from, NEW to, Go(c, from, to)
      PROVE  pc[c] = from /\ pc'[c] = to /\ Alike(pc, pc', Consumers, c)
             /\ (\A t \in Producers : pc'[t] = pc[t])
    BY <1>0, <1>4 DEF Go, Alike, TypeOK, TypePC, Threads
<1>5. ASSUME \A t \in Producers : pc'[t] = pc[t] /\ ahead'[t] = ahead[t] /\ missed'[t] = missed[t],
             UNCHANGED <<write, write_missed, write_ahead>>, read <= read'
      PROVE  WriteSide'
    <2>1. QuietIn(Producers)  BY <1>5 DEF QuietIn
    <2>2. read' + Capacity \in Nat /\ read + Capacity <= read' + Capacity
        <3>1. /\ read \in Nat /\ read' \in Nat /\ Capacity \in Nat
              /\ read <= read'
            BY <1>0, <1>1, <1>5
        <3>2. ASSUME NEW x \in Nat, NEW y \in Nat, NEW z \in Nat, x <= y
              PROVE  y + z \in Nat /\ x + z <= y + z
            BY <3>2
        <3> QED  BY <3>1, <3>2
    <2> QED  BY <1>3, <1>5, <2>1, <2>2, QuietSide DEF WriteSide
<1> USE DEF Open, Testing, Passed, Refused, Loaded
<1>6. CASE D_LoadWrite(c) \/ D_LoadFlag(c) \/ D_FutexWait(c) \/ D_Take(c)
           \/ D_Clear(c) \/ D_Release(c) \/ D_Wake(c)
    <2>1. QuietIn(Consumers) /\ QuietIn(Producers) /\ UNCHANGED counters
        BY <1>6, QuietDequeue
    <2>2. ReadSide'  BY <1>1, <1>3, <2>1, QuietSide DEF ReadSide, counters
    <2>3. WriteSide'  BY <1>1, <1>3, <2>1, QuietSide DEF WriteSide, counters
    <2> QED  BY <2>2, <2>3 DEF RoomInv
<1>7. CASE D_LoadMissed(c)
    <2>1. /\ Go(c, "d_missed", "d_ahead") /\ UNCHANGED <<counters, ahead>>
          /\ missed'[c] = read_missed /\ \A t \in Threads : t # c => missed'[t] = missed[t]
        BY <1>0, <1>7 DEF D_LoadMissed, TypeOK, TypeLocals
    <2>2. WriteSide'  BY <1>0, <1>1, <1>4, <1>5, <2>1 DEF counters, Threads
    <2>3. /\ At(pc', Consumers, Open) = At(pc, Consumers, Open)
          /\ At(pc', Consumers, Passed) = At(pc, Consumers, Passed)
          /\ At(pc', Consumers, Testing) = At(pc, Consumers, Testing)
          /\ c \notin At(pc, Consumers, Testing)
          /\ At(pc', Consumers, Loaded) = At(pc, Consumers, Loaded) \cup {c}
        BY <1>4, <2>1 DEF At, Alike
    <2>4. \A t \in At(pc', Consumers, Loaded) : missed'[t] <= read_missed
        <3>1. \A t \in At(pc, Consumers, Loaded) : missed[t] <= read_missed /\ t \in Threads
            BY <1>2, <1>3 DEF ReadSide, Side, At
        <3> QED  BY <1>1, <2>1, <2>3, <3>1
    <2>5. \A t \in At(pc, Consumers, Testing) : ahead'[t] = ahead[t] /\ missed'[t] = missed[t]
        BY <1>2, <2>1, <2>3 DEF At
    <2>6. ReadSide'
        <3>1. UNCHANGED <<read, read_ahead, write, read_missed>>  BY <2>1 DEF counters
        <3> QED  BY <1>1, <1>2, <1>3, <2>3, <2>4, <2>5, <3>1, KeepSide DEF ReadSide
    <2> QED  BY <2>2, <2>6 DEF RoomInv
<1>8. CASE D_FirstTest(c)
    <2>1. PICK to \in {"idle", "d_ticket"} :
             /\ Go(c, "d_ahead", to) /\ UNCHANGED <<counters, ahead>>
             /\ to = "d_ticket" => missed'[c] = missed[c]
             /\ \A t \in Threads : t # c => missed'[t] = missed[t]
        BY <1>0, <1>8 DEF D_FirstTest, TypeOK, TypeLocals
    <2>2. WriteSide'  BY <1>0, <1>1, <1>4, <1>5, <2>1 DEF counters, Threads
    <2>3. /\ At(pc', Consumers, Open) = At(pc, Consumers, Open)
          /\ At(pc', Consumers, Passed) = At(pc, Consumers, Passed)
          /\ At(pc', Consumers, Testing) = At(pc, Consumers, Testing)
          /\ c \notin At(pc, Consumers, Testing)
          /\ At(pc', Consumers, Loaded) \subseteq At(pc, Consumers, Loaded)
          /\ to # "d_ticket" => c \notin At(pc', Consumers, Loaded)
        BY <1>4, <2>1 DEF At, Alike
    <2>4. \A t \in At(pc', Consumers, Loaded) : missed'[t] <= read_missed
        <3>1. \A t \in At(pc, Consumers, Loaded) : missed[t] <= read_missed /\ t \in Threads
            BY <1>2, <1>3 DEF ReadSide, Side, At
        <3> QED  BY <1>1, <2>1, <2>3, <3>1
    <2>5. \A t \in At(pc, Consumers, Testing) : ahead'[t] = ahead[t] /\ missed'[t] = missed[t]
        BY <1>2, <2>1, <2>3 DEF At
    <2>6. ReadSide'
        <3>1. UNCHANGED <<read, read_ahead, write, read_missed>>  BY <2>1 DEF counters
        <3> QED  BY <1>1, <1>2, <1>3, <2>3, <2>4, <2>5, <3>1, KeepSide DEF ReadSide
    <2> QED  BY <2>2, <2>6 DEF RoomInv
<1>9. CASE D_Ahead(c)
    <2>1. /\ Go(c, "d_ticket", "d_check") /\ missed' = missed /\ read_ahead' = read_ahead + 1
          /\ ahead'[c] = read_ahead /\ \A t \in Threads : t # c => ahead'[t] = ahead[t]
          /\ UNCHANGED <<read, write_missed, write_ahead, write, read_missed>>
        BY <1>0, <1>9 DEF D_Ahead, TypeOK, TypeLocals
    <2>2. WriteSide'  BY <1>0, <1>1, <1>4, <1>5, <2>1 DEF Threads
    <2>3. /\ pc[c] \in Loaded /\ pc'[c] \in Testing
          /\ Alike(pc, pc', Consumers, c) /\ Alike(ahead, ahead', Consumers, c)
        BY <1>2, <1>4, <2>1 DEF Alike
    <2>4. ReadSide'  BY <1>3, <2>1, <2>3, DrawSide DEF ReadSide
    <2> QED  BY <2>2, <2>4 DEF RoomInv
<1>10. CASE D_SecondTest(c)
    <2>1. PICK to \in {"d_miss", "d_claim"} :
             /\ Go(c, "d_check", to)
             /\ to = "d_claim" => ~is_empty(ahead[c] - missed[c], write)
             /\ \A t \in Threads : t # c => ahead'[t] = ahead[t] /\ missed'[t] = missed[t]
             /\ UNCHANGED counters
        BY <1>0, <1>10 DEF D_SecondTest, TypeOK, TypeLocals
    <2>2. WriteSide'  BY <1>0, <1>1, <1>4, <1>5, <2>1 DEF counters, Threads
    <2>3. /\ pc[c] \in Testing /\ pc'[c] \in Passed \cup Refused
          /\ Alike(pc, pc', Consumers, c) /\ Alike(ahead, ahead', Consumers, c)
          /\ Alike(missed, missed', Consumers, c)
        BY <1>2, <1>4, <2>1 DEF Alike
    <2>4. pc'[c] \in Passed => ahead[c] - missed[c] < write
        BY <1>0, <1>1, <1>4, <2>1 DEF is_empty
    <2>5. ReadSide'
        <3>1. UNCHANGED <<read, read_ahead, write, read_missed>>  BY <2>1 DEF counters
        <3> QED  BY <1>0, <1>1, <1>3, <2>3, <2>4, <3>1, TestSide DEF ReadSide
    <2> QED  BY <2>2, <2>5 DEF RoomInv
<1>11. CASE D_Miss(c)
    <2>1. /\ Go(c, "d_miss", "idle") /\ read_missed' = read_missed + 1
          /\ UNCHANGED <<read, write_missed, write_ahead, write, read_ahead, ahead, missed>>
        BY <1>11 DEF D_Miss, locals
    <2>2. WriteSide'  BY <1>0, <1>1, <1>4, <1>5, <2>1
    <2>3. pc[c] \in Refused /\ pc'[c] \notin Open \cup Loaded /\ Alike(pc, pc', Consumers, c)
        BY <1>4, <2>1
    <2>4. ReadSide'  BY <1>3, <2>1, <2>3, MissSide DEF ReadSide
    <2> QED  BY <2>2, <2>4 DEF RoomInv
<1>12. CASE D_Claim(c)
    <2>1. /\ Go(c, "d_claim", "d_wait") /\ read' = read + 1
          /\ UNCHANGED <<write, write_missed, write_ahead, read_missed, read_ahead, ahead, missed>>
        BY <1>12 DEF D_Claim
    <2>2. WriteSide'  BY <1>0, <1>1, <1>4, <1>5, <2>1
    <2>3. pc[c] \in Passed /\ pc'[c] \notin Open \cup Loaded /\ Alike(pc, pc', Consumers, c)
        BY <1>4, <2>1
    <2>4. ReadSide'  BY <1>3, <2>1, <2>3, ClaimSide DEF ReadSide
    <2> QED  BY <2>2, <2>4 DEF RoomInv
<1> QED  BY <1>6, <1>7, <1>8, <1>9, <1>10, <1>11, <1>12 DEF try_dequeue

\* The empty ring.
LEMMA RoomInit == Init => RoomInv
<1> SUFFICES ASSUME Init PROVE RoomInv
    OBVIOUS
<1>1. /\ read = 0 /\ read_missed = 0 /\ read_ahead = 0
      /\ write = 0 /\ write_missed = 0 /\ write_ahead = 0
      /\ \A t \in Threads : pc[t] = "idle" /\ ahead[t] = 0 /\ missed[t] = 0
    BY DEF Init, LimitQueue, IdleThreads
<1>2. ASSUME NEW T, T \subseteq Threads, NEW limit \in Nat
      PROVE  Side(pc, ahead, missed, T, 0, 0, 0, limit)
    <2>1. \A l \in Open \cup Loaded : l # "idle"
        BY DEF Open, Testing, Passed, Refused, Loaded
    <2>2. \A labels \in {Open, Testing, Passed, Loaded} : At(pc, T, labels) = {}
        BY <1>1, <1>2, <2>1, Labels DEF At
    <2>3. Below(ahead, {}, 0) = {}  BY DEF Below
    <2>4. Cardinality({}) = 0  BY FS_EmptySet
    <2>5. RoomBelow(0, ahead, missed, {}, 0, 0, limit)  BY <2>3, <2>4 DEF RoomBelow
    <2>6. 0 \in 0 .. 0  OBVIOUS
    <2>7. Room(ahead, missed, {}, 0, 0, 0, limit)  BY <2>5, <2>6 DEF Room
    <2>8. 0 = 0 + 0 + Cardinality(At(pc, T, Open))  BY <2>2, <2>4
    <2>9. \A t \in T : ahead[t] \in Nat /\ missed[t] \in Nat  BY <1>1, <1>2
    <2> QED  BY <2>2, <2>4, <2>7, <2>8, <2>9 DEF Side, Distinct
<1>3. WriteSide  BY <1>1, <1>2, CapacityAssumption DEF WriteSide, Threads
<1>4. ReadSide  BY <1>1, <1>2 DEF ReadSide, Threads
<1> QED  BY <1>3, <1>4 DEF RoomInv

\* Every step keeps both sides.
LEMMA RoomStep ==
    ASSUME IsFiniteSet(Producers), IsFiniteSet(Consumers), TypeOK, TypeOK', RoomInv, [Next]_vars
    PROVE  RoomInv'
<1>1. CASE Next  BY <1>1, RoomEnqueue, RoomDequeue DEF Next
<1>2. CASE UNCHANGED vars
    BY <1>2 DEF vars, counters, locals, RoomInv, WriteSide, ReadSide
<1> QED  BY <1>1, <1>2

\* Both sides keep to their limits in every behaviour.
LEMMA RoomAlways ==
    ASSUME Capacity >= 2, IntHalf >= Capacity, IsFiniteSet(Producers), IsFiniteSet(Consumers)
    PROVE  Spec => []RoomInv
<1>1. Init => RoomInv  BY RoomInit
<1>2. TypeOK /\ TypeOK' /\ RoomInv /\ [Next]_vars => RoomInv'  BY RoomStep
<1> QED  BY <1>1, <1>2, TypeCorrect, PTL DEF Spec

\* RoomInv says what its counters promise.
LEMMA RoomBounds ==
    ASSUME IsFiniteSet(Producers), IsFiniteSet(Consumers), TypeOK, RoomInv
    PROVE  Bounded /\ NoTicketLeaked
<1>1. /\ write <= read + Capacity
      /\ write_ahead = write + write_missed + Cardinality(At(pc, Producers, Open))
    BY SideBound DEF RoomInv, WriteSide
<1>2. /\ read <= write
      /\ read_ahead = read + read_missed + Cardinality(At(pc, Consumers, Open))
    BY SideBound DEF RoomInv, ReadSide
<1>3. At(pc, Producers, Open) = InTest(Producers, {"e_check", "e_miss", "e_claim"})
    BY DEF At, InTest, Open, Testing, Passed, Refused, TypeOK, TypePC, DequeuePC
<1>4. At(pc, Consumers, Open) = InTest(Consumers, {"d_check", "d_miss", "d_claim"})
    BY DEF At, InTest, Open, Testing, Passed, Refused, TypeOK, TypePC, EnqueuePC
<1> QED  BY <1>1, <1>2, <1>3, <1>4 DEF Bounded, NoTicketLeaked

\* No position is claimed for reading before it was claimed for writing, and
\* never more than Capacity are claimed for writing beyond those claimed for
\* reading (free_lock.cpp:58-68, 109-115), however stale the missed counter
\* of the second test.
THEOREM NeverOverfull ==
    ASSUME Capacity >= 2, IntHalf >= Capacity, IsFiniteSet(Producers), IsFiniteSet(Consumers)
    PROVE  Spec => []Bounded
<1>1. TypeOK /\ RoomInv => Bounded  BY RoomBounds
<1> QED  BY <1>1, TypeCorrect, RoomAlways, PTL

\* Every ticket drawn from write_ahead or read_ahead is under test, became a
\* claim, or was given back (free_lock.cpp:101, 150).
THEOREM TicketsReturned ==
    ASSUME Capacity >= 2, IntHalf >= Capacity, IsFiniteSet(Producers), IsFiniteSet(Consumers)
    PROVE  Spec => []NoTicketLeaked
<1>1. TypeOK /\ RoomInv => NoTicketLeaked  BY RoomBounds
<1> QED  BY <1>1, TypeCorrect, RoomAlways, PTL

-----------------------------------------------------------------------------
(***************************************************************************)
(* The ring is a bounded FIFO.                                             *)
(***************************************************************************)
\* A consumer has no item before it has taken one.
HandsEmpty == \A c \in Consumers :
    pc[c] \notin {"d_clear", "d_release", "d_wake", "d_failed"} => item[c] = Null

FifoInv == IInv /\ RoomInv /\ HandsEmpty

Before == {"d_wait", "d_futex", "d_sleep", "d_take"}

\* What BoundedFifo sees.
Content == SubSeq(log, read + 1, write)
Out(c) == IF pc[c] \in Before THEN log[ticket[c] + 1] ELSE item[c]
Outs == [c \in Consumers |-> Out(c)]

\* BoundedFifo's initial states and steps, in these terms.
LEMMA FifoSees ==
    /\ Fifo!Next <=> \/ \E x \in Items : Len(Content) < Capacity
                           /\ Content' = Append(Content, x) /\ Outs' = Outs
                     \/ \E c \in Consumers :
                           \/ /\ Outs[c] = Null /\ Content # <<>> /\ Content' = Tail(Content)
                              /\ Outs' = [Outs EXCEPT ![c] = Head(Content)]
                           \/ /\ Outs[c] # Null /\ Outs' = [Outs EXCEPT ![c] = Null]
                              /\ Content' = Content
    /\ Fifo!Init <=> Content = <<>> /\ Outs = [c \in Consumers |-> Null]
BY DEF Fifo!Next, Fifo!Enqueue, Fifo!Dequeue, Fifo!Return, Fifo!Init, Content, Outs, Out, Before

\* What a thread does to the consumers when it does not take or return an item.
SameHands(c) ==
    /\ pc'[c] \in Before <=> pc[c] \in Before
    /\ pc[c] \in Before => ticket'[c] = ticket[c]
    /\ pc[c] \notin Before => item'[c] = item[c]

\* A step of one thread leaves the hands of the others alone.
LEMMA HandsKept ==
    ASSUME TypeOK, NEW t \in Threads, NEW c \in Consumers, c # t,
           \/ \E from, to : Go(t, from, to)
           \/ \E from : WakeSlot(t, from),
           \A u \in Threads : u # t => ticket'[u] = ticket[u] /\ item'[u] = item[u]
    PROVE  /\ SameHands(c)
           /\ pc'[c] = pc[c] \/ {pc[c], pc'[c]} \subseteq {"d_sleep", "d_wait"}
<1>1. c \in Threads /\ c \notin Producers  BY ThreadAssumption DEF Threads
<1>2. CASE \E from, to : Go(t, from, to)
    <2>1. pc'[c] = pc[c]  BY <1>1, <1>2 DEF Go, TypeOK, TypePC
    <2> QED  BY <1>1, <2>1 DEF SameHands
<1>3. CASE \E from : WakeSlot(t, from)
    <2>1. pc'[c] = pc[c] \/ (pc[c] \in {"e_sleep", "d_sleep"} /\ pc'[c] = "d_wait")
        BY <1>1, <1>3 DEF WakeSlot, SleepsOn, Resumed
    <2>2. pc[c] # "e_sleep"  BY <1>1 DEF TypeOK, TypePC, EnqueuePC
    <2> QED  BY <1>1, <2>1, <2>2 DEF SameHands, Before
<1> QED  BY <1>2, <1>3

\* A step of a call: where its thread goes, and whose locals it leaves alone.
LEMMA OneMover ==
    ASSUME TypeOK, NEW t \in Threads,
           (t \in Producers /\ try_enqueue(t)) \/ (t \in Consumers /\ try_dequeue(t))
    PROVE  /\ (\E from, to : Go(t, from, to)) \/ (\E from : WakeSlot(t, from))
           /\ \A u \in Threads : u # t => ticket'[u] = ticket[u] /\ item'[u] = item[u]
<1> USE DEF TypeOK, TypeLocals, counters, slots, locals
<1>1. ASSUME t \in Producers, try_enqueue(t)
      PROVE  /\ (\E from, to : Go(t, from, to)) \/ (\E from : WakeSlot(t, from))
             /\ \A u \in Threads : u # t => ticket'[u] = ticket[u] /\ item'[u] = item[u]
    <2>1. CASE E_LoadRead(t)  BY <2>1 DEF E_LoadRead, Call
    <2>2. CASE E_LoadMissed(t)  BY <2>2 DEF E_LoadMissed
    <2>3. CASE E_FirstTest(t)  BY <2>3 DEF E_FirstTest
    <2>4. CASE E_Ahead(t)  BY <2>4 DEF E_Ahead
    <2>5. CASE E_SecondTest(t)  BY <2>5 DEF E_SecondTest
    <2>6. CASE E_Miss(t)  BY <2>6 DEF E_Miss
    <2>7. CASE E_Claim(t)  BY <2>7 DEF E_Claim
    <2>8. CASE E_LoadFlag(t)  BY <2>8 DEF E_LoadFlag
    <2>9. CASE E_FutexWait(t)  BY <2>9 DEF E_FutexWait, FutexWait
    <2>10. CASE E_Fill(t)  BY <2>10 DEF E_Fill
    <2>11. CASE E_Publish(t)  BY <2>11 DEF E_Publish
    <2>12. CASE E_Wake(t)
        <3>1. \A u \in Threads : u # t => ticket'[u] = ticket[u] /\ item'[u] = item[u]
            BY <2>12 DEF E_Wake, WakeSlot
        <3> QED  BY <2>12, <3>1 DEF E_Wake
    <2> QED  BY <1>1, <2>1, <2>2, <2>3, <2>4, <2>5, <2>6, <2>7, <2>8, <2>9, <2>10, <2>11, <2>12
             DEF try_enqueue
<1>2. ASSUME t \in Consumers, try_dequeue(t)
      PROVE  /\ (\E from, to : Go(t, from, to)) \/ (\E from : WakeSlot(t, from))
             /\ \A u \in Threads : u # t => ticket'[u] = ticket[u] /\ item'[u] = item[u]
    <2>1. CASE D_LoadWrite(t)  BY <2>1 DEF D_LoadWrite, Call
    <2>2. CASE D_LoadMissed(t)  BY <2>2 DEF D_LoadMissed
    <2>3. CASE D_FirstTest(t)  BY <2>3 DEF D_FirstTest
    <2>4. CASE D_Ahead(t)  BY <2>4 DEF D_Ahead
    <2>5. CASE D_SecondTest(t)  BY <2>5 DEF D_SecondTest
    <2>6. CASE D_Miss(t)  BY <2>6 DEF D_Miss
    <2>7. CASE D_Claim(t)  BY <2>7 DEF D_Claim
    <2>8. CASE D_LoadFlag(t)  BY <2>8 DEF D_LoadFlag
    <2>9. CASE D_FutexWait(t)  BY <2>9 DEF D_FutexWait, FutexWait
    <2>10. CASE D_Take(t)  BY <2>10 DEF D_Take
    <2>11. CASE D_Clear(t)  BY <2>11 DEF D_Clear
    <2>12. CASE D_Release(t)  BY <2>12 DEF D_Release
    <2>13. CASE D_Wake(t)
        <3>1. \A u \in Threads : u # t => ticket'[u] = ticket[u] /\ item'[u] = item[u]
            BY <2>13 DEF D_Wake, WakeSlot
        <3> QED  BY <2>13, <3>1 DEF D_Wake
    <2> QED  BY <1>2, <2>1, <2>2, <2>3, <2>4, <2>5, <2>6, <2>7, <2>8, <2>9, <2>10, <2>11, <2>12,
                <2>13 DEF try_dequeue
<1> QED  BY <1>1, <1>2

\* A sequence of claims with one more at its end, or one less at its front.
LEMMA Window ==
    ASSUME NEW S, NEW s \in Seq(S), NEW r \in Nat, r <= Len(s)
    PROVE  /\ Len(SubSeq(s, r + 1, Len(s))) = Len(s) - r
           /\ \A x \in S : SubSeq(Append(s, x), r + 1, Len(s) + 1)
                              = Append(SubSeq(s, r + 1, Len(s)), x)
           /\ r < Len(s) => /\ SubSeq(s, r + 1, Len(s)) # <<>>
                            /\ Head(SubSeq(s, r + 1, Len(s))) = s[r + 1]
                            /\ Tail(SubSeq(s, r + 1, Len(s))) = SubSeq(s, (r + 1) + 1, Len(s))
<1>1. PICK w \in Nat : w = Len(s)  BY LenProperties
<1>2. \A i \in (r + 1) .. w : s[i] \in S
    <2>1. ASSUME NEW i \in (r + 1) .. w PROVE i \in 1 .. Len(s)  BY <1>1
    <2> QED  BY <2>1, ElementOfSeq
<1>3. PICK q : q = SubSeq(s, r + 1, w)  OBVIOUS
<1>4. /\ q \in Seq(S) /\ Len(q) = w - r
      /\ \A i \in 1 .. w - r : q[i] = s[r + i]
    <2>1. r + 1 \in Int /\ w \in Int  BY <1>1
    <2>2. /\ q \in Seq(S) /\ Len(q) = IF r + 1 <= w THEN w - (r + 1) + 1 ELSE 0
          /\ \A i \in 1 .. w - (r + 1) + 1 : q[i] = s[(r + 1) + i - 1]
        BY ONLY <1>2, <1>3, <2>1, SubSeqProperties
    <2>3. r <= w /\ w - (r + 1) + 1 = w - r  BY <1>1
    <2>4. \A i \in Int : (r + 1) + i - 1 = r + i  OBVIOUS
    <2>5. Len(q) = w - r  BY <1>1, <2>2, <2>3
    <2>6. ASSUME NEW i \in 1 .. w - r PROVE q[i] = s[r + i]
        <3>1. i \in Int /\ q[i] = s[(r + 1) + i - 1]  BY <2>2, <2>3
        <3> QED  BY <2>4, <3>1
    <2> QED  BY <2>2, <2>5, <2>6
<1>5. ASSUME NEW x \in S PROVE SubSeq(Append(s, x), r + 1, w + 1) = Append(q, x)
    <2>1. PICK a : a = Append(s, x)  OBVIOUS
    <2>2. a \in Seq(S) /\ a[w + 1] = x /\ \A i \in 1 .. w : a[i] = s[i]
        BY <1>1, <2>1, AppendProperties
    <2>3. \A i \in (r + 1) .. (w + 1) : a[i] \in S
        <3>1. ASSUME NEW i \in (r + 1) .. (w + 1), i # w + 1 PROVE i \in (r + 1) .. w /\ i \in 1 .. w
            BY <1>1, <3>1
        <3> QED  BY <1>2, <2>2, <3>1
    <2>4. PICK b : b = SubSeq(a, r + 1, w + 1)  OBVIOUS
    <2>5. /\ b \in Seq(S) /\ Len(b) = w - r + 1
          /\ \A i \in 1 .. w - r + 1 : b[i] = a[r + i]
        <3>1. r + 1 \in Int /\ w + 1 \in Int  BY <1>1
        <3>2. /\ b \in Seq(S) /\ Len(b) = IF r + 1 <= w + 1 THEN (w + 1) - (r + 1) + 1 ELSE 0
              /\ \A i \in 1 .. (w + 1) - (r + 1) + 1 : b[i] = a[(r + 1) + i - 1]
            BY ONLY <2>3, <2>4, <3>1, SubSeqProperties
        <3>3. r <= w /\ (w + 1) - (r + 1) + 1 = w - r + 1  BY <1>1
        <3>4. \A i \in Int : (r + 1) + i - 1 = r + i  OBVIOUS
        <3> QED  BY <1>1, <3>2, <3>3, <3>4
    <2>6. PICK d : d = Append(q, x)  OBVIOUS
    <2>7. /\ d \in Seq(S) /\ Len(d) = w - r + 1 /\ d[w - r + 1] = x
          /\ \A i \in 1 .. w - r : d[i] = q[i]
        <3>1. w - r \in Nat  BY <1>1
        <3>2. /\ d \in Seq(S) /\ Len(d) = Len(q) + 1 /\ d[Len(q) + 1] = x
              /\ \A i \in 1 .. Len(q) : d[i] = q[i]
            BY ONLY <1>4, <2>6, AppendProperties, x \in S
        <3> QED  BY <1>4, <3>1, <3>2
    <2>8. ASSUME NEW i \in 1 .. Len(b) PROVE b[i] = d[i]
        <3>1. CASE i = w - r + 1  BY <1>1, <2>2, <2>5, <2>7, <3>1
        <3>2. CASE i # w - r + 1
            <4>1. i \in 1 .. w - r + 1  BY <2>5
            <4>2. i \in 1 .. w - r /\ r + i \in 1 .. w  BY <1>1, <3>2, <4>1
            <4> QED  BY <1>4, <2>2, <2>5, <2>7, <4>1, <4>2
        <3> QED  BY <3>1, <3>2
    <2>9. b = d  BY ONLY <2>5, <2>7, <2>8, SeqEqual
    <2> QED  BY <2>1, <2>4, <2>6, <2>9
<1>6. ASSUME r < w
      PROVE  q # <<>> /\ Head(q) = s[r + 1] /\ Tail(q) = SubSeq(s, (r + 1) + 1, w)
    <2>1. r + 1 \in 1 .. Len(s) /\ w \in (r + 1) .. Len(s)  BY <1>1, <1>6
    <2>2. Head(q) = s[r + 1] /\ Tail(q) = SubSeq(s, (r + 1) + 1, w)
        BY <1>3, <2>1, HeadTailOfSubSeq
    <2>3. Len(q) # 0  BY <1>1, <1>4, <1>6
    <2>4. q # <<>>  BY <2>3, EmptySeq
    <2> QED  BY <2>2, <2>4
<1> QED  BY <1>1, <1>3, <1>4, <1>5, <1>6

\* The steps of a consumer that neither claim, take nor return an item.
OwnHands(c) ==
    \/ D_LoadWrite(c) \/ D_LoadMissed(c) \/ D_FirstTest(c) \/ D_Ahead(c) \/ D_SecondTest(c)
    \/ D_Miss(c) \/ D_LoadFlag(c) \/ D_FutexWait(c) \/ D_Clear(c) \/ D_Release(c)

\* Such a step does not show.
LEMMA OwnKept ==
    ASSUME TypeOK, NEW c \in Consumers, OwnHands(c)
    PROVE  /\ SameHands(c) /\ UNCHANGED <<read, write, log, item>>
           /\ pc'[c] \in {"d_clear", "d_release", "d_wake", "d_failed"} <=>
                 pc[c] \in {"d_clear", "d_release", "d_wake", "d_failed"}
<1> USE DEF TypeOK, TypePC, Go, counters, slots, locals, SameHands, Before, Threads
<1>1. CASE D_LoadWrite(c)  BY <1>1 DEF D_LoadWrite, Call
<1>2. CASE D_LoadMissed(c)  BY <1>2 DEF D_LoadMissed
<1>3. CASE D_FirstTest(c)  BY <1>3 DEF D_FirstTest
<1>4. CASE D_Ahead(c)  BY <1>4 DEF D_Ahead
<1>5. CASE D_SecondTest(c)  BY <1>5 DEF D_SecondTest
<1>6. CASE D_Miss(c)  BY <1>6 DEF D_Miss
<1>7. CASE D_LoadFlag(c)  BY <1>7 DEF D_LoadFlag
<1>8. CASE D_FutexWait(c)  BY <1>8 DEF D_FutexWait, FutexWait
<1>9. CASE D_Clear(c)  BY <1>9 DEF D_Clear
<1>10. CASE D_Release(c)  BY <1>10 DEF D_Release
<1> QED  BY <1>1, <1>2, <1>3, <1>4, <1>5, <1>6, <1>7, <1>8, <1>9, <1>10 DEF OwnHands

\* Every step keeps hands empty until an item is taken.
LEMMA HandsStep ==
    ASSUME TypeOK, HandsEmpty, [Next]_vars
    PROVE  HandsEmpty'
<1>1. CASE UNCHANGED vars  BY <1>1 DEF vars, locals, HandsEmpty
<1>2. ASSUME NEW t \in Threads,
             (t \in Producers /\ try_enqueue(t)) \/ (t \in Consumers /\ try_dequeue(t))
      PROVE  HandsEmpty'
    <2> SUFFICES ASSUME NEW c \in Consumers,
                        pc'[c] \notin {"d_clear", "d_release", "d_wake", "d_failed"}
                 PROVE  item'[c] = Null
        BY DEF HandsEmpty
    <2>0. c \in Threads /\ c \notin Producers  BY ThreadAssumption DEF Threads
    <2>1. CASE c # t
        <3>1. /\ item'[c] = item[c]
              /\ pc'[c] = pc[c] \/ {pc[c], pc'[c]} \subseteq {"d_sleep", "d_wait"}
            BY <1>2, <2>0, <2>1, OneMover, HandsKept
        <3> QED  BY <3>1 DEF HandsEmpty
    <2>2. CASE c = t
        <3>1. try_dequeue(c)  BY <1>2, <2>0, <2>2
        <3>2. CASE OwnHands(c)  BY <3>2, OwnKept DEF HandsEmpty
        <3>3. CASE D_Claim(c)
            BY <2>0, <3>3 DEF D_Claim, Go, HandsEmpty
        <3>4. CASE D_Take(c)
            BY <2>0, <3>4 DEF D_Take, Go, TypeOK, TypePC
        <3>5. CASE D_Wake(c)
            BY <2>0, <3>5 DEF D_Wake, WakeSlot, TypeOK, TypeLocals
        <3> QED  BY <3>1, <3>2, <3>3, <3>4, <3>5 DEF try_dequeue, OwnHands
    <2> QED  BY <2>1, <2>2
<1> QED  BY <1>1, <1>2 DEF Next, Threads

\* What a consumer is being given does not change while others move.
LEMMA SameOut ==
    ASSUME IInv, Bounded, NEW c \in Consumers, SameHands(c),
           log' = log \/ \E x \in Items : log' = Append(log, x)
    PROVE  Out(c)' = Out(c)
<1>1. CASE pc[c] \notin Before  BY <1>1 DEF Out, SameHands
<1>2. CASE pc[c] \in Before
    <2>1. pc[c] \in Reading  BY <1>2 DEF Before, Reading
    <2>2. /\ ticket[c] < read /\ read <= write /\ Len(log) = write /\ log \in Seq(Items)
          /\ ticket[c] \in Nat /\ read \in Nat /\ write \in Nat
        BY <2>1 DEF IInv, ReadersOK, LogOK, Bounded, TypeOK, TypeShared, TypeLocals, Threads
    <2>3. ticket[c] + 1 \in 1 .. Len(log)  BY <2>2
    <2>4. log'[ticket[c] + 1] = log[ticket[c] + 1]
        <3>1. ASSUME NEW x \in Items, log' = Append(log, x)
              PROVE  log'[ticket[c] + 1] = log[ticket[c] + 1]
            BY <2>2, <2>3, <3>1, AppendProperties
        <3> QED  BY <3>1
    <2> QED  BY <1>2, <2>4 DEF Out, SameHands
<1> QED  BY <1>1, <1>2

\* The same for all consumers at once.
LEMMA SameOuts ==
    ASSUME \A c \in Consumers : Out(c)' = Out(c)
    PROVE  Outs' = Outs
<1>1. Outs' = [c \in Consumers |-> Out(c)']  BY DEF Outs
<1> QED  BY <1>1 DEF Outs

\* A producer's step: its claim enqueues, no other step shows.
LEMMA EnqueueFifo ==
    ASSUME IsFiniteSet(Producers), FifoInv, Bounded, NEW p \in Producers, try_enqueue(p)
    PROVE  Fifo!Next \/ (Content' = Content /\ Outs' = Outs)
<1>0. p \in Threads /\ p \notin Consumers /\ TypeOK
    BY ThreadAssumption DEF Threads, FifoInv, IInv
<1>1. \A c \in Consumers : SameHands(c)
    BY <1>0, OneMover, HandsKept
<1>2. ASSUME log' = log \/ \E x \in Items : log' = Append(log, x) PROVE Outs' = Outs
    BY <1>1, <1>2, SameOut, SameOuts DEF FifoInv
<1>3. CASE E_Claim(p)
    <2>1. /\ pc[p] = "e_claim" /\ log' = Append(log, item[p]) /\ write' = write + 1
          /\ UNCHANGED read /\ item[p] \in Items
        BY <1>0, <1>3 DEF E_Claim, Go, FifoInv, IInv, CarriedOK
    <2>2. Outs' = Outs  BY <1>2, <2>1
    <2>3. write = Len(log) /\ log \in Seq(Items) /\ read \in Nat /\ write \in Nat /\ read <= write
          /\ Capacity \in Nat
        BY <1>0, CapacityAssumption DEF FifoInv, IInv, LogOK, TypeOK, TypeShared, Bounded
    <2>4. Len(Content) = write - read /\ Content' = Append(Content, item[p])
        BY <2>1, <2>3, Window DEF Content
    <2>5. write < read + Capacity
        <3>1. pc[p] \in Passed /\ pc'[p] \notin Open \cup Loaded /\ Alike(pc, pc', Producers, p)
            BY <1>0, <1>3 DEF E_Claim, Go, Alike, Open, Testing, Passed, Refused, Loaded,
               TypeOK,
                              TypePC, Threads
        <3> QED  BY <3>1, ClaimSide DEF FifoInv, RoomInv, WriteSide
    <2>6. Len(Content) < Capacity  BY <2>3, <2>4, <2>5
    <2> QED  BY <2>1, <2>2, <2>4, <2>6, FifoSees
<1>4. CASE ~E_Claim(p)
    <2>1. UNCHANGED <<read, write, log>>
        BY <1>4 DEF try_enqueue, counters, slots, locals, E_LoadRead, Call, E_LoadMissed,
                    E_FirstTest, E_Ahead, E_SecondTest, E_Miss, E_LoadFlag, E_FutexWait,
                    FutexWait,
                    E_Fill, E_Publish, E_Wake, WakeSlot
    <2> QED  BY <1>2, <2>1 DEF Content
<1> QED  BY <1>3, <1>4

\* A consumer's step: its claim dequeues, its last step returns the item.
LEMMA DequeueFifo ==
    ASSUME IsFiniteSet(Consumers), FifoInv, IInv', Bounded, NEW c \in Consumers, try_dequeue(c)
    PROVE  Fifo!Next \/ (Content' = Content /\ Outs' = Outs)
<1>0. c \in Threads /\ c \notin Producers /\ TypeOK /\ TypeOK'
    BY ThreadAssumption DEF Threads, FifoInv, IInv
<1>1. \A d \in Consumers : d # c => SameHands(d)
    BY <1>0, OneMover, HandsKept
<1>2. ASSUME log' = log, NEW d \in Consumers, d # c PROVE Out(d)' = Out(d)
    BY <1>1, <1>2, SameOut DEF FifoInv
<1>3. /\ write = Len(log) /\ log \in Seq(Items) /\ read \in Nat /\ write \in Nat /\ read <= write
    BY <1>0 DEF FifoInv, IInv, LogOK, TypeOK, TypeShared, Bounded
<1>4. CASE OwnHands(c)
    <2>1. SameHands(c) /\ UNCHANGED <<read, write, log>>  BY <1>0, <1>4, OwnKept
    <2>2. Out(c)' = Out(c)  BY <2>1, SameOut DEF FifoInv
    <2> QED  BY <1>2, <2>1, <2>2, SameOuts DEF Content
<1>5. CASE D_Claim(c)
    <2>1. /\ pc[c] = "d_claim" /\ pc'[c] = "d_wait" /\ ticket'[c] = read /\ read' = read + 1
          /\ UNCHANGED <<write, log>>
        BY <1>0, <1>5 DEF D_Claim, Go, TypeOK, TypePC, TypeLocals
    <2>2. read < write
        <3>1. pc[c] \in Passed /\ pc'[c] \notin Open \cup Loaded /\ Alike(pc, pc', Consumers, c)
            BY <1>0, <1>5 DEF D_Claim, Go, Alike, Open, Testing, Passed, Refused, Loaded,
               TypeOK,
                              TypePC, Threads
        <3> QED  BY <3>1, ClaimSide DEF FifoInv, RoomInv, ReadSide
    <2>3. /\ Content # <<>> /\ Head(Content) = log[read + 1] /\ Content' = Tail(Content)
        BY <1>3, <2>1, <2>2, Window DEF Content
    <2>4. Out(c) = Null /\ Out(c)' = Head(Content)
        BY <2>1, <2>3 DEF Out, Before, FifoInv, HandsEmpty
    <2>5. Outs[c] = Null /\ Outs' = [Outs EXCEPT ![c] = Head(Content)]
        <3>1. Outs' = [d \in Consumers |-> Out(d)']  BY DEF Outs
        <3> QED  BY <1>2, <2>1, <2>4, <3>1 DEF Outs
    <2> QED  BY <2>3, <2>5, FifoSees
<1>6. CASE D_Take(c)
    <2>1. /\ pc[c] = "d_take" /\ pc'[c] \in {"d_failed", "d_clear"} /\ ticket' = ticket
          /\ UNCHANGED <<read, write, log>>
        BY <1>0, <1>6 DEF D_Take, Go, TypeOK, TypePC, counters
    <2>2. pc'[c] = "d_clear"  BY <2>1 DEF IInv, AssertItem
    <2>3. item'[c] = log[ticket[c] + 1]  BY <2>1, <2>2 DEF IInv, Delivered
    <2>4. Out(c)' = Out(c)  BY <2>1, <2>2, <2>3 DEF Out, Before
    <2> QED  BY <1>2, <2>1, <2>4, SameOuts DEF Content
<1>7. CASE D_Wake(c)
    <2>1. /\ pc[c] = "d_wake" /\ pc'[c] = "idle" /\ item'[c] = Null
          /\ UNCHANGED <<read, write, log>>
        BY <1>0, <1>7 DEF D_Wake, WakeSlot, TypeOK, TypeLocals, counters
    <2>2. Out(c) = item[c] /\ Out(c)' = Null  BY <2>1 DEF Out, Before
    <2>3. item[c] # Null
        <3>1. ticket[c] < write /\ item[c] = log[ticket[c] + 1]
            BY <2>1 DEF FifoInv, IInv, Delivered
        <3>2. ticket[c] + 1 \in 1 .. Len(log)
            BY <1>0, <1>3, <3>1 DEF TypeOK, TypeLocals
        <3> QED  BY <1>3, <3>1, <3>2, ElementOfSeq, NullAssumption
    <2>4. Outs[c] # Null /\ Outs' = [Outs EXCEPT ![c] = Null]
        <3>1. Outs' = [d \in Consumers |-> Out(d)']  BY DEF Outs
        <3> QED  BY <1>2, <2>1, <2>2, <2>3, <3>1 DEF Outs
    <2> QED  BY <2>1, <2>4, FifoSees DEF Content
<1> QED  BY <1>4, <1>5, <1>6, <1>7 DEF try_dequeue, OwnHands

\* The initial states are BoundedFifo's.
LEMMA FifoInit == Init => HandsEmpty /\ Fifo!Init
<1> SUFFICES ASSUME Init PROVE HandsEmpty /\ Fifo!Init
    OBVIOUS
<1>1. /\ log = <<>> /\ read = 0 /\ write = 0
      /\ \A c \in Consumers : pc[c] = "idle" /\ item[c] = Null
    BY DEF Init, LimitQueue, IdleThreads, Threads
<1>2. Content = <<>>
    <2>1. 0 + 1 \in Int /\ 0 \in Int /\ 0 < 0 + 1  OBVIOUS
    <2> QED  BY <1>1, <2>1, SubSeqEmpty DEF Content
<1>3. Outs = [c \in Consumers |-> Null]  BY <1>1 DEF Outs, Out, Before
<1> QED  BY <1>1, <1>2, <1>3, FifoSees DEF HandsEmpty

\* The ring implements the bounded FIFO that AbstractQueue promises
\* (head/queue/interface.h): an item enters when its position is claimed
\* (free_lock.cpp:116) and leaves when a consumer claims that position
\* (free_lock.cpp:69), whatever the order in which the slots are filled.
THEOREM RingIsFifo ==
    ASSUME Capacity >= 2, IntHalf >= Capacity, IsFiniteSet(Producers), IsFiniteSet(Consumers)
    PROVE  Spec => ImplementsFifo
<1> DEFINE Seen == <<SubSeq(log, read + 1, write),
                     [c \in Consumers |->
                        IF pc[c] \in {"d_wait", "d_futex", "d_sleep", "d_take"}
                        THEN log[ticket[c] + 1] ELSE item[c]]>>
<1>1. Init => HandsEmpty /\ Fifo!Init  BY FifoInit
<1>2. HandsEmpty /\ IInv /\ [Next]_vars => HandsEmpty'  BY HandsStep DEF IInv
<1>3. HandsEmpty /\ IInv /\ IInv' /\ RoomInv /\ [Next]_vars => [Fifo!Next]_Seen
    <2> SUFFICES ASSUME HandsEmpty, IInv, IInv', RoomInv, [Next]_vars PROVE [Fifo!Next]_Seen
        OBVIOUS
    <2>1. FifoInv /\ Bounded  BY RoomBounds DEF FifoInv, IInv
    <2>2. Seen = <<Content, Outs>>  BY DEF Content, Outs, Out, Before
    <2>3. Seen' = <<Content', Outs'>>  BY DEF Content, Outs, Out, Before
    <2>4. CASE Next
        <3>1. Fifo!Next \/ (Content' = Content /\ Outs' = Outs)
            BY <2>1, <2>4, EnqueueFifo, DequeueFifo DEF Next
        <3> QED  BY <2>2, <2>3, <3>1
    <2>5. CASE UNCHANGED vars
        BY <2>5 DEF vars, counters, locals
    <2> QED  BY <2>4, <2>5
<1> QED  BY <1>1, <1>2, <1>3, HandshakeInv, RoomAlways, PTL DEF Spec, ImplementsFifo, Fifo!Spec
=============================================================================
