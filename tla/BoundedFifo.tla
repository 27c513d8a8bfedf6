---------------------------- MODULE BoundedFifo ----------------------------
(***************************************************************************)
(* What a bounded AbstractQueue (head/queue/interface.h) promises to its   *)
(* callers: a FIFO that never holds more than Capacity items, from which   *)
(* each item is handed to exactly one consumer.  A call that returns false *)
(* changes nothing, and may do so even when the queue has room or items.   *)
(***************************************************************************)
EXTENDS Naturals, Sequences

CONSTANTS Consumers, Items, Null, Capacity

VARIABLES
    fifo,   \* the items in the queue, oldest first
    out     \* out[c]: the item consumer c is being given, or Null

Init ==
    /\ fifo = <<>>
    /\ out = [c \in Consumers |-> Null]

Enqueue(x) ==
    /\ Len(fifo) < Capacity
    /\ fifo' = Append(fifo, x)
    /\ UNCHANGED out

Dequeue(c) ==
    /\ out[c] = Null
    /\ fifo # <<>>
    /\ fifo' = Tail(fifo)
    /\ out' = [out EXCEPT ![c] = Head(fifo)]

Return(c) ==
    /\ out[c] # Null
    /\ out' = [out EXCEPT ![c] = Null]
    /\ UNCHANGED fifo

Next ==
    \/ \E x \in Items : Enqueue(x)
    \/ \E c \in Consumers : Dequeue(c) \/ Return(c)

Spec == Init /\ [][Next]_<<fifo, out>>
=============================================================================
