-------------------------- MODULE MCFreeLockQueue --------------------------
(* FreeLockQueue instantiated for TLC. *)
EXTENDS FreeLockQueue, TLC

CONSTANTS p1, p2, p3, c1, c2, a, b

Alike == Permutations(Producers) \cup Permutations(Consumers) \cup Permutations(Items)
=============================================================================
