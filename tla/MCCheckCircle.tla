--------------------------- MODULE MCCheckCircle ---------------------------
(* CheckCircle instantiated for TLC. *)
EXTENDS CheckCircle, TLC

CONSTANTS t1, t2, t3, t4, b1, b2, b3

Alike == Permutations(Tasks)
=============================================================================
