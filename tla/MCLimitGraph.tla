---------------------------- MODULE MCLimitGraph ----------------------------
(* LimitGraph instantiated for TLC. *)
EXTENDS LimitGraph

CONSTANTS l1, l2, u1, c1, c2, w1, w2
=============================================================================
