---------------------------- MODULE MCFlowGraph ----------------------------
(* FlowGraph instantiated for TLC. *)
EXTENDS FlowGraph

CONSTANTS g1, g2, c1, c2, w1, w2

Alike == Permutations(Graphs) \cup Permutations(Clients) \cup Permutations(Workers)
=============================================================================
