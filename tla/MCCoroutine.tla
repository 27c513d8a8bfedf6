---------------------------- MODULE MCCoroutine ----------------------------
(* Coroutine instantiated for TLC: the last task is alone in its graph. *)
EXTENDS Coroutine, FiniteSetsExt

CONSTANTS w1, w2, g1, g2

LastAlone == [n \in Tasks |-> IF n = MaxNodes THEN g2 ELSE g1]

\* align_size gives the least power of two that is not smaller.
ASSUME AlignIsLeast ==
    \A n \in 1 .. 130 : align_size(n) = Min({m \in {2^k : k \in 0 .. 8} : m >= n})
=============================================================================
