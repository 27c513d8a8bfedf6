---------------------------- MODULE MCTaskQueue ----------------------------
(* TaskQueue instantiated for TLC. *)
EXTENDS TaskQueue

CONSTANTS p1, p2, w1, w2
=============================================================================
