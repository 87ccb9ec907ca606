------------------------------ MODULE MCTiered ------------------------------
(* An instance of PrefetchScheduler for TLC.                               *)
EXTENDS PrefetchScheduler

CONSTANTS k1, k2

OneEach == [k \in Keys |-> 1]

Pair(g, c) == [t \in Memory |-> IF t = "gpu" THEN g ELSE c]

(* No GPU; one block fits in the GPU, and one or two in the CPU;           *)
(* two blocks, or one placeholder, in the GPU but none in the CPU.         *)
SmallBudgets == {Pair(0, 1), Pair(1, 1), Pair(1, 2), Pair(2, 0)}

=============================================================================
