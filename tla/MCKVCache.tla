----------------------------- MODULE MCKVCache -----------------------------
(* Instances of KVCache for TLC. *)
EXTENDS KVCache, TLC

Symmetry == Permutations(Requests)

=============================================================================
