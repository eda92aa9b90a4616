---------------------------- MODULE MCCartCache ----------------------------
(* Symmetry of the clients of CartCache for TLC. *)
EXTENDS CartCache, TLC

Symmetry == Permutations(Readers) \cup Permutations(Writers)
               \cup Permutations(Pages)

============================================================================
