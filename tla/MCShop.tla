------------------------------- MODULE MCShop -------------------------------
(* Symmetry of the identifiers of Shop for TLC. *)
EXTENDS Shop, TLC

Symmetry == Permutations(Users) \cup Permutations(Products)
               \cup Permutations(Orders) \cup Permutations(Adds)

============================================================================
