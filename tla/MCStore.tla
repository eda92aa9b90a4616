------------------------------- MODULE MCStore -------------------------------
(* Symmetry of the identifiers of Store for TLC. *)
EXTENDS Store, TLC

Symmetry == Permutations(Users) \cup Permutations(Products)
               \cup Permutations(Orders) \cup Permutations(Adds)
               \cup Permutations(Payments)

==============================================================================
