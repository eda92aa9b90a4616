----------------------------- MODULE MCAccounts -----------------------------
(* Symmetry of the identifiers of Accounts for TLC. *)
EXTENDS Accounts, TLC

Symmetry == Permutations(Users) \cup Permutations(Usernames)
               \cup Permutations(Emails) \cup Permutations(Passwords)
               \cup Permutations(Products) \cup Permutations(Titles) \cup Permutations(Requests)

=============================================================================
