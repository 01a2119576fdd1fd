----------------------------- MODULE MCAccounts -----------------------------
(* Symmetry of Accounts for TLC. *)
EXTENDS Accounts, TLC

Symmetry == Permutations(Users) \cup Permutations(Emails) \cup Permutations(Requests)
=============================================================================
