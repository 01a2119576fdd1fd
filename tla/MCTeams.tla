------------------------------ MODULE MCTeams ------------------------------
(* Symmetry of Teams for TLC. *)
EXTENDS Teams, TLC

Symmetry == Permutations(Users) \cup Permutations(TeamIds) \cup Permutations(Requests)
=============================================================================
