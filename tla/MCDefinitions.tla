--------------------------- MODULE MCDefinitions ---------------------------
(* Symmetry of Definitions for TLC: challenges are ordered, the rest is not.  *)
EXTENDS Definitions, TLC

Symmetry == Permutations(Users) \cup Permutations(Flags)
            \cup Permutations(Keys) \cup Permutations(Requests)
=============================================================================
