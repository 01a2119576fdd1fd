-------------------------- MODULE MCRuntimeControl --------------------------
(* Finite instances of RuntimeControl for TLC. *)
EXTENDS RuntimeHosts, TLC

Symmetry == Permutations(Instances) \cup Permutations(Servers)
            \cup Permutations(Controllers) \cup Permutations(Owners)
=============================================================================
