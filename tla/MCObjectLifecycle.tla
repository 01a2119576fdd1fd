------------------------- MODULE MCObjectLifecycle -------------------------
(* Symmetry of ObjectLifecycle for TLC. *)
EXTENDS ObjectLifecycle, TLC

Symmetry ==
    Permutations(Objects) \cup Permutations(Requests) \cup Permutations(Workers)
=============================================================================
