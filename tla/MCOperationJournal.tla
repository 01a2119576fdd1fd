------------------------- MODULE MCOperationJournal -------------------------
(* Finite instances of OperationJournal for TLC. *)
EXTENDS OperationJournal, TLC

Symmetry == Permutations(Commands)
=============================================================================
