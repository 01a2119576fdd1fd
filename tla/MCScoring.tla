----------------------------- MODULE MCScoring -----------------------------
(* What administrators change in the runs of Scoring, and its symmetry. *)
EXTENDS Scoring, TLC

MCPatches == {{"state"}, {"logic"}, {"limit"}, {"score"}}

MCMoves == {[from |-> None, to |-> "correct"], [from |-> None, to |-> "incorrect"],
            [from |-> "incorrect", to |-> "correct"], [from |-> "correct", to |-> "incorrect"],
            [from |-> "partial", to |-> "correct"], [from |-> "correct", to |-> None],
            [from |-> "incorrect", to |-> None]}

Symmetry == Permutations(Users) \cup Permutations(Hints) \cup Permutations(Requests)
            \cup Permutations(Flags)
=============================================================================
