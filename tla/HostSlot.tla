------------------------------ MODULE HostSlot ------------------------------
(***************************************************************************)
(* What a runtime host promises about one instance identifier: a workload  *)
(* is created at most while the identifier is not fenced, its generation   *)
(* and its deadline only grow while it lives, and a fence is for ever.     *)
(*                                                                         *)
(* RemoteHelper implements it step by step, with crashes; RuntimeControl   *)
(* relies on it for every server and instance.                             *)
(***************************************************************************)
EXTENDS Naturals

VARIABLES
    workload,   \* the workload the host answers for
    fenced      \* the identifier can never have a workload again

slotVars == <<workload, fenced>>

Nothing == [present |-> FALSE, gen |-> 0, deadline |-> 0]

SlotInit == workload = Nothing /\ fenced = FALSE

Create ==
    /\ ~workload.present /\ ~fenced
    /\ workload'.present
    /\ UNCHANGED fenced

Extend ==
    /\ workload.present /\ workload'.present
    /\ workload.gen <= workload'.gen
    /\ workload.deadline <= workload'.deadline
    /\ UNCHANGED fenced

\* a start that failed is undone: it may be tried again
Withdraw ==
    /\ workload.present
    /\ workload' = Nothing
    /\ UNCHANGED fenced

Fence ==
    /\ workload' = Nothing
    /\ fenced' = TRUE

SlotNext == Create \/ Extend \/ Withdraw \/ Fence

SlotSpec == SlotInit /\ [][SlotNext]_slotVars
=============================================================================
