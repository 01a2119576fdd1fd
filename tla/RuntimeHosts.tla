----------------------------- MODULE RuntimeHosts -----------------------------
(***************************************************************************)
(* The hosts of RuntimeControl, seen one server and one instance at a      *)
(* time, are the HostSlots that RemoteHelper implements.                   *)
(***************************************************************************)
EXTENDS RuntimeControl

SlotOf(s, i) == INSTANCE HostSlot WITH
    workload <- [present |-> host[s][i].present, gen |-> host[s][i].gen,
                 deadline |-> host[s][i].deadline],
    fenced <- i \in tomb[s]

\* Whatever calls are delayed, repeated or abandoned, and whatever controller
\* sent them, each host keeps the promises of HostSlot that ensure_instance,
\* update_deadline and stop_instance implement under the lock of an instance.
\* (\A s, i : SlotOf(s, i)!SlotSpec, with the quantifier inside the box.)
HostsAreSlots ==
    /\ \A s \in Servers, i \in Instances : SlotOf(s, i)!SlotInit
    /\ [][\A s \in Servers, i \in Instances :
             [SlotOf(s, i)!SlotNext]_(SlotOf(s, i)!slotVars)]_vars
=============================================================================
