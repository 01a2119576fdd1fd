--------------------------- MODULE MCRemoteHelper ---------------------------
(* Finite instances of RemoteHelper for TLC. *)
EXTENDS RemoteHelper

\* each generation ends one instant after the one before
MCDeadline == [g \in Generations |-> g]
=============================================================================
