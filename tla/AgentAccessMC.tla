--------------------------- MODULE AgentAccessMC ---------------------------
(* Instances of AgentAccess for TLC; the bounds are in the .cfg file. *)
EXTENDS AgentAccess

=============================================================================
