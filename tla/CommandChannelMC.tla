-------------------------- MODULE CommandChannelMC --------------------------
(* Instances of CommandChannel for TLC; the bounds are in the .cfg files. *)
EXTENDS CommandChannel, TLC

\* No action names a command, a heartbeat or a connection.
Symmetry == Permutations(Commands) \cup Permutations(Beats) \cup Permutations(Sockets)

=============================================================================
