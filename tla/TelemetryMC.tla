----------------------------- MODULE TelemetryMC ----------------------------
(* Instances of Telemetry for TLC; the bounds are in the .cfg files. *)
EXTENDS Telemetry, TLC

\* Slots and devices are interchangeable: no action names one of them.
Symmetry == Permutations(Slots) \cup Permutations(Devices)

=============================================================================
