-------------------------- MODULE TelemetryDropsMC --------------------------
(* Instances of TelemetryDrops for TLC; the bounds are in the .cfg file. *)
EXTENDS TelemetryDrops

=============================================================================
