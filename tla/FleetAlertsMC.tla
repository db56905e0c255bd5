--------------------------- MODULE FleetAlertsMC ---------------------------
(* Instances of FleetAlerts for TLC; the bounds are in the .cfg files.      *)
EXTENDS FleetAlerts

CONSTANTS a1, d1

OneSite == [d \in {d1} |-> a1]

=============================================================================
