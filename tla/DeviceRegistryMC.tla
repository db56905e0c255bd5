-------------------------- MODULE DeviceRegistryMC --------------------------
(* Instances of DeviceRegistry for TLC.                                    *)
EXTENDS DeviceRegistry, TLC

CONSTANTS a1, a2, a3, c1, c2

\* Two agents of one client, and one of another.
TwoSites == a1 :> c1 @@ a2 :> c1 @@ a3 :> c2

Interchangeable == Permutations(Serials) \cup Permutations(Handlers) \cup Permutations({a1, a2})

=============================================================================
