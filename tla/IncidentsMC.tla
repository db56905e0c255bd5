---------------------------- MODULE IncidentsMC ----------------------------
(* An instance of Incidents for TLC: one client under the global rule and   *)
(* one with a rule of its own, which does not close by itself.              *)
EXTENDS Incidents, TLC

CONSTANTS d1, d2, c1, c2, own, global

ItsClient == (d1 :> c1) @@ (d2 :> c2)
RuleOf == (own :> c1) @@ (global :> AnyClient)

=============================================================================
