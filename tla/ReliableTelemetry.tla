-------------------------- MODULE ReliableTelemetry -------------------------
(***************************************************************************)
(* What the telemetry path promises, without saying how: a captured        *)
(* reading stays with the agent until the cloud has dealt with it, and     *)
(* the cloud does deal with it in the end.                                 *)
(***************************************************************************)
CONSTANT Readings

VARIABLES
    captured,   \* readings taken from a printer so far
    kept,       \* readings the agent still owes to the cloud
    handled     \* readings the cloud stored, or decided to skip

reliableVars == <<captured, kept, handled>>

Init == captured = {} /\ kept = {} /\ handled = {}

Capture == \E r \in Readings \ captured :
    /\ captured' = captured \cup {r}
    /\ kept' = kept \cup {r}
    /\ UNCHANGED handled

Handle == \E some \in SUBSET captured :
    /\ handled' = handled \cup some
    /\ UNCHANGED <<captured, kept>>

Forget == \E some \in SUBSET (kept \cap handled) :
    /\ kept' = kept \ some
    /\ UNCHANGED <<captured, handled>>

Next == Capture \/ Handle \/ Forget

Spec == Init /\ [][Next]_reliableVars

\* Every debt is eventually paid.
EventuallySettled == \A r \in Readings : r \in kept ~> r \notin kept

FairSpec == Spec /\ EventuallySettled

=============================================================================
