--------------------------- MODULE RemoteActionsMC --------------------------
(* Instances of RemoteActions for TLC; the bounds are in the .cfg files. *)
EXTENDS RemoteActions, TLC

CONSTANTS b1, i1, i2

TwoItems == {i1, i2}
SameBatch == [i \in TwoItems |-> b1]
OneItem == {i1}
ItsBatch == [i \in OneItem |-> b1]

\* The commands, and the items of the one batch, are interchangeable.
Symmetry == Permutations(Commands) \cup Permutations(Items)

=============================================================================
