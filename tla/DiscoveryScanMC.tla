-------------------------- MODULE DiscoveryScanMC --------------------------
(* Instances of DiscoveryScan for TLC; the bounds are in the .cfg file. *)
EXTENDS DiscoveryScan

From(a, b) == [start |-> a, end |-> b]
\* Two ranges and a corrupt one between them; ranges that overlap and end in a
\* corrupt one; nothing declared.
SomeRanges == {<<From(1, 2), From(9, 8), From(3, 4)>>,
               <<From(2, 3), From(3, 3), From(9, 8)>>,
               <<>>}

=============================================================================
