--------------------------- MODULE MCNoIntersection -------------------------
(***************************************************************************)
(* Every combination of three sorted lists of up to MaxLen names out of    *)
(* MaxName, empty lists and repeated names included.                       *)
(***************************************************************************)
EXTENDS NoIntersection

CONSTANTS MaxName, MaxLen

ShortLists == UNION {[1..n -> 1..MaxName] : n \in 0..MaxLen}
SortedLists == {l \in ShortLists : Sorted(l)}
=============================================================================
