------------------------------- MODULE Selection -------------------------------
(***************************************************************************)
(* Parts of a sequence, in order, by the places that are selected: what    *)
(* SelectSeq does, without its recursion.                                  *)
(***************************************************************************)
EXTENDS Naturals, Sequences, FiniteSets

\* The n-th smallest of ks has n members of ks up to it.
Rank(ks, k) == Cardinality({j \in ks : j <= k})
Ascending(ks) == [n \in 1..Cardinality(ks) |-> CHOOSE k \in ks : Rank(ks, k) = n]

Selected(s, ks) == [n \in 1..Cardinality(ks) |-> s[Ascending(ks)[n]]]
Where(s, Test(_)) == Selected(s, {k \in DOMAIN s : Test(s[k])})
=============================================================================
