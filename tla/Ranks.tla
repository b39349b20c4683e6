-------------------------------- MODULE Ranks --------------------------------
(***************************************************************************)
(* Sorting a set of numbers, and selecting from a sequence, by rank: what  *)
(* SetToSortSeq and SelectSeq compute by recursion, as sets and their      *)
(* cardinalities.                                                          *)
(***************************************************************************)
EXTENDS Naturals, FiniteSets

\* The place of n in P, counted from the least element.
Rank(P, n) == Cardinality({m \in P : m <= n})

Nth(P, k) == CHOOSE n \in P : Rank(P, n) = k

Ascending(P) == [k \in 1..Cardinality(P) |-> Nth(P, k)]

\* What a sequence has at these places, in their order.
Subsequence(seq, places) == [k \in 1..Cardinality(places) |-> seq[Nth(places, k)]]
=============================================================================
