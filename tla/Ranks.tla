-------------------------------- MODULE Ranks --------------------------------
(***************************************************************************)
(* Positions in a vector kept sorted, and the part of a sequence found at  *)
(* a set of positions: what std::vector indexing and erase-remove compute. *)
(***************************************************************************)
EXTENDS Integers, FiniteSets

\* The number of members of D below n: the index of n in the sorted vector.
Rank(D, n) == Cardinality({m \in D : m < n})

\* The member of D at index k.
NthOf(D, k) == CHOOSE n \in D : Rank(D, n) = k

\* The elements of s at the positions in D, in their order.
SelectAt(s, D) == [i \in 1 .. Cardinality(D) |-> s[NthOf(D, i - 1)]]
=============================================================================
