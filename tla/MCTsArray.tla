------------------------------ MODULE MCTsArray ------------------------------
(* A small array: two dense indices, lengths up to three, one value of each *)
(* class.  Negative arguments exercise the clamps and the RangeError.       *)
EXTENDS TsArray

Lengths == {-1, 0, 1, 3}
Froms == {-1, 2}
=============================================================================
