----------------------------- MODULE MCTsObject -----------------------------
(* Two objects, one of them the global object, whose keys and attributes     *)
(* cover default data, read-only data and accessor properties.               *)
EXTENDS TsObject

ReadOnly == [writable |-> FALSE, configurable |-> FALSE, accessor |-> FALSE]
Accessor == [writable |-> FALSE, configurable |-> TRUE, accessor |-> TRUE]

OnlyReadOnly == {ReadOnly}
AllAttrs == {DefaultAttrs, ReadOnly, Accessor}
=============================================================================
