------------------------------ MODULE MCGraph ------------------------------
(***************************************************************************)
(* Graph for TLC.  99 stands for kInvalidNodeId, which no node ever has.   *)
(***************************************************************************)
EXTENDS Graph

MCNoStrays == {99}
=============================================================================
