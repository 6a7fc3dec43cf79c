-------------------------- MODULE MCDependencyIndex --------------------------
(***************************************************************************)
(* DependencyIndex for TLC.  Two dependencies, one node and one region,    *)
(* each possibly invalid, give six keys; two methods contend for them.     *)
(***************************************************************************)
EXTENDS DependencyIndex

\* Bound on the associations live at once and on the shared keys: a key
\* shared by two methods beside a third entry needs three.
MaxLive == 3
Bounded == Cardinality(live) <= MaxLive /\ Cardinality(shared) <= 2
=============================================================================
