---------------------------- MODULE DependencyMap ----------------------------
(***************************************************************************)
(* What the runtime dependency index promises (DependencyIndex.h, the      *)
(* class comment): a map from association keys (dep, node, region) to the  *)
(* method that recorded the association first.  Recording a known key is a *)
(* no-op; retiring a method drops the keys it owns.                        *)
(***************************************************************************)
CONSTANTS Keys,     \* the association keys the index accepts
          Methods   \* the method ids that record associations

VARIABLE owner      \* key -> method, a function on the recorded keys

Recorded == DOMAIN owner

Init == owner = [k \in {} |-> CHOOSE m \in Methods : TRUE]

Record(k, m) ==
    /\ k \notin Recorded
    /\ owner' = [j \in Recorded \cup {k} |-> IF j = k THEN m ELSE owner[j]]

Retire(m) == owner' = [k \in {j \in Recorded : owner[j] # m} |-> owner[k]]

Next == \/ \E k \in Keys, m \in Methods : Record(k, m)
        \/ \E m \in Methods : Retire(m)

Spec == Init /\ [][Next]_owner
=============================================================================
