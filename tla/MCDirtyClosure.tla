--------------------------- MODULE MCDirtyClosure ---------------------------
(***************************************************************************)
(* DirtyClosure for TLC: a loop with a phi, an addition fed by it, a guard *)
(* with its frame state and a branch, wired in every way the free slots    *)
(* allow, with at most one dead node.                                      *)
(***************************************************************************)
EXTENDS DirtyClosure

MCN == 6

MCKind == [n \in 0 .. 5 |->
    CASE n = 0 -> "AddI" [] n = 1 -> "If" [] n = 2 -> "LoopBegin"
      [] n = 3 -> "Phi" [] n = 4 -> "FrameState" [] n = 5 -> "Guard"]

MCGraphs ==
    {[kind |-> MCKind,
      input |-> [n \in 0 .. 5 |->
          CASE n = 0 -> <<3, a>> [] n = 1 -> <<2, b>> [] n = 2 -> <<c>>
            [] n = 3 -> <<2, d, e>> [] n = 4 -> <<a, d>> [] n = 5 -> <<c, e, 4>>],
      dead |-> x] :
        a \in {0, 3}, b \in {0, 5}, c \in {1, 2, 5}, d \in {0, 3}, e \in {0, 4},
        x \in {{}, {0}, {3}, {4}}}

\* Id 7 is beyond the graph.
MCSeedSets == {{}, {0}, {4}, {5, 7}, {2, 3}, 0 .. 5}

MCMaxSizes == {2, 3, 6}
=============================================================================
