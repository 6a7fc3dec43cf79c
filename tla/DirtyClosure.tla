---------------------------- MODULE DirtyClosure ----------------------------
(***************************************************************************)
(* The dirty-node closure (compiler/pipeline/src/DirtyClosure.cpp).  From  *)
(* the nodes whose speculation broke, expandDirtyClosure follows def-use   *)
(* chains to every node whose semantics depend on them, or stops when the  *)
(* set outgrows max_size.  The vector of dirty nodes is kept sorted while  *)
(* the loop indexes it, so an insertion below the index moves the nodes    *)
(* the loop has yet to visit; the vector is modelled by its set, and       *)
(* dirtyNodes[i] is the i-th smallest member.                              *)
(***************************************************************************)
EXTENDS NodeInfo, Ranks, Integers, FiniteSets

CONSTANTS N,          \* nodeCount()
          Graphs,     \* the graphs considered: [kind, input, dead]
          SeedSets,   \* the seed sets considered; ids >= N are out of range
          MaxSizes    \* the values of max_size considered

NodeIds == 0 .. N - 1

ASSUME GraphAssumption ==
    /\ N \in Nat /\ MaxSizes \subseteq Nat
    /\ \A S \in SeedSets : S \subseteq Nat
    /\ \A g \in Graphs : /\ g.kind \in [NodeIds -> Kinds]
                         /\ \A n \in NodeIds : g.input[n] \in Seq(NodeIds)
                         /\ g.dead \subseteq NodeIds

VARIABLES g, seeds, max_size,   \* the arguments
          dirtyNodes,           \* the sorted vector, as a set
          i, snapshot_size,     \* the for loop; i = snapshot_size ends a round
          changed, iterations, budget_exceeded,
          phase                 \* "start", "round", "scan", "done"

args == <<g, seeds, max_size>>
vars == <<args, dirtyNodes, i, snapshot_size, changed, iterations, budget_exceeded, phase>>

Dead(n) == n >= N \/ n \in g.dead

isSideEffectingUser(n) ==
    LET row == info(g.kind[n])
    IN  \/ row.cls \in {"Call", "Guard"}
        \/ row.cls = "Memory" /\ row.effect # "Pure"

semanticsDependOn(user, slot) ==
    /\ ~Dead(user)
    /\ \/ isSideEffectingUser(user)
       \/ RoleOfSlot(g.kind[user], Len(g.input[user]), slot)
             \in {"Mem", "Data", "FrameState", "Parent"}

\* The users of n (Graph::usesOf) that the forward step marks.
Dependents(n) ==
    {u \in NodeIds : \E slot \in DOMAIN g.input[u] :
                        g.input[u][slot] = n /\ semanticsDependOn(u, slot)}

\* dirtyNodes[k], counting from 0.
Nth(k) == NthOf(dirtyNodes, k)

Init ==
    /\ g \in Graphs /\ seeds \in SeedSets /\ max_size \in MaxSizes
    /\ dirtyNodes = {} /\ i = 0 /\ snapshot_size = 0
    /\ changed = TRUE /\ iterations = 0 /\ budget_exceeded = FALSE
    /\ phase = "start"

\* Sort and deduplicate the seeds; drop dead and out-of-range ones.
Start ==
    /\ phase = "start"
    /\ dirtyNodes' = {n \in seeds : ~Dead(n)}
    /\ phase' = "round"
    /\ UNCHANGED <<args, i, snapshot_size, changed, iterations, budget_exceeded>>

\* The head of the while loop.
Round ==
    /\ phase = "round" /\ changed /\ ~budget_exceeded
    /\ changed' = FALSE
    /\ iterations' = iterations + 1
    /\ snapshot_size' = Cardinality(dirtyNodes)
    /\ i' = 0
    /\ phase' = "scan"
    /\ UNCHANGED <<args, dirtyNodes, budget_exceeded>>

\* The dependents that visiting dirtyNodes[i] adds; a dead node is skipped.
NewDependents == IF Dead(Nth(i)) THEN {} ELSE Dependents(Nth(i)) \ dirtyNodes

\* The loop body for one index: insert the dependents of dirtyNodes[i] in the
\* order of the use list, until one insertion leaves the vector larger than
\* the budget.  The budget is looked at only when a node was inserted.
ScanMarking(mark, budget) ==
    LET new == NewDependents
        size == Cardinality(dirtyNodes)
        cap == IF budget > size THEN budget ELSE size
        over == Cardinality(dirtyNodes \cup new) > cap
    IN  /\ phase = "scan" /\ i < snapshot_size
        /\ \E T \in SUBSET new :
              /\ IF over THEN Cardinality(dirtyNodes \cup T) = cap + 1 ELSE T = new
              /\ dirtyNodes' = dirtyNodes \cup T
        /\ changed' = (changed \/ mark)
        /\ budget_exceeded' = over
        /\ i' = IF over THEN snapshot_size ELSE i + 1
        /\ UNCHANGED <<args, snapshot_size, iterations, phase>>

\* A loop body that takes insertions below the index for visited nodes.
ScanAppended == ScanMarking(\E n \in NewDependents : n > Nth(i), max_size)

\* A loop body that calls an already dirty dependent a change.
ScanAlwaysChanged == ScanMarking(Dependents(Nth(i)) # {}, max_size)

\* A loop body that stops when the set reaches max_size.
ScanAtBudget == ScanMarking(NewDependents # {}, max_size - 1)

Scan == ScanMarking(NewDependents # {}, max_size)

EndRound ==
    /\ phase = "scan" /\ i = snapshot_size
    /\ phase' = "round"
    /\ UNCHANGED <<args, dirtyNodes, i, snapshot_size, changed, iterations, budget_exceeded>>

\* A loop that does not stop on the budget.
ReturnAtFixpoint ==
    /\ phase = "round" /\ ~changed
    /\ phase' = "done"
    /\ UNCHANGED <<args, dirtyNodes, i, snapshot_size, changed, iterations, budget_exceeded>>

Return ==
    /\ phase = "round" /\ (~changed \/ budget_exceeded)
    /\ phase' = "done"
    /\ UNCHANGED <<args, dirtyNodes, i, snapshot_size, changed, iterations, budget_exceeded>>

Next == Start \/ Round \/ Scan \/ EndRound \/ Return

Spec == Init /\ [][Next]_vars

\* The function runs to completion once called: weak fairness of its steps.
FairSpec == Spec /\ WF_vars(Next)

-----------------------------------------------------------------------------
LiveNodes == NodeIds \ g.dead

\* The reference: the least set of live nodes that holds the live seeds and
\* the dependents of its members.
Closure ==
    LET step == [n \in LiveNodes |-> Dependents(n)]
        Closed(S) == /\ {n \in seeds : ~Dead(n)} \subseteq S
                     /\ \A n \in S : step[n] \subseteq S
    IN  {n \in LiveNodes : \A S \in SUBSET LiveNodes : Closed(S) => n \in S}

\* Type invariant; dead and out-of-range nodes never enter the vector.
TypeOK ==
    /\ g \in Graphs /\ seeds \in SeedSets /\ max_size \in MaxSizes
    /\ dirtyNodes \subseteq LiveNodes
    /\ snapshot_size \in 0 .. N /\ i \in 0 .. snapshot_size
    /\ changed \in BOOLEAN /\ budget_exceeded \in BOOLEAN
    /\ iterations \in Nat
    /\ phase \in {"start", "round", "scan", "done"}

\* When the expansion returns without budget_exceeded, the dirty set is the
\* whole dependence closure of the seeds: no node was missed although the
\* vector shifts under the index and a round ends at a stale snapshot size.
ClosureComplete ==
    phase = "done" /\ ~budget_exceeded => dirtyNodes = Closure

\* The set returned stays within the closure, and budget_exceeded is reported only for
\* a closure that really is larger than max_size.
NoFalseEscalation ==
    phase = "done" => /\ dirtyNodes \subseteq Closure
                      /\ budget_exceeded => Cardinality(Closure) > max_size

\* "the iteration count is bounded by the graph's live node count"
\* (DirtyClosureResult::iterations), for a graph with a live node.
IterationsBounded == iterations <= 1 \/ iterations <= Cardinality(LiveNodes)

\* "If the closure exceeds this, the caller escalates to full method deopt"
\* (DirtyClosure.h): a returned set above max_size carries budget_exceeded.
OversizeEscalates ==
    phase = "done" /\ Cardinality(dirtyNodes) > max_size => budget_exceeded

\* The fixpoint loop terminates on every graph, cycles through phis included.
Terminates == <>(phase = "done")
=============================================================================
